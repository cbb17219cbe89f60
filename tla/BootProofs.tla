------------------------------ MODULE BootProofs ------------------------------
(***************************************************************************)
(* The safety theorems of the scenes and of the boot scene, for any        *)
(* scenes, fade lengths, widths of the fader's counters, timers of the     *)
(* screens and numbers of resets and failed commands.                      *)
(*                                                                         *)
(* First the scenes: their invariant, that Scene implements SceneChange,   *)
(* and that fades are monotone.  Then the boot scene, a scene whose own    *)
(* operation runs two state managers, one after the other, on the same     *)
(* world: the scene's members, the fader, the automatic fade in, the reset *)
(* mode.  What they keep between their calls is a predicate of the world   *)
(* alone (Agree), which every operation of every state preserves; the rest *)
(* of the invariant places the calls in the frame of Scene.                *)
(***************************************************************************)
EXTENDS Boot, TLAPS

-----------------------------------------------------------------------------
(* The fader.                                                              *)

\* A fade starts only from a black or a free screen, and all that is written
\* into a fader is a fader.
LEMMA StartIs ==
  ASSUME NEW f \in Faders, NEW n \in U16
  PROVE  /\ StartFadeIn(f, n) \in Faders
         /\ StartFadeOut(f, n) \in Faders
         /\ StartFadeIn(f, n).status = IF f.status = "OPAQUE" THEN "FADE_IN" ELSE f.status
         /\ StartFadeOut(f, n).status = IF f.status = "HIDDEN" THEN "FADE_OUT" ELSE f.status
<1> DEFINE g == SetFrame(f, n)
<1>1. g \in Faders /\ g.status = f.status
  BY DEF SetFrame, Faders
<1>2. 0 \in U16
  BY MaxU16Assumption DEF U16
<1>3. [g EXCEPT !.status = "FADE_IN", !.cur = 0] \in Faders
      /\ [g EXCEPT !.status = "FADE_IN", !.cur = 0].status = "FADE_IN"
  BY <1>1, <1>2 DEF Faders, EStatus
<1>4. [g EXCEPT !.status = "FADE_OUT", !.cur = 0] \in Faders
      /\ [g EXCEPT !.status = "FADE_OUT", !.cur = 0].status = "FADE_OUT"
  BY <1>1, <1>2 DEF Faders, EStatus
<1>5. StartFadeIn(f, n) = FadeIn(g) /\ StartFadeOut(f, n) = FadeOut(g)
  BY DEF StartFadeIn, StartFadeOut
<1> HIDE DEF g
<1> QED BY <1>1, <1>3, <1>4, <1>5 DEF FadeIn, FadeOut

LEMMA SetFaderIs ==
  ASSUME NEW f \in Faders, NEW new \in OtherFaders
  PROVE  SetFader(f, new) \in Faders /\ SetFader(f, new).status = f.status
<1>1. new \in Faders
  <2>1. {0} \subseteq U16 /\ Durations \subseteq U16 /\ {"OPAQUE", "HIDDEN"} \subseteq EStatus
    BY SceneAssumption, MaxU16Assumption DEF EStatus, U16
  <2> QED BY <2>1 DEF OtherFaders, Faders
<1>2. f.status \in EStatus
  BY DEF Faders
<1>3. [new EXCEPT !.status = f.status] \in Faders
      /\ [new EXCEPT !.status = f.status].status = f.status
  BY <1>1, <1>2 DEF Faders
<1> QED BY <1>3 DEF SetFader

\* A frame ends fades and starts none.
LEMMA CalcIs ==
  ASSUME NEW f \in Faders
  PROVE  Calc(f) \in Faders /\ (f.status = "OPAQUE" => Calc(f) = f)
         /\ (f.status = "HIDDEN" => Calc(f) = f)
<1>1. CASE ~Fading(f)
  BY <1>1 DEF Calc
<1>2. CASE Fading(f)
  <2> DEFINE st == IF ~FadeEnds(f) THEN f.status
                   ELSE IF f.status = "FADE_IN" THEN "HIDDEN" ELSE "OPAQUE"
  <2>1. Calc(f) = [f EXCEPT !.cur = Tick(f), !.status = st]
    BY <1>2 DEF Calc
  <2>2. st \in EStatus
    BY DEF Faders, EStatus
  <2>3. Tick(f) \in U16
    BY MaxU16Assumption DEF Tick, U16, Faders
  <2> HIDE DEF st
  <2>4. Calc(f) \in Faders
    BY <2>1, <2>2, <2>3 DEF Faders
  <2> QED BY <1>2, <2>4 DEF Fading
<1> QED BY <1>1, <1>2

-----------------------------------------------------------------------------
(* Scene objects.                                                          *)

\* There is one scene object, and an operation moves it on.
LEMMA Move ==
  ASSUME TypeOK, OneScene, NEW s \in Slots, stage[s] # "none", NEW st \in Stages,
         Becomes(s, st)
  PROVE  /\ stage' \in [Slots -> Stages]
         /\ Alive = {s} /\ Alive' = IF st = "none" THEN {} ELSE {s}
         /\ \A x \in Stages \ {"none"} : In(x) = IF x = stage[s] THEN {s} ELSE {}
         /\ \A x \in Stages \ {"none"} : In(x)' = IF x = st THEN {s} ELSE {}
<1>1. \A t \in Slots : t # s => stage[t] = "none"
  BY DEF OneScene, Alive, In
<1>2. stage' \in [Slots -> Stages]
      /\ \A t \in Slots : stage'[t] = IF t = s THEN st ELSE stage[t]
  BY DEF Becomes, TypeOK
<1>3. Alive = {s} /\ Alive' = IF st = "none" THEN {} ELSE {s}
  BY <1>1, <1>2 DEF Alive, In
<1>4. \A x \in Stages \ {"none"} : In(x) = IF x = stage[s] THEN {s} ELSE {}
  BY <1>1 DEF In
<1>5. \A x \in Stages \ {"none"} : In(x)' = IF x = st THEN {s} ELSE {}
  BY <1>1, <1>2 DEF In
<1> QED BY <1>2, <1>3, <1>4, <1>5

\* There is none, and one is made.
LEMMA Make ==
  ASSUME TypeOK, Alive = {}, In("none") # {}, NEW st \in Stages \ {"none"},
         Becomes(NewObject, st)
  PROVE  /\ stage' \in [Slots -> Stages]
         /\ \E s \in Slots : /\ Alive' = {s}
                             /\ \A x \in Stages \ {"none"} :
                                  In(x)' = IF x = st THEN {s} ELSE {}
         /\ \A x \in Stages \ {"none"} : In(x) = {}
<1> DEFINE s == NewObject
<1>1. s \in Slots
  BY DEF NewObject, In
<1>2. \A t \in Slots : stage[t] = "none"
  BY DEF Alive, In
<1> HIDE DEF s
<1>3. stage' \in [Slots -> Stages]
      /\ \A t \in Slots : stage'[t] = IF t = s THEN st ELSE "none"
  BY <1>1, <1>2 DEF Becomes, TypeOK, s
<1>4. Alive' = {s}
  BY <1>1, <1>3 DEF Alive, In
<1>5. \A x \in Stages \ {"none"} : In(x)' = IF x = st THEN {s} ELSE {}
  BY <1>1, <1>3 DEF In
<1>6. \A x \in Stages \ {"none"} : In(x) = {}
  BY <1>2 DEF In
<1> QED BY <1>1, <1>3, <1>4, <1>5, <1>6

LEMMA Same ==
  ASSUME stage' = stage
  PROVE  Alive' = Alive /\ \A x : In(x)' = In(x)
BY DEF Alive, In

\* Stages are different, so the one scene object is in one of them.
LEMMA Sole ==
  ASSUME TypeOK, OneScene, NEW s \in Slots, stage[s] # "none"
  PROVE  Alive = {s} /\ \A x \in Stages \ {"none"} : In(x) = IF x = stage[s] THEN {s} ELSE {}
<1>1. \A t \in Slots : t # s => stage[t] = "none"
  BY DEF OneScene, Alive, In
<1> QED BY <1>1 DEF Alive, In

-----------------------------------------------------------------------------
\* Requests, fades and frames that leave the scene object where it is keep
\* the invariant if they start no fade without a scene that runs.
LEMMA Stays ==
  ASSUME SceneInv, TypeOK', stage' = stage, otherSceneFlg' = otherSceneFlg,
         nextScene = INVALID \/ nextScene' = nextScene,
         In("run") # {} \/ fader'.status = fader.status,
         at' = "own" => In("run") # {}
  PROVE  SceneInv'
<1>1. Alive' = Alive /\ \A x : In(x)' = In(x)
  BY Same
<1>2. OneScene'
  BY <1>1 DEF SceneInv, OneScene
<1>3. Pending'
  BY <1>1 DEF SceneInv, Pending, TypeOK
<1>4. Dark'
  BY <1>1 DEF SceneInv, Dark, TypeOK
<1> QED BY <1>2, <1>3, <1>4 DEF SceneInv

\* The one scene object moves on: a black screen where it does not run, a
\* next scene where it leaves.
LEMMA Moves ==
  ASSUME SceneInv, TypeOK', NEW s \in Slots, stage[s] # "none", NEW st \in Stages,
         Becomes(s, st), st # "none" => otherSceneFlg' = otherSceneFlg,
         st = "none" => otherSceneFlg' = FALSE,
         nextScene' = nextScene, st \in {"none", "leaving", "delete"} => nextScene # INVALID,
         st # "run" => fader'.status = "OPAQUE",
         at' # "own"
  PROVE  SceneInv'
<1>1. /\ Alive = {s} /\ Alive' = IF st = "none" THEN {} ELSE {s}
      /\ \A x \in Stages \ {"none"} : In(x)' = IF x = st THEN {s} ELSE {}
  BY Move DEF SceneInv
<1>2. OneScene'
  BY <1>1 DEF SceneInv, OneScene
<1>3. Pending'
  BY <1>1 DEF Pending
<1>4. Dark'
  BY <1>1 DEF Dark, Stages
<1> QED BY <1>2, <1>3, <1>4 DEF SceneInv

LEMMA TypePreserved ==
  ASSUME TypeOK, [Next]_sceneVars
  PROVE  TypeOK'
<1> USE DEF TypeOK
<1>1. CASE UNCHANGED sceneVars
  BY <1>1 DEF sceneVars, names, fades
<1>2. CASE OwnCall
  <2>1. fader' \in Faders
    <3>1. \A n \in Durations : n \in U16
      BY SceneAssumption
    <3>2. \A n \in Durations : StartFadeIn(fader, n) \in Faders /\ StartFadeOut(fader, n) \in Faders
      BY <3>1, StartIs
    <3>3. \A new \in OtherFaders : SetFader(fader, new) \in Faders
      BY SetFaderIs
    <3>4. CASE UNCHANGED fades
      BY <3>4 DEF fades
    <3>5. CASE ~UNCHANGED fades
      <4>1. PICK n \in Durations, new \in OtherFaders :
              fader' \in {StartFadeIn(fader, n), StartFadeOut(fader, n), SetFader(fader, new)}
        BY <1>2, <3>5 DEF OwnCall
      <4> QED BY <4>1, <3>2, <3>3
    <3> QED BY <3>4, <3>5
  <2> QED BY <1>2, <2>1 DEF OwnCall, fades, SetNextScene
<1>3. CASE ProcessCall
  BY <1>3, SceneAssumption DEF ProcessCall, fades, SetNextScene
<1>4. CASE Frame
  <2>1. CASE Reset
    BY <2>1 DEF Reset, Goes, fades, SetNextScene, Parts, Modes
  <2>2. CASE SkipNextScene \/ SkipDelete \/ SkipCreate \/ PhaseWait \/ ChildrenWait
             \/ OwnReturn \/ ProcessesReturn
    BY <2>2 DEF SkipNextScene, SkipDelete, SkipCreate, PhaseWait, ChildrenWait, OwnReturn,
                ProcessesReturn, Goes, fades, names, Parts
  <2>3. CASE CreateNextScene
    BY <2>3 DEF CreateNextScene, NoNextScene, Becomes, Goes, Stages, Parts, Modes, ResetFinished
  <2>4. CASE DeleteScene \/ CreateScene \/ PhaseDone \/ ChildrenCreated
    BY <2>4 DEF DeleteScene, CreateScene, PhaseDone, ChildrenCreated, Becomes, Goes, names,
                fades, Stages, Parts, Modes, ResetFinished
  <2>5. CASE PrepareNextScene
    <3>1. fader' \in Faders
      BY <2>5, StartIs DEF PrepareNextScene
    <3>2. stage' \in [Slots -> Stages]
      BY <2>5 DEF PrepareNextScene, Becomes, Stages
    <3> QED BY <2>5, <3>1, <3>2 DEF PrepareNextScene, Goes, names, Parts
  <2>6. CASE PreExecute
    <3>1. fader' \in Faders
      BY <2>6, StartIs DEF PreExecute
    <3> QED BY <2>6, <3>1 DEF PreExecute, Goes, names, Parts
  <2>7. CASE Connect
    BY <2>7 DEF Connect, Goes, names, fades, Stages, Parts
  <2>8. CASE FaderCalc
    <3>1. fader' \in Faders
      BY <2>8, CalcIs DEF FaderCalc
    <3> QED BY <2>8, <3>1 DEF FaderCalc, Goes, names, Parts
  <2> QED BY <1>4, <2>1, <2>2, <2>3, <2>4, <2>5, <2>6, <2>7, <2>8 DEF Frame
<1> QED BY <1>1, <1>2, <1>3, <1>4 DEF Next

\* The parts of a frame and the calls in it keep the invariant.
LEMMA InvPreserved ==
  ASSUME SceneInv, [Next]_sceneVars
  PROVE  SceneInv'
<1> USE DEF SceneInv
<1>0. TypeOK'
  BY TypePreserved
<1>1. CASE UNCHANGED sceneVars
  <2>1. stage' = stage /\ otherSceneFlg' = otherSceneFlg /\ nextScene' = nextScene
        /\ fader' = fader /\ at' = at
    BY <1>1 DEF sceneVars, names, fades
  <2>2. at' = "own" => In("run") # {}
    BY <2>1 DEF Dark
  <2> QED BY <1>0, <2>1, <2>2, Stays
<1>2. CASE OwnCall
  <2>1. In("run") # {}
    BY <1>2 DEF OwnCall, Dark
  <2>2. stage' = stage /\ otherSceneFlg' = otherSceneFlg
        /\ (nextScene = INVALID \/ nextScene' = nextScene)
    BY <1>2 DEF OwnCall, SetNextScene, Accepts
  <2> QED BY <1>0, <2>1, <2>2, Stays
<1>3. CASE ProcessCall
  <2>1. /\ stage' = stage /\ otherSceneFlg' = otherSceneFlg /\ fader' = fader
        /\ at' # "own" /\ (nextScene = INVALID \/ nextScene' = nextScene)
    BY <1>3 DEF ProcessCall, SetNextScene, Accepts
  <2> QED BY <1>0, <2>1, Stays
<1>4. CASE Frame
  <2>1. CASE Reset
    <3>1. /\ stage' = stage /\ otherSceneFlg' = otherSceneFlg /\ fader' = fader
          /\ at' # "own" /\ (nextScene = INVALID \/ nextScene' = nextScene)
      BY <2>1 DEF Reset, SetNextScene, Accepts, Goes, fades
    <3> QED BY <1>0, <3>1, Stays
  <2>2. CASE SkipNextScene \/ SkipDelete \/ SkipCreate \/ PhaseWait \/ ChildrenWait
             \/ OwnReturn \/ ProcessesReturn
    <3>1. /\ stage' = stage /\ otherSceneFlg' = otherSceneFlg /\ fader' = fader
          /\ at' # "own" /\ nextScene' = nextScene
      BY <2>2 DEF SkipNextScene, SkipDelete, SkipCreate, PhaseWait, ChildrenWait, OwnReturn,
                  ProcessesReturn, Goes, fades, names
    <3> QED BY <1>0, <3>1, Stays
  <2>3. CASE CreateNextScene
    <3>1. Alive = {} /\ In("none") # {} /\ nextScene # INVALID
      BY <2>3 DEF CreateNextScene, NoNextScene, OneScene
    <3>2. PICK st \in {"create", "phase"} : Becomes(NewObject, st)
      BY <2>3 DEF CreateNextScene
    <3>3. PICK s \in Slots : /\ Alive' = {s}
                             /\ \A x \in Stages \ {"none"} : In(x)' = IF x = st THEN {s} ELSE {}
      BY <3>1, <3>2, Make DEF Stages
    <3>4. \A x \in Stages \ {"none"} : In(x) = {}
      BY <3>1, <3>2, Make DEF Stages
    <3>5. fader' = fader /\ otherSceneFlg' = TRUE /\ at' = "delete"
      BY <2>3 DEF CreateNextScene, Goes
    <3>6. fader.status = "OPAQUE"
      BY <3>4 DEF Dark, Stages
    <3>7. OneScene' /\ Pending'
      BY <3>3, <3>5 DEF OneScene, Pending
    <3>8. Dark'
      BY <3>3, <3>5, <3>6 DEF Dark, Stages
    <3> QED BY <1>0, <3>7, <3>8
  <2>4. CASE DeleteScene
    <3>1. PICK s \in In("delete") : Becomes(s, "none")
      BY <2>4 DEF DeleteScene
    <3>2. s \in Slots /\ stage[s] = "delete"
      BY <3>1 DEF In
    <3>3. In("run") = {} /\ nextScene # INVALID
      <4>1. In("run") = {}
        BY <3>2, Sole DEF Stages
      <4> QED BY <3>1, <4>1 DEF Dark
    <3>4. fader' = fader /\ nextScene' = nextScene /\ otherSceneFlg' = FALSE /\ at' = "create"
      BY <2>4 DEF DeleteScene, Goes, fades
    <3> QED BY <1>0, <3>1, <3>2, <3>3, <3>4, Moves DEF Dark, Stages
  <2>5. CASE CreateScene
    <3>1. PICK s \in In("create") : Becomes(s, "phase")
      BY <2>5 DEF CreateScene
    <3>2. s \in Slots /\ stage[s] = "create"
      BY <3>1 DEF In
    <3>3. In("run") = {}
      BY <3>2, Sole DEF Stages
    <3>4. fader' = fader /\ nextScene' = nextScene /\ otherSceneFlg' = otherSceneFlg
          /\ at' = "execute"
      BY <2>5 DEF CreateScene, Goes, names
    <3> QED BY <1>0, <3>1, <3>2, <3>3, <3>4, Moves DEF Dark, Stages
  <2>6. CASE PhaseDone
    <3>1. PICK s \in In("phase") : Becomes(s, "children")
      BY <2>6 DEF PhaseDone
    <3>2. s \in Slots /\ stage[s] = "phase"
      BY <3>1 DEF In
    <3>3. In("run") = {}
      BY <3>2, Sole DEF Stages
    <3>4. fader' = fader /\ nextScene' = nextScene /\ otherSceneFlg' = otherSceneFlg
          /\ at' = "execute"
      BY <2>6 DEF PhaseDone, names, fades
    <3> QED BY <1>0, <3>1, <3>2, <3>3, <3>4, Moves DEF Dark, Stages
  <2>7. CASE ChildrenCreated
    <3>1. PICK s \in In("children") : Becomes(s, "run")
      BY <2>7 DEF ChildrenCreated
    <3>2. s \in Slots /\ stage[s] = "children"
      BY <3>1 DEF In
    <3>3. nextScene' = nextScene /\ otherSceneFlg' = otherSceneFlg /\ at' = "processes"
      BY <2>7 DEF ChildrenCreated, Goes, names
    <3> QED BY <1>0, <3>1, <3>2, <3>3, Moves DEF Stages
  <2>8. CASE PrepareNextScene
    <3>1. PICK s \in In("children") \cup In("run") :
            \/ fader.status = "HIDDEN" /\ fader' = StartFadeOut(fader, fadeOut) /\ stage' = stage
            \/ fader.status = "OPAQUE" /\ Becomes(s, "leaving") /\ fader' = fader
            \/ fader' = fader /\ stage' = stage
      BY <2>8 DEF PrepareNextScene
    <3>2. s \in Slots /\ stage[s] \in {"children", "run"}
      BY <3>1 DEF In
    <3>3. nextScene' = nextScene /\ otherSceneFlg' = otherSceneFlg /\ at' = "processes"
          /\ nextScene # INVALID
      BY <2>8 DEF PrepareNextScene, Goes, names
    <3>4. CASE fader.status = "HIDDEN" /\ stage' = stage
      <4>1. In("run") # {}
        BY <3>4 DEF Dark
      <4> QED BY <1>0, <3>3, <3>4, <4>1, Stays
    <3>5. CASE fader.status = "OPAQUE" /\ Becomes(s, "leaving") /\ fader' = fader
      BY <1>0, <3>2, <3>3, <3>5, Moves DEF Stages
    <3>6. CASE fader' = fader /\ stage' = stage
      BY <1>0, <3>3, <3>6, Stays
    <3> QED BY <3>1, <3>4, <3>5, <3>6
  <2>9. CASE PreExecute
    <3>1. /\ stage' = stage /\ otherSceneFlg' = otherSceneFlg /\ nextScene' = nextScene
          /\ In("run") # {}
      BY <2>9 DEF PreExecute, names
    <3> QED BY <1>0, <3>1, Stays
  <2>10. CASE Connect
    <3>1. /\ fader' = fader /\ nextScene' = nextScene /\ otherSceneFlg' = otherSceneFlg
          /\ at' = "calc"
      BY <2>10 DEF Connect, Goes, names, fades
    <3>2. CASE In("leaving") = {}
      <4>1. stage' = stage
        <5>1. \A s \in Slots : stage[s] # "leaving"
          BY <3>2 DEF In
        <5> QED BY <2>10, <5>1 DEF Connect, TypeOK
      <4> QED BY <1>0, <3>1, <4>1, Stays
    <3>3. CASE In("leaving") # {}
      <4>1. PICK s \in Slots : stage[s] = "leaving"
        BY <3>3 DEF In
      <4>2. \A t \in Slots : t # s => stage[t] = "none"
        BY <4>1 DEF OneScene, Alive, In
      <4>3. Becomes(s, "delete")
        BY <2>10, <4>1, <4>2 DEF Connect, Becomes, TypeOK
      <4>4. In("run") = {} /\ nextScene # INVALID
        <5>1. In("run") = {}
          BY <4>1, Sole DEF Stages
        <5> QED BY <3>3, <5>1 DEF Dark
      <4> QED BY <1>0, <3>1, <4>1, <4>3, <4>4, Moves DEF Dark, Stages
    <3> QED BY <3>2, <3>3
  <2>11. CASE FaderCalc
    <3>1. /\ stage' = stage /\ otherSceneFlg' = otherSceneFlg /\ nextScene' = nextScene
          /\ at' = "reset" /\ fader' = Calc(fader)
      BY <2>11 DEF FaderCalc, Goes, names
    <3>2. In("run") # {} \/ fader'.status = fader.status
      BY <3>1, CalcIs DEF Dark, TypeOK
    <3> QED BY <1>0, <3>1, <3>2, Stays
  <2> QED BY <1>4, <2>1, <2>2, <2>3, <2>4, <2>5, <2>6, <2>7, <2>8, <2>9, <2>10, <2>11 DEF Frame
<1> QED BY <1>1, <1>2, <1>3, <1>4 DEF Next

LEMMA InitInv ==
  ASSUME Init
  PROVE  SceneInv
<1>1. \A x \in Stages \ {"none"} : In(x) = {}
  BY DEF Init, In
<1>2. Alive = {}
  BY DEF Init, In, Alive
<1>3. fader \in Faders
  <2>1. 0 \in U16 /\ fadeIn \in U16
    BY SceneAssumption, MaxU16Assumption DEF Init, U16
  <2> QED BY <2>1 DEF Init, Faders, EStatus
<1>4. TypeOK
  BY <1>3, SceneAssumption DEF Init, TypeOK, Parts, Stages, Modes
<1>5. OneScene /\ Pending
  BY <1>2, SceneAssumption DEF Init, OneScene, Pending
<1>6. Dark
  BY <1>1 DEF Init, Dark, Stages
<1> QED BY <1>4, <1>5, <1>6 DEF SceneInv

\* There is at most one scene, m_otherSceneFlg knows of it, it goes for a next
\* one only, and the screen is black until a scene runs and when it leaves.
THEOREM SceneInvariant == Spec => []SceneInv
<1>1. Init => SceneInv
  BY InitInv
<1>2. SceneInv /\ [Next]_sceneVars => SceneInv'
  BY InvPreserved
<1> QED BY <1>1, <1>2, PTL DEF Spec

-----------------------------------------------------------------------------
(* The refinement.                                                         *)

\* A step that leaves the scene object where it is is a step of the abstract
\* scene that plays.
LEMMA Plays ==
  ASSUME SceneInv, TypeOK', stage' = stage, nowScene' = nowScene,
         nextScene = INVALID \/ nextScene' = nextScene,
         In("run") # {} \/ fader'.status = fader.status
  PROVE  SC!Next
<1>1. Alive' = Alive /\ In("run")' = In("run")
  BY Same
<1>2. In("run") # {} => Alive # {}
  BY DEF In, Alive
<1>3. nowScene # INVALID
  BY SceneAssumption DEF SceneInv, TypeOK
<1>4. SC!Play
  BY <1>1, <1>2, <1>3 DEF SC!Play
<1> QED BY <1>4 DEF SC!Next, TypeOK

\* The scene object moves on, and is prepared, or no longer, on a black
\* screen.
LEMMA MovesPlay ==
  ASSUME SceneInv, TypeOK', NEW s \in Slots, stage[s] # "none",
         NEW st \in Stages \ {"none"}, Becomes(s, st),
         nowScene' = nowScene, nextScene' = nextScene, fader' = fader
  PROVE  SC!Next
<1>1. Alive' = Alive /\ Alive # {}
  BY Move DEF SceneInv
<1>2. nowScene # INVALID
  BY SceneAssumption DEF SceneInv, TypeOK
<1>3. SC!Play
  BY <1>1, <1>2 DEF SC!Play
<1> QED BY <1>3 DEF SC!Next, TypeOK

LEMMA StepRefines ==
  ASSUME SceneInv, [Next]_sceneVars
  PROVE  [SC!Next]_(SC!vars)
<1>0. TypeOK'
  BY TypePreserved DEF SceneInv
<1>1. CASE UNCHANGED sceneVars
  <2>1. stage' = stage /\ nextScene' = nextScene /\ nowScene' = nowScene /\ fader' = fader
    BY <1>1 DEF sceneVars, names, fades
  <2>2. Alive' = Alive /\ In("run")' = In("run")
    BY <2>1, Same
  <2> QED BY <2>1, <2>2 DEF SC!vars
<1>2. CASE OwnCall
  <2>1. In("run") # {}
    BY <1>2 DEF OwnCall, Dark, SceneInv
  <2>2. stage' = stage /\ nowScene' = nowScene /\ (nextScene = INVALID \/ nextScene' = nextScene)
    BY <1>2 DEF OwnCall, SetNextScene, Accepts
  <2> QED BY <1>0, <2>1, <2>2, Plays
<1>3. CASE ProcessCall
  <2>1. /\ stage' = stage /\ nowScene' = nowScene /\ fader' = fader
        /\ (nextScene = INVALID \/ nextScene' = nextScene)
    BY <1>3 DEF ProcessCall, SetNextScene, Accepts
  <2> QED BY <1>0, <2>1, Plays
<1>4. CASE Frame
  <2>1. CASE Reset
    <3>1. /\ stage' = stage /\ nowScene' = nowScene /\ fader' = fader
          /\ (nextScene = INVALID \/ nextScene' = nextScene)
      BY <2>1 DEF Reset, SetNextScene, Accepts, fades
    <3> QED BY <1>0, <3>1, Plays
  <2>2. CASE SkipNextScene \/ SkipDelete \/ SkipCreate \/ PhaseWait \/ ChildrenWait
             \/ OwnReturn \/ ProcessesReturn
    <3>1. /\ stage' = stage /\ nowScene' = nowScene /\ fader' = fader
          /\ nextScene' = nextScene
      BY <2>2 DEF SkipNextScene, SkipDelete, SkipCreate, PhaseWait, ChildrenWait, OwnReturn,
                  ProcessesReturn, fades, names
    <3> QED BY <1>0, <3>1, Plays
  <2>3. CASE CreateNextScene
    <3>1. Alive = {} /\ In("none") # {} /\ nextScene # INVALID
      BY <2>3 DEF CreateNextScene, NoNextScene, OneScene, SceneInv
    <3>2. PICK st \in {"create", "phase"} : Becomes(NewObject, st)
      BY <2>3 DEF CreateNextScene
    <3>3. PICK s \in Slots : /\ Alive' = {s}
                             /\ \A x \in Stages \ {"none"} : In(x)' = IF x = st THEN {s} ELSE {}
      BY <3>1, <3>2, Make DEF Stages, SceneInv
    <3>4. In("run") = {} /\ In("run")' = {}
      BY <3>1, <3>2, <3>3, Make DEF Stages, SceneInv
    <3>5. fader' = fader /\ nowScene' = nextScene /\ nextScene' = INVALID
      BY <2>3 DEF CreateNextScene
    <3>6. fader.status = "OPAQUE"
      BY <3>4 DEF Dark, SceneInv
    <3>7. SC!Enter
      BY <3>1, <3>3, <3>4, <3>5, <3>6 DEF SC!Enter
    <3> QED BY <1>0, <3>7 DEF SC!Next, TypeOK
  <2>4. CASE DeleteScene
    <3>1. PICK s \in In("delete") : Becomes(s, "none")
      BY <2>4 DEF DeleteScene
    <3>2. s \in Slots /\ stage[s] = "delete"
      BY <3>1 DEF In
    <3>3. In("run") = {} /\ nextScene # INVALID /\ fader.status = "OPAQUE"
      <4>1. In("run") = {}
        BY <3>2, Sole DEF Stages, SceneInv
      <4> QED BY <3>1, <4>1 DEF Dark, SceneInv
    <3>4. Alive # {} /\ Alive' = {} /\ In("run")' = {}
      BY <3>1, <3>2, Move DEF Stages, SceneInv
    <3>5. fader' = fader /\ nextScene' = nextScene
      BY <2>4 DEF DeleteScene, fades
    <3>6. nowScene # INVALID
      BY SceneAssumption DEF SceneInv, TypeOK
    <3>7. SC!Leave
      BY <3>3, <3>4, <3>5, <3>6 DEF SC!Leave
    <3> QED BY <1>0, <3>7 DEF SC!Next, TypeOK
  <2>5. CASE CreateScene
    <3>1. PICK s \in In("create") : Becomes(s, "phase")
      BY <2>5 DEF CreateScene
    <3>2. s \in Slots /\ stage[s] = "create"
      BY <3>1 DEF In
    <3>3. fader' = fader /\ nextScene' = nextScene /\ nowScene' = nowScene
      BY <2>5 DEF CreateScene, names
    <3> QED BY <1>0, <3>1, <3>2, <3>3, MovesPlay DEF Stages
  <2>6. CASE PhaseDone
    <3>1. PICK s \in In("phase") : Becomes(s, "children")
      BY <2>6 DEF PhaseDone
    <3>2. s \in Slots /\ stage[s] = "phase"
      BY <3>1 DEF In
    <3>3. fader' = fader /\ nextScene' = nextScene /\ nowScene' = nowScene
      BY <2>6 DEF PhaseDone, names, fades
    <3> QED BY <1>0, <3>1, <3>2, <3>3, MovesPlay DEF Stages
  <2>7. CASE ChildrenCreated
    <3>1. PICK s \in In("children") : Becomes(s, "run")
      BY <2>7 DEF ChildrenCreated
    <3>2. s \in Slots /\ stage[s] = "children"
      BY <3>1 DEF In
    <3>3. fader' = fader /\ nextScene' = nextScene /\ nowScene' = nowScene
      BY <2>7 DEF ChildrenCreated, names, fades
    <3> QED BY <1>0, <3>1, <3>2, <3>3, MovesPlay DEF Stages
  <2>8. CASE PrepareNextScene
    <3>1. PICK s \in In("children") \cup In("run") :
            \/ fader.status = "HIDDEN" /\ fader' = StartFadeOut(fader, fadeOut) /\ stage' = stage
            \/ fader.status = "OPAQUE" /\ Becomes(s, "leaving") /\ fader' = fader
            \/ fader' = fader /\ stage' = stage
      BY <2>8 DEF PrepareNextScene
    <3>2. s \in Slots /\ stage[s] \in {"children", "run"}
      BY <3>1 DEF In
    <3>3. nextScene' = nextScene /\ nowScene' = nowScene
      BY <2>8 DEF PrepareNextScene, names
    <3>4. CASE fader.status = "HIDDEN" /\ stage' = stage
      <4>1. In("run") # {}
        BY <3>4 DEF Dark, SceneInv
      <4> QED BY <1>0, <3>3, <3>4, <4>1, Plays
    <3>5. CASE fader.status = "OPAQUE" /\ Becomes(s, "leaving") /\ fader' = fader
      BY <1>0, <3>2, <3>3, <3>5, MovesPlay DEF Stages
    <3>6. CASE fader' = fader /\ stage' = stage
      BY <1>0, <3>3, <3>6, Plays
    <3> QED BY <3>1, <3>4, <3>5, <3>6
  <2>9. CASE PreExecute
    <3>1. stage' = stage /\ nowScene' = nowScene /\ nextScene' = nextScene /\ In("run") # {}
      BY <2>9 DEF PreExecute, names
    <3> QED BY <1>0, <3>1, Plays
  <2>10. CASE Connect
    <3>1. fader' = fader /\ nextScene' = nextScene /\ nowScene' = nowScene
      BY <2>10 DEF Connect, names, fades
    <3>2. CASE In("leaving") = {}
      <4>1. stage' = stage
        <5>1. \A s \in Slots : stage[s] # "leaving"
          BY <3>2 DEF In
        <5> QED BY <2>10, <5>1 DEF Connect, TypeOK, SceneInv
      <4> QED BY <1>0, <3>1, <4>1, Plays
    <3>3. CASE In("leaving") # {}
      <4>1. PICK s \in Slots : stage[s] = "leaving"
        BY <3>3 DEF In
      <4>2. \A t \in Slots : t # s => stage[t] = "none"
        BY <4>1 DEF OneScene, Alive, In, SceneInv
      <4>3. Becomes(s, "delete")
        BY <2>10, <4>1, <4>2 DEF Connect, Becomes, TypeOK, SceneInv
      <4> QED BY <1>0, <3>1, <4>1, <4>3, MovesPlay DEF Stages
    <3> QED BY <3>2, <3>3
  <2>11. CASE FaderCalc
    <3>1. /\ stage' = stage /\ nowScene' = nowScene /\ nextScene' = nextScene
          /\ fader' = Calc(fader)
      BY <2>11 DEF FaderCalc, names
    <3>2. In("run") # {} \/ fader'.status = fader.status
      BY <3>1, CalcIs DEF Dark, TypeOK, SceneInv
    <3> QED BY <1>0, <3>1, <3>2, Plays
  <2> QED BY <1>4, <2>1, <2>2, <2>3, <2>4, <2>5, <2>6, <2>7, <2>8, <2>9, <2>10, <2>11 DEF Frame
<1> QED BY <1>1, <1>2, <1>3, <1>4 DEF Next

\* The game's frames implement the abstract scene change: the scene that was
\* asked for first comes when the one before has gone, behind a black screen,
\* and the screen shows a scene only when it has been prepared.
THEOREM SceneImplementsSceneChange == Spec => ImplementsSceneChange
<1>1. Init => SC!Init
  <2> SUFFICES ASSUME Init PROVE SC!Init
    OBVIOUS
  <2>1. Alive = {} /\ In("run") = {}
    BY DEF Init, In, Alive
  <2> QED BY <2>1, SceneAssumption DEF Init, SC!Init
<1>2. SceneInv /\ [Next]_sceneVars => [SC!Next]_(SC!vars)
  BY StepRefines
<1> QED BY <1>1, <1>2, SceneInvariant, PTL DEF Spec, ImplementsSceneChange, SC!Spec

-----------------------------------------------------------------------------
(* A fade is monotone.  The fader divides by its frame count, and counts   *)
(* in 16 bits: fades of no frame, and those whose last count the counter   *)
(* does not reach, are excluded by ShortFades.                             *)
ShortFades == \A n \in Durations : 0 < n /\ n + 2 <= MaxU16

\* The frame count is one that a caller asked for, and a fade ends before its
\* counter wraps.
Counts(f) ==
  f \in Faders /\ f.frame \in Durations /\ (Fading(f) => f.cur < MaxU16)
FadeInv == fadeIn \in Durations /\ fadeOut \in Durations /\ Counts(fader)

LEMMA FadedIs ==
  ASSUME NEW n \in Nat \ {0}, NEW a \in Nat, NEW b \in Nat, a <= b
  PROVE  LET clamp(c) == IF c > n THEN n ELSE c IN
         /\ (clamp(a) * Full) \div n \in 0 .. Full
         /\ (clamp(b) * Full) \div n \in 0 .. Full
         /\ (clamp(a) * Full) \div n <= (clamp(b) * Full) \div n
<1> DEFINE clamp(c) == IF c > n THEN n ELSE c
<1>1. clamp(a) \in Nat /\ clamp(b) \in Nat /\ clamp(a) <= clamp(b) /\ clamp(b) <= n
  OBVIOUS
<1> HIDE DEF clamp
<1>2. ASSUME NEW x \in Nat, NEW y \in Nat, x <= y PROVE x \div n <= y \div n
  BY <1>2
<1>3. (n * Full) \div n = Full
  BY DEF Full
<1>4. ASSUME NEW x \in Nat PROVE x \div n \in Nat
  BY <1>4
<1>5. clamp(a) * Full \in Nat /\ clamp(b) * Full \in Nat /\ n * Full \in Nat
      /\ clamp(a) * Full <= clamp(b) * Full /\ clamp(b) * Full <= n * Full
  BY <1>1 DEF Full
<1>6. (clamp(a) * Full) \div n <= (clamp(b) * Full) \div n
      /\ (clamp(b) * Full) \div n <= Full
  BY <1>2, <1>3, <1>5
<1>7. (clamp(a) * Full) \div n \in Nat /\ (clamp(b) * Full) \div n \in Nat
  BY <1>4, <1>5
<1>8. Full \in Nat
  BY DEF Full
<1> QED BY <1>6, <1>7, <1>8 DEF clamp

LEMMA CalcFades ==
  ASSUME ShortFades, NEW f, Counts(f)
  PROVE  /\ Counts(Calc(f))
         /\ f.status = "FADE_OUT" => Shade(Calc(f)) >= Shade(f)
         /\ f.status = "FADE_IN" => Shade(Calc(f)) <= Shade(f)
<1>1. CASE ~Fading(f)
  BY <1>1 DEF Calc, Fading
<1>2. CASE Fading(f)
  <2> DEFINE st == IF ~FadeEnds(f) THEN f.status
                   ELSE IF f.status = "FADE_IN" THEN "HIDDEN" ELSE "OPAQUE"
             g == Calc(f)
  <2>1. /\ f.frame \in Nat \ {0} /\ f.frame + 2 <= MaxU16 /\ MaxU16 \in Nat
        /\ f.cur \in Nat /\ f.cur < MaxU16 /\ f.status \in {"FADE_IN", "FADE_OUT"}
    BY <1>2, MaxU16Assumption DEF ShortFades, Counts, Fading, Faders, U16
  <2>2. Tick(f) = f.cur + 1 /\ Tick(f) \in U16
    BY <2>1 DEF Tick, U16
  <2>3. g = [f EXCEPT !.cur = Tick(f), !.status = st]
    BY <1>2 DEF Calc
  <2>4. g \in Faders /\ g.frame = f.frame /\ g.cur = f.cur + 1 /\ g.status = st
    BY <1>2, <2>1, <2>2, <2>3 DEF Counts, Faders, EStatus
  <2> HIDE DEF g
  <2>5. g.status = f.status => g.cur < MaxU16
    BY <2>1, <2>2, <2>4 DEF FadeEnds
  <2>6. Counts(g)
    BY <1>2, <2>1, <2>4, <2>5 DEF Counts, Fading
  <2>7. Faded(f) \in 0 .. Full /\ Faded(g) \in 0 .. Full /\ Faded(f) <= Faded(g)
    <3>1. f.cur <= f.cur + 1 /\ f.cur + 1 \in Nat
      BY <2>1
    <3> QED BY <2>1, <2>4, <3>1, FadedIs DEF Faded
  <2>8. Full \in Nat
    BY DEF Full
  <2>9. CASE FadeEnds(f)
    BY <2>1, <2>4, <2>7, <2>8, <2>9, <2>6 DEF Shade, g
  <2>10. CASE ~FadeEnds(f)
    BY <2>1, <2>4, <2>7, <2>8, <2>10, <2>6 DEF Shade, g
  <2> QED BY <2>9, <2>10
<1> QED BY <1>1, <1>2

\* What is written into the fader between two frames keeps its count.
LEMMA StartCounts ==
  ASSUME ShortFades, NEW f, Counts(f), NEW n \in Durations
  PROVE  Counts(StartFadeIn(f, n)) /\ Counts(StartFadeOut(f, n))
<1> DEFINE g == SetFrame(f, n)
<1>1. n \in U16 /\ 0 \in U16 /\ 0 < MaxU16
  BY SceneAssumption, MaxU16Assumption DEF ShortFades, U16
<1>2. g \in Faders /\ g.frame = n /\ g.cur = f.cur /\ g.status = f.status
  BY <1>1 DEF SetFrame, Counts, Faders
<1>3. Counts(g)
  BY <1>2 DEF Counts, Fading
<1>4. StartFadeIn(f, n) = FadeIn(g) /\ StartFadeOut(f, n) = FadeOut(g)
  BY DEF StartFadeIn, StartFadeOut
<1> HIDE DEF g
<1>5. ASSUME NEW st \in {"FADE_IN", "FADE_OUT"}
      PROVE  Counts([g EXCEPT !.status = st, !.cur = 0])
  <2> DEFINE h == [g EXCEPT !.status = st, !.cur = 0]
  <2>1. h \in Faders /\ h.frame = n /\ h.cur = 0
    BY <1>1, <1>2 DEF Faders, EStatus
  <2> HIDE DEF h
  <2>2. Counts(h)
    BY <1>1, <2>1 DEF Counts
  <2> QED BY <2>2 DEF h
<1> QED BY <1>3, <1>4, <1>5 DEF FadeIn, FadeOut

LEMMA SetFaderCounts ==
  ASSUME NEW f, Counts(f), NEW new \in OtherFaders
  PROVE  Counts(SetFader(f, new))
<1>1. CASE Fading(f)
  BY <1>1 DEF SetFader
<1>2. CASE ~Fading(f)
  <2> DEFINE h == [new EXCEPT !.status = f.status]
  <2>1. f.status \in EStatus /\ new.frame \in Durations /\ Durations \subseteq U16 /\ 0 \in U16
    <3>1. f.status \in EStatus
      BY DEF Counts, Faders
    <3>2. new.frame \in Durations
      BY DEF OtherFaders
    <3> QED BY <3>1, <3>2, SceneAssumption, MaxU16Assumption DEF U16
  <2>2. h \in Faders /\ h.frame = new.frame /\ h.status = f.status
    BY <2>1 DEF Faders, OtherFaders
  <2> HIDE DEF h
  <2>3. Counts(h)
    BY <1>2, <2>1, <2>2 DEF Counts, Fading
  <2> QED BY <1>2, <2>3 DEF SetFader, h
<1> QED BY <1>1, <1>2

LEMMA FadesKept ==
  ASSUME ShortFades, FadeInv, [Next]_sceneVars
  PROVE  FadeInv'
<1> USE DEF FadeInv, fades
<1>1. CASE OwnCall
  <2>1. CASE UNCHANGED fades
    BY <2>1
  <2>2. CASE ~UNCHANGED fades
    <3>1. PICK n \in Durations, new \in OtherFaders :
            fader' \in {StartFadeIn(fader, n), StartFadeOut(fader, n), SetFader(fader, new)}
      BY <1>1, <2>2 DEF OwnCall
    <3>2. fadeIn' = fadeIn /\ fadeOut' = fadeOut
      BY <1>1, <2>2 DEF OwnCall
    <3> QED BY <3>1, <3>2, StartCounts, SetFaderCounts
  <2> QED BY <2>1, <2>2
<1>2. CASE ProcessCall
  BY <1>2 DEF ProcessCall
<1>3. CASE PrepareNextScene
  BY <1>3, StartCounts DEF PrepareNextScene
<1>4. CASE PreExecute
  BY <1>4, StartCounts DEF PreExecute
<1>5. CASE FaderCalc
  BY <1>5, CalcFades DEF FaderCalc
<1>6. CASE \/ Reset \/ SkipNextScene \/ CreateNextScene \/ SkipDelete \/ DeleteScene
           \/ SkipCreate \/ CreateScene \/ PhaseDone \/ PhaseWait
           \/ ChildrenCreated \/ ChildrenWait \/ OwnReturn \/ ProcessesReturn \/ Connect
           \/ UNCHANGED sceneVars
  BY <1>6 DEF Reset, SkipNextScene, CreateNextScene, SkipDelete, DeleteScene, SkipCreate,
     CreateScene, PhaseDone, PhaseWait, ChildrenCreated, ChildrenWait, OwnReturn,
     ProcessesReturn, Connect, sceneVars
<1> QED BY <1>1, <1>2, <1>3, <1>4, <1>5, <1>6 DEF Next, Frame

\* A frame of the fader never turns a fade back, for any fades that take at
\* least one frame and end before the counter wraps.
THEOREM FadesAreMonotone == ShortFades => (Spec => FadesMonotone)
<1> DEFINE Forward == fader' = Calc(fader) /\ at = "calc" =>
             /\ fader.status = "FADE_OUT" => Shade(fader') >= Shade(fader)
             /\ fader.status = "FADE_IN" => Shade(fader') <= Shade(fader)
<1>1. ASSUME ShortFades PROVE Init => FadeInv
  <2> SUFFICES ASSUME Init PROVE FadeInv
    OBVIOUS
  <2>1. fader \in Faders /\ fader.frame = fadeIn /\ fader.status = "OPAQUE"
    <3>1. 0 \in U16 /\ fadeIn \in U16
      BY SceneAssumption, MaxU16Assumption DEF Init, U16
    <3> QED BY <3>1 DEF Init, Faders, EStatus
  <2> QED BY <2>1 DEF Init, FadeInv, Counts, Fading
<1>2. ASSUME ShortFades, FadeInv PROVE Forward
  BY <1>2, CalcFades DEF FadeInv
<1>3. ASSUME ShortFades PROVE Spec => FadesMonotone
  <2>1. Init => FadeInv
    BY <1>1, <1>3
  <2>2. FadeInv /\ [Next]_sceneVars => FadeInv'
    BY <1>3, FadesKept
  <2>3. FadeInv => Forward
    BY <1>2, <1>3
  <2> QED BY <2>1, <2>2, <2>3, PTL DEF Spec, FadesMonotone
<1> QED BY <1>3

-----------------------------------------------------------------------------
(* The world of the boot scene's states.                                   *)
BootFields ==
  { "step", "method", "state", "reset", "resetting", "fadeStarted", "faderDone",
    "newFile", "messageShown", "auto", "min", "strapVisible", "infoVisible",
    "infoCreated", "window", "warning", "error", "forbid", "homeOff", "saveWindow",
    "softReset", "blank", "permitted", "nandBusy", "nandError", "fileExists", "faults" }

\* The screens fade out, or in; the others show a lit screen, but for the
\* first and the last, which leave it to preExecute.
FadingOut == {"WiiStrapFadeOut", "GoToErrorFadeOut"}
FadingIn == {"ControllerInformationFadeIn", "GoToErrorFadeIn"}
Resting == {"FadeOutWait", "ProcEnd"}
Messages == {"NewSaveFileDisp", "ButtonInputWait", "WindowExitWait", "GoToErrorFadeOut",
  "GoToErrorFadeIn", "ErrorWindowOnStageWait", "ProcEnd", "ErrorInfinityDisp"}
BootStates == Screens \cup SaveData \cup Messages
Lit == BootStates \ (Resting \cup FadingOut \cup FadingIn)

IsWorld(w) ==
  /\ DOMAIN w = {"b", "f", "a", "m"} /\ DOMAIN w.b = BootFields
  /\ w.f \in Faders /\ w.a \in BOOLEAN /\ w.m \in Modes

-----------------------------------------------------------------------------
(* The fader of a world.                                                   *)
LEMMA SameFader ==
  ASSUME NEW f \in Faders
  PROVE  SetFader(f, f) = f
BY DEF SetFader, Faders

LEMMA FadeTimeIs == FadeTime \in U16
BY BootAssumption, SceneAssumption

\* A fade starts, if at all, from the opposite status; nothing else changes.
FadedOut(status) == IF status = "HIDDEN" THEN "FADE_OUT" ELSE status
FadedIn(status) == IF status = "OPAQUE" THEN "FADE_IN" ELSE status

LEMMA BeginIs ==
  ASSUME NEW w, IsWorld(w)
  PROVE  /\ IsWorld(BeginFadeOut(w)) /\ IsWorld(BeginFadeIn(w))
         /\ BeginFadeOut(w).b = w.b /\ BeginFadeOut(w).a = w.a /\ BeginFadeOut(w).m = w.m
         /\ BeginFadeIn(w).b = w.b /\ BeginFadeIn(w).a = w.a /\ BeginFadeIn(w).m = w.m
         /\ BeginFadeOut(w).f.status = FadedOut(w.f.status)
         /\ BeginFadeIn(w).f.status = FadedIn(w.f.status)
<1>1. SetFader(w.f, w.f) = w.f
  BY SameFader DEF IsWorld
<1>2. /\ StartFadeIn(w.f, FadeTime) \in Faders
      /\ StartFadeOut(w.f, FadeTime) \in Faders
      /\ StartFadeIn(w.f, FadeTime).status = FadedIn(w.f.status)
      /\ StartFadeOut(w.f, FadeTime).status = FadedOut(w.f.status)
  BY FadeTimeIs, StartIs DEF IsWorld, FadedIn, FadedOut
<1>3. /\ BeginFadeOut(w) = [w EXCEPT !.f = StartFadeOut(w.f, FadeTime)]
      /\ BeginFadeIn(w) = [w EXCEPT !.f = StartFadeIn(w.f, FadeTime)]
  BY <1>1 DEF BeginFadeOut, BeginFadeIn
<1> QED BY <1>2, <1>3 DEF IsWorld

-----------------------------------------------------------------------------
(* What a change of state does to the members that the invariant is about. *)

\* What no state of mStateMgr writes when it is entered or left.
Fixed(v, w) ==
  /\ v.m = w.m
  /\ v.b.step = w.b.step /\ v.b.method = w.b.method
  /\ v.b.reset = w.b.reset /\ v.b.resetting = w.b.resetting
  /\ v.b.softReset = w.b.softReset /\ v.b.strapVisible = w.b.strapVisible

\* What agrees with w in every member that the invariant is about.
Quiet(v, w) ==
  /\ IsWorld(v) /\ Fixed(v, w) /\ v.f = w.f /\ v.a = w.a
  /\ v.b.state = w.b.state /\ v.b.messageShown = w.b.messageShown
  /\ v.b.infoVisible = w.b.infoVisible /\ v.b.forbid = w.b.forbid
  /\ v.b.homeOff = w.b.homeOff /\ v.b.saveWindow = w.b.saveWindow

LEMMA QuietTimers ==
  ASSUME NEW w, IsWorld(w), NEW x, NEW y
  PROVE  Quiet(SetTimers(w, x, y), w)
BY DEF SetTimers, Quiet, Fixed, IsWorld, BootFields

LEMMA QuietWrites ==
  ASSUME NEW w, IsWorld(w)
  PROVE  /\ Quiet(w, w) /\ Quiet(NandCommand(w), w) /\ Quiet(EndWarnings(w), w)
         /\ Quiet([w EXCEPT !.b.window = "asked"], w)
         /\ Quiet([w EXCEPT !.b.window = "hit"], w)
         /\ Quiet([w EXCEPT !.b.newFile = FALSE], w)
         /\ Quiet([w EXCEPT !.b.faderDone = FALSE], w)
         /\ Quiet([w EXCEPT !.b.fadeStarted = FALSE], w)
         /\ Quiet([w EXCEPT !.b.warning = "open", !.b.error = w.b.nandError], w)
<1>1. Quiet(w, w)
  BY DEF Quiet, Fixed
<1>2. Quiet(NandCommand(w), w)
  BY DEF NandCommand, Quiet, Fixed, IsWorld, BootFields
<1>3. Quiet(EndWarnings(w), w)
  BY DEF EndWarnings, Quiet, Fixed, IsWorld, BootFields
<1>4. Quiet([w EXCEPT !.b.window = "asked"], w)
  BY DEF Quiet, Fixed, IsWorld, BootFields
<1>5. Quiet([w EXCEPT !.b.window = "hit"], w)
  BY DEF Quiet, Fixed, IsWorld, BootFields
<1>6. Quiet([w EXCEPT !.b.newFile = FALSE], w)
  BY DEF Quiet, Fixed, IsWorld, BootFields
<1>7. Quiet([w EXCEPT !.b.faderDone = FALSE], w)
  BY DEF Quiet, Fixed, IsWorld, BootFields
<1>8. Quiet([w EXCEPT !.b.fadeStarted = FALSE], w)
  BY DEF Quiet, Fixed, IsWorld, BootFields
<1>9. Quiet([w EXCEPT !.b.warning = "open", !.b.error = w.b.nandError], w)
  BY DEF Quiet, Fixed, IsWorld, BootFields
<1> QED BY <1>1, <1>2, <1>3, <1>4, <1>5, <1>6, <1>7, <1>8, <1>9

\* The flags of the home menu, written together.
Windows(v, w) ==
  /\ IsWorld(v) /\ Fixed(v, w) /\ v.f = w.f /\ v.a = w.a
  /\ v.b.state = w.b.state /\ v.b.messageShown = w.b.messageShown
  /\ v.b.infoVisible = w.b.infoVisible /\ v.b.forbid = w.b.forbid
WindowsOn(v, w) == Windows(v, w) /\ v.b.homeOff = TRUE /\ v.b.saveWindow = TRUE
WindowsOff(v, w) == Windows(v, w) /\ v.b.homeOff = FALSE /\ v.b.saveWindow = FALSE

LEMMA WindowsAre ==
  ASSUME NEW w, IsWorld(w)
  PROVE  WindowsOn(SetWindows(w, TRUE, TRUE), w) /\ WindowsOff(SetWindows(w, FALSE, FALSE), w)
<1>1. WindowsOn(SetWindows(w, TRUE, TRUE), w)
  BY DEF SetWindows, WindowsOn, Windows, IsWorld, BootFields, Fixed
<1>2. WindowsOff(SetWindows(w, FALSE, FALSE), w)
  BY DEF SetWindows, WindowsOff, Windows, IsWorld, BootFields, Fixed
<1> QED BY <1>1, <1>2

ForbidLeft(w) ==
  IF w.b.state = "ControllerInformationFadeIn"
    THEN IF w.b.forbid > 0 THEN w.b.forbid - 1 ELSE 0
    ELSE w.b.forbid
HomeLeft(w) == IF w.b.state \in FadingIn THEN FALSE ELSE w.b.homeOff
SaveLeft(w) ==
  IF w.b.state \in {"ControllerInformationFadeIn", "NewSaveFileDisp"}
    THEN FALSE ELSE w.b.saveWindow
AutoLeft(w) == IF w.b.state = "ControllerInformationFadeIn" THEN TRUE ELSE w.a

LEMMA FinalizeIs ==
  ASSUME NEW w, IsWorld(w), NEW v, v = Finalize(w)
  PROVE  /\ IsWorld(v) /\ Fixed(v, w) /\ v.f = w.f
         /\ v.b.state = w.b.state /\ v.b.messageShown = w.b.messageShown
         /\ v.b.infoVisible = w.b.infoVisible
         /\ v.b.forbid = ForbidLeft(w) /\ v.b.homeOff = HomeLeft(w)
         /\ v.b.saveWindow = SaveLeft(w) /\ v.a = AutoLeft(w)
<1>1. CASE w.b.state = "WiiStrapFadeOut"
  <2>1. v = [w EXCEPT !.b.warning = "none"]
    BY <1>1 DEF Finalize, EndWarnings
  <2>2. IsWorld(v)
    BY <2>1 DEF IsWorld, BootFields
  <2>3. Fixed(v, w) /\ v.f = w.f
        /\ v.b.state = w.b.state /\ v.b.messageShown = w.b.messageShown
        /\ v.b.infoVisible = w.b.infoVisible
    BY <2>1 DEF IsWorld, BootFields, Fixed
  <2>4. v.b.forbid = w.b.forbid /\ v.b.homeOff = w.b.homeOff
        /\ v.b.saveWindow = w.b.saveWindow /\ v.a = w.a
    BY <2>1 DEF IsWorld, BootFields
  <2> QED BY <1>1, <2>2, <2>3, <2>4 DEF ForbidLeft, HomeLeft, SaveLeft, AutoLeft, FadingIn
<1>2. CASE w.b.state = "ControllerInformationFadeIn"
  <2> DEFINE u == SetWindows(w, FALSE, FALSE)
  <2>1. /\ IsWorld(u) /\ Fixed(u, w) /\ u.f = w.f
        /\ u.b.state = w.b.state /\ u.b.messageShown = w.b.messageShown
        /\ u.b.infoVisible = w.b.infoVisible /\ u.b.forbid = w.b.forbid
        /\ u.b.homeOff = FALSE /\ u.b.saveWindow = FALSE
    BY DEF SetWindows, IsWorld, BootFields, Fixed
  <2>2. v = [u EXCEPT !.a = TRUE, !.b.forbid = IF @ > 0 THEN @ - 1 ELSE 0]
    BY <1>2 DEF Finalize
  <2> HIDE DEF u
  <2>3. IsWorld(v)
    BY <2>1, <2>2 DEF IsWorld, BootFields
  <2>4. Fixed(v, u) /\ v.f = u.f
        /\ v.b.state = u.b.state /\ v.b.messageShown = u.b.messageShown
        /\ v.b.infoVisible = u.b.infoVisible
        /\ v.b.homeOff = u.b.homeOff /\ v.b.saveWindow = u.b.saveWindow
    BY <2>1, <2>2 DEF IsWorld, BootFields, Fixed
  <2>5. v.a = TRUE /\ v.b.forbid = IF u.b.forbid > 0 THEN u.b.forbid - 1 ELSE 0
    BY <2>1, <2>2 DEF IsWorld, BootFields
  <2>6. Fixed(v, w)
    BY <2>1, <2>4 DEF Fixed
  <2> QED BY <1>2, <2>1, <2>3, <2>4, <2>5, <2>6
          DEF ForbidLeft, HomeLeft, SaveLeft, AutoLeft, FadingIn
<1>3. CASE w.b.state = "NewSaveFileDisp"
  <2>1. v = [w EXCEPT !.b.saveWindow = FALSE]
    BY <1>3 DEF Finalize
  <2>2. IsWorld(v)
    BY <2>1 DEF IsWorld, BootFields
  <2>3. Fixed(v, w) /\ v.f = w.f
        /\ v.b.state = w.b.state /\ v.b.messageShown = w.b.messageShown
        /\ v.b.infoVisible = w.b.infoVisible
    BY <2>1 DEF IsWorld, BootFields, Fixed
  <2>4. v.b.forbid = w.b.forbid /\ v.b.homeOff = w.b.homeOff
        /\ v.b.saveWindow = FALSE /\ v.a = w.a
    BY <2>1 DEF IsWorld, BootFields
  <2> QED BY <1>3, <2>2, <2>3, <2>4 DEF ForbidLeft, HomeLeft, SaveLeft, AutoLeft, FadingIn
<1>4. CASE w.b.state = "GoToErrorFadeIn"
  <2>1. v = [w EXCEPT !.b.homeOff = FALSE]
    BY <1>4 DEF Finalize
  <2>2. IsWorld(v)
    BY <2>1 DEF IsWorld, BootFields
  <2>3. Fixed(v, w) /\ v.f = w.f
        /\ v.b.state = w.b.state /\ v.b.messageShown = w.b.messageShown
        /\ v.b.infoVisible = w.b.infoVisible
    BY <2>1 DEF IsWorld, BootFields, Fixed
  <2>4. v.b.forbid = w.b.forbid /\ v.b.homeOff = FALSE
        /\ v.b.saveWindow = w.b.saveWindow /\ v.a = w.a
    BY <2>1 DEF IsWorld, BootFields
  <2> QED BY <1>4, <2>2, <2>3, <2>4 DEF ForbidLeft, HomeLeft, SaveLeft, AutoLeft, FadingIn
<1>5. CASE ~(w.b.state \in {"WiiStrapFadeOut", "ControllerInformationFadeIn",
                            "NewSaveFileDisp", "GoToErrorFadeIn"})
  <2>1. v = w
    BY <1>5 DEF Finalize
  <2>2. Fixed(v, w)
    BY <2>1 DEF Fixed
  <2> QED BY <1>5, <2>1, <2>2 DEF ForbidLeft, HomeLeft, SaveLeft, AutoLeft, FadingIn
<1> QED BY <1>1, <1>2, <1>3, <1>4, <1>5

MessageMade(w) == IF w.b.state = "ButtonInputWait" THEN TRUE ELSE w.b.messageShown
InfoMade(w) == IF w.b.state = "ControllerInformationFadeIn" THEN TRUE ELSE w.b.infoVisible
HomeMade(w) == IF w.b.state \in {"WiiStrapFadeOut", "ExistFileCheck"} THEN TRUE ELSE w.b.homeOff
SaveMade(w) ==
  IF w.b.state \in {"WiiStrapFadeOut", "ExistFileCheck", "GoToErrorFadeOut"}
    THEN TRUE ELSE w.b.saveWindow
AutoMade(w) == IF w.b.state \in FadingOut THEN FALSE ELSE w.a
ScreenMade(w) ==
  IF w.b.state \in FadingOut THEN FadedOut(w.f.status)
  ELSE IF w.b.state \in FadingIn THEN FadedIn(w.f.status) ELSE w.f.status
Made(v, w) ==
  /\ IsWorld(v) /\ Fixed(v, w) /\ v.f.status = ScreenMade(w)
  /\ v.b.state = w.b.state /\ v.b.messageShown = MessageMade(w)
  /\ v.b.infoVisible = InfoMade(w) /\ v.b.forbid = w.b.forbid
  /\ v.b.homeOff = HomeMade(w) /\ v.b.saveWindow = SaveMade(w) /\ v.a = AutoMade(w)

LEMMA InitializeIs ==
  ASSUME NEW w, IsWorld(w)
  PROVE  Made(Initialize(w), w)
<1> USE DEF MessageMade, InfoMade, HomeMade, SaveMade, AutoMade, ScreenMade, FadingOut, FadingIn
<1> DEFINE v == Initialize(w)
<1>1. CASE w.b.state = "WiiStrapFadeOut"
  <2> DEFINE t == BeginFadeOut(w)
             u == SetWindows(t, TRUE, TRUE)
  <2>1. IsWorld(t) /\ t.b = w.b /\ t.a = w.a /\ t.m = w.m /\ t.f.status = FadedOut(w.f.status)
    BY BeginIs
  <2>2. v = [u EXCEPT !.a = FALSE]
    BY <1>1 DEF Initialize
  <2> HIDE DEF t, v
  <2>3. WindowsOn(u, t)
    BY <2>1, WindowsAre
  <2> HIDE DEF u
  <2>4. IsWorld(v) /\ v.b = u.b /\ v.f = u.f /\ v.m = u.m /\ v.a = FALSE
    BY <2>2, <2>3 DEF IsWorld, WindowsOn, Windows
  <2> QED BY <1>1, <2>1, <2>3, <2>4 DEF Made, Fixed, WindowsOn, Windows, v
<1>2. CASE w.b.state = "ControllerInformationFadeIn"
  <2> DEFINE t == BeginFadeIn(w)
  <2>1. IsWorld(t) /\ t.b = w.b /\ t.a = w.a /\ t.m = w.m /\ t.f.status = FadedIn(w.f.status)
    BY BeginIs
  <2>2. v = [t EXCEPT !.b.infoVisible = TRUE]
    BY <1>2 DEF Initialize
  <2> HIDE DEF t, v
  <2>3. IsWorld(v) /\ v.f = t.f /\ v.a = t.a /\ v.b.infoVisible = TRUE
    BY <2>1, <2>2 DEF IsWorld, BootFields
  <2>4. /\ Fixed(v, t) /\ v.b.state = t.b.state /\ v.b.messageShown = t.b.messageShown
        /\ v.b.forbid = t.b.forbid /\ v.b.homeOff = t.b.homeOff
        /\ v.b.saveWindow = t.b.saveWindow
    BY <2>1, <2>2 DEF IsWorld, BootFields, Fixed
  <2> QED BY <1>2, <2>1, <2>3, <2>4 DEF Made, Fixed, v
<1>3. CASE w.b.state = "ExistFileCheck"
  <2> DEFINE t == SetWindows(w, TRUE, TRUE)
             u == NandCommand(t)
  <2>1. WindowsOn(t, w)
    BY WindowsAre
  <2>2. v = [u EXCEPT !.b.newFile = FALSE]
    BY <1>3 DEF Initialize
  <2> HIDE DEF t, v
  <2>3. Quiet(u, t)
    BY <2>1, QuietWrites DEF WindowsOn, Windows
  <2> HIDE DEF u
  <2>4. IsWorld(u)
    BY <2>3 DEF Quiet
  <2>5. Quiet(v, u)
    BY <2>2, <2>4, QuietWrites
  <2> QED BY <1>3, <2>1, <2>3, <2>5 DEF Made, Fixed, Quiet, WindowsOn, Windows, v
<1>4. CASE w.b.state = "GoToErrorFadeOut"
  <2> DEFINE t == BeginFadeOut(w)
  <2>1. IsWorld(t) /\ t.b = w.b /\ t.a = w.a /\ t.m = w.m /\ t.f.status = FadedOut(w.f.status)
    BY BeginIs
  <2>2. v = [t EXCEPT !.a = FALSE, !.b.saveWindow = TRUE]
    BY <1>4 DEF Initialize
  <2> HIDE DEF t, v
  <2>3. IsWorld(v) /\ v.f = t.f /\ v.a = FALSE /\ v.b.saveWindow = TRUE
    BY <2>1, <2>2 DEF IsWorld, BootFields
  <2>4. /\ Fixed(v, t) /\ v.b.state = t.b.state /\ v.b.messageShown = t.b.messageShown
        /\ v.b.forbid = t.b.forbid /\ v.b.homeOff = t.b.homeOff
        /\ v.b.infoVisible = t.b.infoVisible
    BY <2>1, <2>2 DEF IsWorld, BootFields, Fixed
  <2> QED BY <1>4, <2>1, <2>3, <2>4 DEF Made, Fixed, v
<1>5. CASE w.b.state = "GoToErrorFadeIn"
  <2>1. v = BeginFadeIn(w)
    BY <1>5 DEF Initialize
  <2> HIDE DEF v
  <2> QED BY <1>5, <2>1, BeginIs DEF Made, Fixed, v
<1>6. CASE w.b.state = "ButtonInputWait"
  <2>1. v = [w EXCEPT !.b.messageShown = TRUE]
    BY <1>6 DEF Initialize
  <2> HIDE DEF v
  <2>2. IsWorld(v) /\ v.f = w.f /\ v.a = w.a /\ v.b.messageShown = TRUE
    BY <2>1 DEF IsWorld, BootFields
  <2>3. /\ Fixed(v, w) /\ v.b.state = w.b.state
        /\ v.b.forbid = w.b.forbid /\ v.b.homeOff = w.b.homeOff
        /\ v.b.infoVisible = w.b.infoVisible /\ v.b.saveWindow = w.b.saveWindow
    BY <2>1 DEF IsWorld, BootFields, Fixed
  <2> QED BY <1>6, <2>2, <2>3 DEF Made, v
<1>7. CASE ~(w.b.state \in {"WiiStrapFadeOut", "ControllerInformationFadeIn", "ExistFileCheck",
               "GoToErrorFadeOut", "GoToErrorFadeIn", "ButtonInputWait"})
  <2>1. \/ v \in {w, SetTimers(w, StrapAuto, StrapMin), SetTimers(w, InfoAuto, InfoMin),
                  NandCommand(w)}
        \/ v = [w EXCEPT !.b.window = "asked"] \/ v = [w EXCEPT !.b.window = "hit"]
        \/ v = [w EXCEPT !.b.warning = "open", !.b.error = w.b.nandError]
    BY <1>7 DEF Initialize
  <2> HIDE DEF v
  <2>2. Quiet(v, w)
    BY <2>1, QuietWrites, QuietTimers, ZenonT(60)
  <2> QED BY <1>7, <2>2 DEF Made, Quiet, v
<1> QED BY <1>1, <1>2, <1>3, <1>4, <1>5, <1>6, <1>7

(* A change of state: what the old state leaves, then what the new makes.  *)
Changed(v, w, st) ==
  /\ IsWorld(v) /\ Fixed(v, w) /\ v.b.state = st
  /\ v.b.messageShown = (IF st = "ButtonInputWait" THEN TRUE ELSE w.b.messageShown)
  /\ v.b.infoVisible = (IF st = "ControllerInformationFadeIn" THEN TRUE ELSE w.b.infoVisible)
  /\ v.b.forbid = ForbidLeft(w)
  /\ v.b.homeOff = (IF st \in {"WiiStrapFadeOut", "ExistFileCheck"} THEN TRUE ELSE HomeLeft(w))
  /\ v.b.saveWindow = (IF st \in {"WiiStrapFadeOut", "ExistFileCheck", "GoToErrorFadeOut"}
                         THEN TRUE ELSE SaveLeft(w))
  /\ v.a = (IF st \in FadingOut THEN FALSE ELSE AutoLeft(w))
  /\ v.f.status = (IF st \in FadingOut THEN FadedOut(w.f.status)
                   ELSE IF st \in FadingIn THEN FadedIn(w.f.status) ELSE w.f.status)

LEMMA ChangeIs ==
  ASSUME NEW w, IsWorld(w), NEW st
  PROVE  Changed(ChangeState(w, st), w, st)
<1> DEFINE t == Finalize(w)
           u == [t EXCEPT !.b.state = st]
           v == Initialize(u)
<1>1. v = ChangeState(w, st)
  BY DEF ChangeState
<1>2. /\ IsWorld(t) /\ Fixed(t, w) /\ t.f = w.f
      /\ t.b.messageShown = w.b.messageShown /\ t.b.infoVisible = w.b.infoVisible
      /\ t.b.forbid = ForbidLeft(w) /\ t.b.homeOff = HomeLeft(w)
      /\ t.b.saveWindow = SaveLeft(w) /\ t.a = AutoLeft(w)
  BY FinalizeIs
<1> HIDE DEF t
<1>3. IsWorld(u) /\ u.f = t.f /\ u.a = t.a /\ u.b.state = st
  BY <1>2 DEF IsWorld, BootFields
<1>4. /\ Fixed(u, t) /\ u.b.messageShown = t.b.messageShown
      /\ u.b.infoVisible = t.b.infoVisible /\ u.b.forbid = t.b.forbid
      /\ u.b.homeOff = t.b.homeOff /\ u.b.saveWindow = t.b.saveWindow
  BY <1>2 DEF IsWorld, BootFields, Fixed
<1> HIDE DEF u
<1>5. Made(v, u)
  BY <1>3, InitializeIs
<1> HIDE DEF v
<1>6. Fixed(v, w)
  BY <1>2, <1>4, <1>5 DEF Fixed, Made
<1>7. /\ v.f.status = (IF st \in FadingOut THEN FadedOut(w.f.status)
                       ELSE IF st \in FadingIn THEN FadedIn(w.f.status) ELSE w.f.status)
      /\ v.a = (IF st \in FadingOut THEN FALSE ELSE AutoLeft(w))
      /\ v.b.forbid = ForbidLeft(w)
  BY <1>2, <1>3, <1>4, <1>5 DEF Made, ScreenMade, AutoMade
<1>8. /\ v.b.homeOff = (IF st \in {"WiiStrapFadeOut", "ExistFileCheck"}
                          THEN TRUE ELSE HomeLeft(w))
      /\ v.b.saveWindow = (IF st \in {"WiiStrapFadeOut", "ExistFileCheck", "GoToErrorFadeOut"}
                             THEN TRUE ELSE SaveLeft(w))
  BY <1>2, <1>3, <1>4, <1>5 DEF Made, HomeMade, SaveMade
<1>9. /\ v.b.messageShown = (IF st = "ButtonInputWait" THEN TRUE ELSE w.b.messageShown)
      /\ v.b.infoVisible = (IF st = "ControllerInformationFadeIn" THEN TRUE ELSE w.b.infoVisible)
      /\ v.b.state = st /\ IsWorld(v)
  BY <1>2, <1>3, <1>4, <1>5 DEF Made, MessageMade, InfoMade
<1>10. Changed(v, w, st)
  BY <1>6, <1>7, <1>8, <1>9 DEF Changed
<1> QED BY <1>1, <1>10

-----------------------------------------------------------------------------
(* What the two managers keep.                                             *)
ResetStates == {"ResetWait", "ResetFadeOut", "ResetFadeIn"}
Methods == 1 .. Len(Background) + 1

Typed(w) ==
  /\ IsWorld(w)
  /\ w.b.state \in BootStates /\ w.b.reset \in ResetStates
  /\ w.b.method \in Methods /\ w.b.strapVisible \in BOOLEAN
  /\ w.b.forbid \in 0 .. 1 /\ (w.b.forbid = 1 => w.b.method > 2)

\* A soft reset is requested while no save window is active, and a save window
\* is active while its fade in lasts: none is lost, none begins twice.
ResetFits(w) ==
  /\ w.b.resetting <=> w.b.reset # "ResetWait"
  /\ w.b.reset = "ResetWait" /\ w.b.softReset => ~w.b.saveWindow
  /\ w.b.reset = "ResetFadeIn" => ~w.b.softReset /\ w.b.saveWindow

\* Once the message has been shown, only the way to the title is left.
MessageFits(w) ==
  w.b.messageShown => w.b.state \in {"ButtonInputWait", "WindowExitWait", "ProcEnd"}

\* A state that fades out holds off resets and preExecute; unless a reset has
\* the screen, it is as the state expects it.
ScreenFits(w) ==
  /\ w.b.state \in FadingOut =>
       /\ w.b.reset = "ResetWait" /\ ~w.a /\ w.b.saveWindow
       /\ w.f.status \in {"FADE_OUT", "OPAQUE"}
  /\ w.b.reset = "ResetWait" =>
       /\ w.b.state \in FadingIn => w.f.status \in {"FADE_IN", "HIDDEN"}
       /\ w.b.state \in Lit => w.f.status = "HIDDEN"

\* What is switched off is switched on again before the title.
HomeFits(w) ==
  w.b.reset = "ResetWait" =>
    /\ ~w.a => w.b.state \in FadingOut \cup FadingIn
    /\ w.b.state = "ProcEnd" => ~w.b.homeOff /\ ~w.b.saveWindow

Agree(w) == Typed(w) /\ ResetFits(w) /\ MessageFits(w) /\ ScreenFits(w) /\ HomeFits(w)

LEMMA QuietAgrees ==
  ASSUME NEW w, Agree(w), NEW v, Quiet(v, w)
  PROVE  Agree(v)
<1>1. Typed(v)
  BY DEF Agree, Typed, Quiet, Fixed
<1>2. ResetFits(v) /\ MessageFits(v)
  BY DEF Agree, ResetFits, MessageFits, Quiet, Fixed
<1>3. ScreenFits(v) /\ HomeFits(v)
  BY DEF Agree, ScreenFits, HomeFits, Quiet, Fixed
<1> QED BY <1>1, <1>2, <1>3 DEF Agree

\* mStateMgr moves on outside of resets.
Idle(w) ==
  /\ IsWorld(w) /\ w.b.reset = "ResetWait" /\ ~w.b.resetting /\ ~w.b.softReset
  /\ w.b.method \in Methods /\ w.b.strapVisible \in BOOLEAN
  /\ w.b.forbid \in 0 .. 1 /\ (w.b.forbid = 1 => w.b.method > 2)

\* The screen, the automatic fade in and the flags that st may begin with.
Ready(w, st) ==
  /\ w.b.messageShown => st \in {"ButtonInputWait", "WindowExitWait", "ProcEnd"}
  /\ st \in FadingOut => w.f.status # "FADE_IN"
  /\ st \in FadingIn => w.f.status # "FADE_OUT"
  /\ st \in Lit => w.f.status = "HIDDEN"
  /\ st \notin FadingOut \cup FadingIn => w.a \/ w.b.state = "ControllerInformationFadeIn"
  /\ st = "ProcEnd" => ~w.b.homeOff /\ ~w.b.saveWindow

LEMMA ChangeAgrees ==
  ASSUME NEW w, Idle(w), NEW st \in BootStates, Ready(w, st), NEW v, Changed(v, w, st)
  PROVE  Agree(v)
<1>1. Typed(v)
  <2>1. ForbidLeft(w) \in 0 .. 1 /\ (ForbidLeft(w) = 1 => w.b.forbid = 1)
    BY DEF ForbidLeft, Idle
  <2> QED BY <2>1 DEF Typed, Changed, Fixed, Idle, ResetStates
<1>2. ResetFits(v)
  BY DEF ResetFits, Changed, Fixed, Idle
<1>3. MessageFits(v)
  BY DEF MessageFits, Changed, Ready
<1>4. ScreenFits(v)
  <2>1. w.f.status \in EStatus /\ v.b.reset = "ResetWait"
    BY DEF Idle, IsWorld, Faders, Changed, Fixed
  <2>2. st \in FadingOut => v.f.status \in {"FADE_OUT", "OPAQUE"} /\ ~v.a /\ v.b.saveWindow
    BY <2>1 DEF Changed, Ready, FadedOut, EStatus, FadingOut
  <2>3. st \in FadingIn => v.f.status \in {"FADE_IN", "HIDDEN"}
    BY <2>1 DEF Changed, Ready, FadedIn, EStatus, FadingOut, FadingIn
  <2>4. st \in Lit => v.f.status = "HIDDEN"
    BY DEF Changed, Ready, Lit
  <2> QED BY <2>1, <2>2, <2>3, <2>4 DEF ScreenFits, Changed
<1>5. HomeFits(v)
  <2>1. ~v.a => st \in FadingOut \cup FadingIn
    BY DEF Changed, Ready, AutoLeft
  <2>2. st = "ProcEnd" => ~v.b.homeOff /\ ~v.b.saveWindow
    BY DEF Changed, Ready, HomeLeft, SaveLeft
  <2> QED BY <2>1, <2>2 DEF HomeFits, Changed
<1> QED BY <1>1, <1>2, <1>3, <1>4, <1>5 DEF Agree
-----------------------------------------------------------------------------
(* The execute operations of mStateMgr's states.                           *)

\* What no state of mStateMgr writes at all.
Stable(v, w) ==
  /\ v.m = w.m
  /\ v.b.step = w.b.step /\ v.b.method = w.b.method /\ v.b.reset = w.b.reset
  /\ v.b.resetting = w.b.resetting /\ v.b.softReset = w.b.softReset

\* The screens are swapped on a black one.
Swaps(v, w) ==
  \/ w.f.status = "OPAQUE"
  \/ v.b.strapVisible = w.b.strapVisible /\ v.b.infoVisible = w.b.infoVisible

\* The states that begin with a NAND command.
Commands == SaveData \ {"NandCommandEndWait"}

Outcome(v, w) ==
  /\ Agree(v) /\ Stable(v, w) /\ Swaps(v, w) /\ v.b.forbid <= w.b.forbid
  /\ v.b.state # w.b.state /\ v.b.state \in Commands => ~w.b.nandBusy

\* mStateMgr runs.
Runs(w) == Agree(w) /\ w.b.reset = "ResetWait" /\ ~w.b.softReset

LEMMA Stay ==
  ASSUME NEW w, Runs(w), NEW v, Quiet(v, w)
  PROVE  Outcome(v, w)
<1>1. Agree(v)
  BY QuietAgrees DEF Runs
<1>2. v.b.forbid <= w.b.forbid
  BY DEF Quiet, Runs, Agree, Typed
<1> QED BY <1>1, <1>2 DEF Outcome, Quiet, Fixed, Stable, Swaps

LEMMA Turn ==
  ASSUME NEW w, Runs(w), NEW t, IsWorld(t), Stable(t, w), Swaps(t, w), t.b.forbid = w.b.forbid,
         t.b.strapVisible \in BOOLEAN, NEW st \in BootStates, Ready(t, st), st \in Commands => ~w.b.nandBusy,
         st = "ControllerInformationFadeIn" => w.f.status = "OPAQUE"
  PROVE  Outcome(ChangeState(t, st), w)
<1> DEFINE v == ChangeState(t, st)
<1>1. Changed(v, t, st)
  BY ChangeIs
<1> HIDE DEF v
<1>2. Idle(t)
  BY DEF Runs, Agree, Typed, ResetFits, Stable, Idle
<1>3. Agree(v)
  BY <1>1, <1>2, ChangeAgrees
<1>4. Stable(v, w) /\ Swaps(v, w)
  BY <1>1 DEF Changed, Fixed, Stable, Swaps
<1>5. v.b.forbid <= w.b.forbid
  <2>1. w.b.forbid \in 0 .. 1
    BY DEF Runs, Agree, Typed
  <2> QED BY <1>1, <2>1 DEF Changed, ForbidLeft
<1>6. v.b.state = st
  BY <1>1 DEF Changed
<1>7. Outcome(v, w)
  BY <1>3, <1>4, <1>5, <1>6 DEF Outcome
<1> QED BY <1>7 DEF v

LEMMA TurnQuietly ==
  ASSUME NEW w, Runs(w), NEW t, Quiet(t, w),
         NEW st \in BootStates, Ready(w, st), st \in Commands => ~w.b.nandBusy,
         st = "ControllerInformationFadeIn" => w.f.status = "OPAQUE"
  PROVE  Outcome(ChangeState(t, st), w)
<1>1. IsWorld(t) /\ Stable(t, w) /\ Swaps(t, w) /\ t.b.forbid = w.b.forbid
  BY DEF Quiet, Fixed, Stable, Swaps
<1>2. Ready(t, st) /\ t.b.strapVisible \in BOOLEAN
  BY DEF Ready, Quiet, Fixed, Runs, Agree, Typed
<1> QED BY <1>1, <1>2, Turn

\* On a lit screen any state may begin, but for the last two of a message and
\* the last of all.
LEMMA LitReady ==
  ASSUME NEW w, Runs(w), w.b.state \in Lit \ {"ButtonInputWait", "WindowExitWait"},
         NEW st \in BootStates \ {"ProcEnd"}
  PROVE  Ready(w, st)
<1>1. ~w.b.messageShown
  BY DEF Runs, Agree, MessageFits, Lit, Resting
<1>2. w.f.status = "HIDDEN"
  BY DEF Runs, Agree, ScreenFits
<1>3. w.a
  BY DEF Runs, Agree, HomeFits, Lit
<1> QED BY <1>1, <1>2, <1>3 DEF Ready

LEMMA ScreensExecute ==
  ASSUME NEW w, Runs(w), w.b.state \in Screens, NEW key
  PROVE  Outcome(ExecuteScreens(w, key), w)
<1> DEFINE v == ExecuteScreens(w, key)
<1>0. IsWorld(w) /\ Quiet(w, w)
  BY QuietWrites DEF Runs, Agree, Typed
<1>1. CASE w.b.state = "FadeOutWait"
  <2>1. v = IF Clear(w) THEN ChangeState(w, "WiiStrapKeyWait") ELSE w
    BY <1>1 DEF ExecuteScreens, When
  <2>2. CASE Clear(w)
    <3>1. Ready(w, "WiiStrapKeyWait")
      BY <1>1, <2>2 DEF Ready, Clear, Runs, Agree, MessageFits, HomeFits, FadingOut, FadingIn
    <3> QED BY <1>0, <2>1, <2>2, <3>1, TurnQuietly DEF BootStates, Screens, Commands, SaveData
  <2> QED BY <1>0, <2>1, <2>2, Stay
<1>2. CASE w.b.state = "WiiStrapKeyWait"
  <2> DEFINE t == SetTimers(w, w.b.auto - 1, w.b.min - 1)
  <2>1. v = IF t.b.min <= 0 THEN ChangeState(t, "WiiStrapDispEndWait") ELSE t
    BY <1>2 DEF ExecuteScreens, When
  <2>2. Quiet(t, w)
    BY <1>0, QuietTimers
  <2> HIDE DEF t
  <2>3. Ready(w, "WiiStrapDispEndWait")
    BY <1>2, LitReady DEF Lit, BootStates, Screens, Resting, FadingOut, FadingIn
  <2>4. Outcome(ChangeState(t, "WiiStrapDispEndWait"), w)
    BY <2>2, <2>3, TurnQuietly DEF BootStates, Screens, Commands, SaveData
  <2> QED BY <2>1, <2>2, <2>4, Stay
<1>3. CASE w.b.state = "WiiStrapDispEndWait"
  <2> DEFINE t == SetTimers(w, w.b.auto - 1, w.b.min)
  <2>1. v = IF t.b.auto <= 0 \/ key THEN ChangeState(t, "WiiStrapFadeOut") ELSE t
    BY <1>3 DEF ExecuteScreens, When
  <2>2. Quiet(t, w)
    BY <1>0, QuietTimers
  <2> HIDE DEF t
  <2>3. Ready(w, "WiiStrapFadeOut")
    BY <1>3, LitReady DEF Lit, BootStates, Screens, Resting, FadingOut, FadingIn
  <2>4. Outcome(ChangeState(t, "WiiStrapFadeOut"), w)
    BY <2>2, <2>3, TurnQuietly DEF BootStates, Screens, Commands, SaveData
  <2> QED BY <2>1, <2>2, <2>4, Stay
<1>4. CASE w.b.state = "WiiStrapFadeOut"
  <2> DEFINE ready == Black(w) /\ w.b.infoCreated
             t == [w EXCEPT !.b.strapVisible = @ /\ ~ready]
  <2>1. v = IF ready THEN ChangeState(t, "ControllerInformationFadeIn") ELSE t
    BY <1>4 DEF ExecuteScreens, When
  <2>2. CASE ready
    <3>1. w.f.status = "OPAQUE"
      BY <2>2 DEF Black
    <3>2. t = [w EXCEPT !.b.strapVisible = FALSE]
      BY <2>2
    <3> HIDE DEF t
    <3>3. IsWorld(t) /\ t.f = w.f /\ t.b.forbid = w.b.forbid
          /\ t.b.messageShown = w.b.messageShown /\ t.b.strapVisible \in BOOLEAN
      BY <1>0, <3>2 DEF IsWorld, BootFields
    <3>4. Stable(t, w) /\ Swaps(t, w)
      BY <1>0, <3>1, <3>2 DEF IsWorld, BootFields, Stable, Swaps
    <3>5. Ready(t, "ControllerInformationFadeIn")
      BY <1>4, <3>1, <3>3 DEF Ready, Runs, Agree, MessageFits, FadingOut, FadingIn, Lit
    <3>6. Outcome(ChangeState(t, "ControllerInformationFadeIn"), w)
      BY <3>1, <3>3, <3>4, <3>5, Turn DEF BootStates, Screens, Commands, SaveData
    <3> QED BY <2>1, <2>2, <3>6
  <2>3. CASE ~ready
    <3>1. (w.b.strapVisible /\ TRUE) = w.b.strapVisible
      BY DEF Runs, Agree, Typed
    <3>2. t = [w EXCEPT !.b.strapVisible = w.b.strapVisible]
      BY <2>3, <3>1
    <3> HIDE DEF t
    <3>3. Quiet(t, w)
      BY <1>0, <3>2 DEF Quiet, Fixed, IsWorld, BootFields
    <3> QED BY <2>1, <2>3, <3>3, Stay
  <2> QED BY <2>2, <2>3
<1>5. CASE w.b.state = "ControllerInformationFadeIn"
  <2>1. v = IF Clear(w) THEN ChangeState(w, "ControllerInformationSoundWait") ELSE w
    BY <1>5 DEF ExecuteScreens, When
  <2>2. CASE Clear(w)
    <3>1. Ready(w, "ControllerInformationSoundWait")
      BY <1>5, <2>2 DEF Ready, Clear, Runs, Agree, MessageFits, FadingOut, FadingIn
    <3> QED BY <1>0, <2>1, <2>2, <3>1, TurnQuietly DEF BootStates, Screens, Commands, SaveData
  <2> QED BY <1>0, <2>1, <2>2, Stay
<1>6. CASE w.b.state = "ControllerInformationSoundWait"
  <2> DEFINE t == SetTimers(w, Less(w.b.auto), Less(w.b.min))
  <2>1. v = IF Past(w.b, "sound") THEN ChangeState(t, "ControllerInformationKeyWait") ELSE t
    BY <1>6 DEF ExecuteScreens, When
  <2>2. Quiet(t, w)
    BY <1>0, QuietTimers
  <2> HIDE DEF t
  <2>3. Ready(w, "ControllerInformationKeyWait")
    BY <1>6, LitReady DEF Lit, BootStates, Screens, Resting, FadingOut, FadingIn
  <2>4. Outcome(ChangeState(t, "ControllerInformationKeyWait"), w)
    BY <2>2, <2>3, TurnQuietly DEF BootStates, Screens, Commands, SaveData
  <2> QED BY <2>1, <2>2, <2>4, Stay
<1>7. CASE w.b.state = "ControllerInformationKeyWait"
  <2> DEFINE t == SetTimers(w, Less(w.b.auto), w.b.min - 1)
  <2>1. v = IF t.b.min <= 0 THEN ChangeState(t, "ControllerInformationDispEndWait") ELSE t
    BY <1>7 DEF ExecuteScreens, When
  <2>2. Quiet(t, w)
    BY <1>0, QuietTimers
  <2> HIDE DEF t
  <2>3. Ready(w, "ControllerInformationDispEndWait")
    BY <1>7, LitReady DEF Lit, BootStates, Screens, Resting, FadingOut, FadingIn
  <2>4. Outcome(ChangeState(t, "ControllerInformationDispEndWait"), w)
    BY <2>2, <2>3, TurnQuietly DEF BootStates, Screens, Commands, SaveData
  <2> QED BY <2>1, <2>2, <2>4, Stay
<1>8. CASE w.b.state = "ControllerInformationDispEndWait"
  <2> DEFINE t == SetTimers(w, IF key THEN 0 ELSE Less(w.b.auto), w.b.min)
  <2>1. v = IF t.b.auto <= 0 THEN ChangeState(t, "NandCommandEndWait") ELSE t
    BY <1>8 DEF ExecuteScreens, When
  <2>2. Quiet(t, w)
    BY <1>0, QuietTimers
  <2> HIDE DEF t
  <2>3. Ready(w, "NandCommandEndWait")
    BY <1>8, LitReady DEF Lit, BootStates, Screens, SaveData, Resting, FadingOut, FadingIn
  <2>4. Outcome(ChangeState(t, "NandCommandEndWait"), w)
    BY <2>2, <2>3, TurnQuietly DEF BootStates, Screens, Commands, SaveData
  <2> QED BY <2>1, <2>2, <2>4, Stay
<1> QED BY <1>1, <1>2, <1>3, <1>4, <1>5, <1>6, <1>7, <1>8 DEF Screens

\* States with a lit screen may write the flags of the home menu.
LEMMA WindowsStay ==
  ASSUME NEW w, Runs(w), w.b.state \in Lit, NEW t, Windows(t, w)
  PROVE  Outcome(t, w)
<1>1. Typed(t) /\ ResetFits(t) /\ MessageFits(t)
  BY DEF Runs, Agree, Typed, ResetFits, MessageFits, Windows, Fixed
<1>2. ScreenFits(t) /\ HomeFits(t)
  BY DEF Runs, Agree, ScreenFits, HomeFits, Windows, Fixed, Lit, Resting
<1>3. Stable(t, w) /\ Swaps(t, w)
  BY DEF Windows, Fixed, Stable, Swaps
<1>4. t.b.forbid <= w.b.forbid /\ t.b.state = w.b.state
  BY DEF Windows, Runs, Agree, Typed
<1> QED BY <1>1, <1>2, <1>3, <1>4 DEF Outcome, Agree

LEMMA TurnWindows ==
  ASSUME NEW w, Runs(w), NEW t, Windows(t, w),
         NEW st \in BootStates, Ready(t, st), st \in Commands => ~w.b.nandBusy,
         st = "ControllerInformationFadeIn" => w.f.status = "OPAQUE"
  PROVE  Outcome(ChangeState(t, st), w)
<1>1. IsWorld(t) /\ Stable(t, w) /\ Swaps(t, w) /\ t.b.forbid = w.b.forbid
      /\ t.b.strapVisible \in BOOLEAN
  BY DEF Windows, Fixed, Stable, Swaps, Runs, Agree, Typed
<1> QED BY <1>1, Turn

\* A finished command leads on, or to the error message.
LEMMA CheckedIs ==
  ASSUME NEW w, Runs(w), w.b.state \in Lit \ {"ButtonInputWait", "WindowExitWait"},
         NEW ok, NEW next \in BootStates \ {"ProcEnd", "ControllerInformationFadeIn"}
  PROVE  Outcome(Checked(w, ok, next), w)
<1>0. Quiet(w, w)
  BY QuietWrites DEF Runs, Agree, Typed
<1>1. CASE w.b.nandBusy
  BY <1>0, <1>1, Stay DEF Checked
<1>2. CASE ~w.b.nandBusy
  <2>1. "GoToErrorFadeOut" \in BootStates \ {"ProcEnd"}
    BY DEF BootStates, Messages
  <2>2. Ready(w, "GoToErrorFadeOut")
    BY <2>1, LitReady
  <2>3. Outcome(ChangeState(w, "GoToErrorFadeOut"), w)
    BY <1>0, <1>2, <2>1, <2>2, TurnQuietly
  <2>4. Ready(w, next)
    BY LitReady
  <2>5. Outcome(ChangeState(w, next), w)
    BY <1>0, <1>2, <2>4, TurnQuietly
  <2>6. Outcome(w, w)
    BY <1>0, Stay
  <2> QED BY <1>2, <2>3, <2>5, <2>6 DEF Checked, When
<1> QED BY <1>1, <1>2

LEMMA SaveDataExecute ==
  ASSUME NEW w, Runs(w), w.b.state \in SaveData
  PROVE  Outcome(ExecuteSaveData(w), w)
<1> DEFINE v == ExecuteSaveData(w)
<1>0. /\ IsWorld(w) /\ Quiet(w, w) /\ w.b.state \in Lit \ {"ButtonInputWait", "WindowExitWait"}
      /\ SaveData \subseteq BootStates \ {"ProcEnd", "ControllerInformationFadeIn"}
  <2>1. SaveData \subseteq Lit \ {"ButtonInputWait", "WindowExitWait"}
    BY DEF SaveData, Lit, BootStates, Resting, FadingOut, FadingIn
  <2>2. SaveData \subseteq BootStates \ {"ProcEnd", "ControllerInformationFadeIn"}
    BY DEF SaveData, BootStates
  <2> QED BY <2>1, <2>2, QuietWrites DEF Runs, Agree, Typed
<1>1. CASE w.b.state = "NandCommandEndWait"
  <2>1. v = IF NandReady(w) THEN ChangeState(w, "ExistFileCheck") ELSE w
    BY <1>1 DEF ExecuteSaveData, When
  <2>2. "ExistFileCheck" \in BootStates \ {"ProcEnd"}
    BY <1>0 DEF SaveData
  <2>3. Ready(w, "ExistFileCheck")
    BY <1>0, <2>2, LitReady
  <2>4. CASE NandReady(w)
    <3>1. ~w.b.nandBusy
      BY <2>4 DEF NandReady
    <3> QED BY <1>0, <2>1, <2>2, <2>3, <2>4, <3>1, TurnQuietly
  <2>5. CASE ~NandReady(w)
    BY <1>0, <2>1, <2>5, Stay
  <2> QED BY <2>4, <2>5
<1>2. CASE w.b.state = "ExistFileCheck"
  <2> DEFINE next == IF w.b.fileExists THEN "Load" ELSE "NandSpaceCheck"
  <2>1. v = Checked(w, TRUE, next)
    BY <1>2 DEF ExecuteSaveData
  <2>2. next \in BootStates \ {"ProcEnd", "ControllerInformationFadeIn"}
    BY <1>0 DEF SaveData
  <2> QED BY <1>0, <2>1, <2>2, CheckedIs
<1>3. CASE w.b.state = "NandSpaceCheck"
  <2>1. v = Checked(w, Past(w.b, "saveBanner"), "CreateFile")
    BY <1>3 DEF ExecuteSaveData
  <2>2. "CreateFile" \in BootStates \ {"ProcEnd", "ControllerInformationFadeIn"}
    BY <1>0 DEF SaveData
  <2> QED BY <1>0, <2>1, <2>2, CheckedIs
<1>4. CASE w.b.state = "CreateFile"
  <2> DEFINE t == [w EXCEPT !.b.newFile = @ \/ w.b.nandError = "none", !.a = FALSE]
  <2>1. v = IF w.b.nandBusy THEN w ELSE ChangeState(t, "GoToErrorFadeIn")
    BY <1>4 DEF ExecuteSaveData
  <2>2. IsWorld(t) /\ t.f = w.f
    BY <1>0 DEF IsWorld, BootFields
  <2>3. Stable(t, w) /\ Swaps(t, w)
    BY <1>0 DEF IsWorld, BootFields, Stable, Swaps
  <2>4. t.b.forbid = w.b.forbid /\ t.b.strapVisible = w.b.strapVisible
        /\ t.b.messageShown = w.b.messageShown
    BY <1>0 DEF IsWorld, BootFields
  <2> HIDE DEF t
  <2>5. w.f.status = "HIDDEN" /\ ~w.b.messageShown /\ w.b.strapVisible \in BOOLEAN
    BY <1>0, <1>4 DEF Runs, Agree, ScreenFits, MessageFits, Typed
  <2>6. Ready(t, "GoToErrorFadeIn")
    BY <2>2, <2>4, <2>5 DEF Ready, FadingOut, FadingIn, Lit
  <2>7. Outcome(ChangeState(t, "GoToErrorFadeIn"), w)
    BY <2>2, <2>3, <2>4, <2>5, <2>6, Turn DEF BootStates, Messages, Commands, SaveData
  <2> QED BY <1>0, <2>1, <2>7, Stay
<1>5. CASE w.b.state = "Load"
  <2> DEFINE loaded == ~w.b.nandBusy /\ w.b.nandError = "none"
             t == SetWindows(w, FALSE, FALSE)
  <2>1. v = Checked(IF loaded THEN t ELSE w, TRUE, "ProcEnd")
    BY <1>5 DEF ExecuteSaveData
  <2>2. CASE loaded
    <3>1. WindowsOff(t, w)
      BY <1>0, WindowsAre
    <3>2. t.b.nandBusy = w.b.nandBusy /\ t.b.nandError = w.b.nandError
      BY <1>0 DEF SetWindows, IsWorld, BootFields
    <3> HIDE DEF t
    <3>3. v = ChangeState(t, "ProcEnd")
      BY <2>1, <2>2, <3>2 DEF Checked, When
    <3>4. Ready(t, "ProcEnd")
      <4>1. w.a
        BY <1>0 DEF Runs, Agree, HomeFits, Lit
      <4> QED BY <3>1, <4>1 DEF Ready, WindowsOff, Windows, Lit, Resting, FadingOut, FadingIn
    <3> QED BY <3>1, <3>3, <3>4, TurnWindows
            DEF WindowsOff, BootStates, Messages, Commands, SaveData
  <2>3. CASE ~loaded
    <3>1. v = IF w.b.nandBusy THEN w ELSE ChangeState(w, "GoToErrorFadeOut")
      BY <2>1, <2>3 DEF Checked
    <3>2. "GoToErrorFadeOut" \in BootStates \ {"ProcEnd"}
      BY DEF BootStates, Messages
    <3>3. Ready(w, "GoToErrorFadeOut")
      BY <1>0, <3>2, LitReady
    <3>4. Outcome(ChangeState(w, "GoToErrorFadeOut"), w)
      BY <1>0, <3>2, <3>3, TurnQuietly DEF Commands, SaveData
    <3> QED BY <1>0, <3>1, <3>4, Stay
  <2> QED BY <2>2, <2>3
<1> QED BY <1>1, <1>2, <1>3, <1>4, <1>5 DEF SaveData

LEMMA MessagesExecute ==
  ASSUME NEW w, Runs(w), w.b.state \in Messages, NEW key \in BOOLEAN
  PROVE  Outcome(ExecuteMessages(w, key), w)
<1> DEFINE v == ExecuteMessages(w, key)
<1>0. /\ IsWorld(w) /\ Quiet(w, w) /\ w.b.state \in BootStates
      /\ Messages \subseteq BootStates /\ Messages \cap Commands = {}
  BY QuietWrites DEF Runs, Agree, Typed, BootStates, Messages, Commands, SaveData
<1>1. CASE w.b.state = "NewSaveFileDisp"
  <2>1. v = IF ~Animating(w) THEN ChangeState(w, "ButtonInputWait") ELSE w
    BY <1>1 DEF ExecuteMessages, When
  <2>2. Ready(w, "ButtonInputWait")
    BY <1>0, <1>1, LitReady DEF Lit, Messages, Resting, FadingOut, FadingIn
  <2>3. Outcome(ChangeState(w, "ButtonInputWait"), w)
    BY <1>0, <2>2, TurnQuietly DEF Messages
  <2> QED BY <1>0, <2>1, <2>3, Stay
<1>2. CASE w.b.state = "ButtonInputWait"
  <2> DEFINE t == [w EXCEPT !.b.saveWindow = @ \/ key]
  <2>1. v = IF key THEN ChangeState(t, "WindowExitWait") ELSE t
    BY <1>2 DEF ExecuteMessages, When
  <2>2. Windows(t, w)
    BY <1>0 DEF Windows, Fixed, IsWorld, BootFields
  <2> HIDE DEF t
  <2>3. w.b.state \in Lit
    BY <1>0, <1>2 DEF Lit, Resting, FadingOut, FadingIn
  <2>4. Ready(t, "WindowExitWait")
    <3>1. w.f.status = "HIDDEN" /\ w.a
      BY <2>3 DEF Runs, Agree, ScreenFits, HomeFits, Lit
    <3> QED BY <2>2, <3>1 DEF Ready, Windows, FadingOut, FadingIn
  <2>5. Outcome(ChangeState(t, "WindowExitWait"), w)
    BY <1>0, <2>2, <2>4, TurnWindows DEF Messages
  <2>6. Outcome(t, w)
    BY <2>2, <2>3, WindowsStay
  <2> QED BY <2>1, <2>5, <2>6
<1>3. CASE w.b.state = "WindowExitWait"
  <2> DEFINE u == SetWindows(w, FALSE, FALSE)
             t == [u EXCEPT !.b.newFile = FALSE]
  <2>1. v = IF Animating(w) THEN w ELSE ChangeState(t, "ProcEnd")
    BY <1>3 DEF ExecuteMessages
  <2>2. WindowsOff(u, w)
    BY <1>0, WindowsAre
  <2> HIDE DEF u
  <2>3. Quiet(t, u)
    BY <2>2, QuietWrites DEF WindowsOff, Windows
  <2> HIDE DEF t
  <2>4. WindowsOff(t, w)
    BY <2>2, <2>3 DEF WindowsOff, Windows, Quiet, Fixed
  <2>5. w.a
    BY <1>0, <1>3 DEF Runs, Agree, HomeFits, FadingOut, FadingIn
  <2>6. Ready(t, "ProcEnd")
    BY <2>4, <2>5 DEF Ready, WindowsOff, Windows, Lit, Resting, FadingOut, FadingIn
  <2>7. Outcome(ChangeState(t, "ProcEnd"), w)
    BY <1>0, <2>4, <2>6, TurnWindows DEF WindowsOff, Messages
  <2> QED BY <1>0, <2>1, <2>7, Stay
<1>4. CASE w.b.state = "GoToErrorFadeOut"
  <2> DEFINE t == [w EXCEPT !.b.strapVisible = FALSE, !.b.infoVisible = FALSE]
  <2>1. v = IF Black(w) THEN ChangeState(t, "GoToErrorFadeIn") ELSE w
    BY <1>4 DEF ExecuteMessages
  <2>2. CASE Black(w)
    <3>1. IsWorld(t) /\ t.f = w.f /\ t.b.forbid = w.b.forbid
          /\ t.b.messageShown = w.b.messageShown /\ t.b.strapVisible \in BOOLEAN
      BY <1>0 DEF IsWorld, BootFields
    <3>2. Stable(t, w) /\ Swaps(t, w)
      BY <1>0, <2>2 DEF IsWorld, BootFields, Stable, Swaps, Black
    <3> HIDE DEF t
    <3>3. Ready(t, "GoToErrorFadeIn")
      BY <1>4, <2>2, <3>1
         DEF Ready, Black, Runs, Agree, MessageFits, Lit, FadingOut, FadingIn
    <3>4. Outcome(ChangeState(t, "GoToErrorFadeIn"), w)
      BY <1>0, <3>1, <3>2, <3>3, Turn DEF Messages
    <3> QED BY <2>1, <2>2, <3>4
  <2>3. CASE ~Black(w)
    BY <1>0, <2>1, <2>3, Stay
  <2> QED BY <2>2, <2>3
<1>5. CASE w.b.state = "GoToErrorFadeIn"
  <2> DEFINE t == [w EXCEPT !.a = TRUE]
             u == [w EXCEPT !.a = TRUE, !.b.saveWindow = FALSE]
  <2>1. v = IF ~Clear(w) THEN w
            ELSE IF w.b.newFile THEN ChangeState(t, "NewSaveFileDisp")
            ELSE ChangeState(u, "ErrorWindowOnStageWait")
    BY <1>5 DEF ExecuteMessages
  <2>2. CASE Clear(w)
    <3>1. ~w.b.messageShown /\ w.f.status = "HIDDEN" /\ w.b.strapVisible \in BOOLEAN
      BY <1>5, <2>2 DEF Runs, Agree, MessageFits, Clear, Typed
    <3>2. IsWorld(t) /\ t.f = w.f /\ t.a = TRUE /\ t.b = w.b
          /\ Stable(t, w) /\ Swaps(t, w)
      BY <1>0 DEF IsWorld, Stable, Swaps
    <3>3. IsWorld(u) /\ u.f = w.f /\ u.a = TRUE /\ u.b.forbid = w.b.forbid
          /\ u.b.messageShown = w.b.messageShown /\ u.b.strapVisible = w.b.strapVisible
      BY <1>0 DEF IsWorld, BootFields
    <3>4. Stable(u, w) /\ Swaps(u, w)
      BY <1>0 DEF IsWorld, BootFields, Stable, Swaps
    <3> HIDE DEF t, u
    <3>5. Ready(t, "NewSaveFileDisp") /\ Ready(u, "ErrorWindowOnStageWait")
      BY <3>1, <3>2, <3>3 DEF Ready, FadingOut, FadingIn
    <3>6. Outcome(ChangeState(t, "NewSaveFileDisp"), w)
      BY <1>0, <3>1, <3>2, <3>5, Turn DEF Messages
    <3>7. Outcome(ChangeState(u, "ErrorWindowOnStageWait"), w)
      BY <1>0, <3>1, <3>3, <3>4, <3>5, Turn DEF Messages
    <3> QED BY <2>1, <2>2, <3>6, <3>7
  <2>3. CASE ~Clear(w)
    BY <1>0, <2>1, <2>3, Stay
  <2> QED BY <2>2, <2>3
<1>6. CASE w.b.state = "ErrorWindowOnStageWait"
  <2> DEFINE t == [w EXCEPT !.b.homeOff = FALSE]
             next == IF w.b.error = "retry" THEN "NandCommandEndWait" ELSE "ErrorInfinityDisp"
  <2>1. v = IF w.b.warning # "open" THEN ChangeState(t, next) ELSE t
    BY <1>6 DEF ExecuteMessages, When
  <2>2. Windows(t, w)
    BY <1>0 DEF Windows, Fixed, IsWorld, BootFields
  <2> HIDE DEF t
  <2>3. w.b.state \in Lit
    BY <1>0, <1>6 DEF Lit, Resting, FadingOut, FadingIn
  <2>4. Ready(t, next)
    <3>1. w.f.status = "HIDDEN" /\ w.a /\ ~w.b.messageShown
      BY <1>6, <2>3 DEF Runs, Agree, ScreenFits, HomeFits, MessageFits, Lit
    <3> QED BY <2>2, <3>1 DEF Ready, Windows, FadingOut, FadingIn
  <2>5. Outcome(ChangeState(t, next), w)
    <3>1. next \in BootStates /\ next \notin Commands
      BY DEF BootStates, SaveData, Messages, Commands
    <3>2. next # "ControllerInformationFadeIn"
      OBVIOUS
    <3> HIDE DEF next
    <3> QED BY <2>2, <2>4, <3>1, <3>2, TurnWindows
  <2>6. Outcome(t, w)
    BY <2>2, <2>3, WindowsStay
  <2> QED BY <2>1, <2>5, <2>6
<1>7. CASE w.b.state \in {"ProcEnd", "ErrorInfinityDisp"}
  <2>1. v = w
    BY <1>7 DEF ExecuteMessages
  <2> QED BY <1>0, <2>1, Stay
<1> QED BY <1>1, <1>2, <1>3, <1>4, <1>5, <1>6, <1>7 DEF Messages

\* What the two managers agree on survives every execute operation of
\* mStateMgr, whatever the player does.
LEMMA ExecuteIs ==
  ASSUME NEW w, Runs(w), NEW key \in BOOLEAN
  PROVE  Outcome(Execute(w, key), w)
<1>1. w.b.state \in BootStates
  BY DEF Runs, Agree, Typed
<1> QED BY <1>1, ScreensExecute, SaveDataExecute, MessagesExecute DEF Execute, BootStates
-----------------------------------------------------------------------------
(* mResetStateMgr.                                                         *)

\* What a reset leaves alone until its end.
Untouched(v, w) ==
  /\ v.b.step = w.b.step /\ v.b.method = w.b.method /\ v.b.reset = w.b.reset
  /\ v.b.messageShown = w.b.messageShown /\ v.b.forbid = w.b.forbid

\* The end of a reset lights what it has switched off, and sends the error
\* messages back to their fade out.
Errors == {"ErrorWindowOnStageWait", "ErrorInfinityDisp"}
Relit(v, w) ==
  /\ IsWorld(v) /\ Untouched(v, w) /\ v.m = w.m
  /\ v.b.softReset = w.b.softReset /\ v.b.resetting = FALSE
  /\ v.b.strapVisible = w.b.strapVisible /\ v.b.infoVisible = w.b.infoVisible
  /\ v.b.homeOff = FALSE
  /\ v.b.state = (IF w.b.state \in Errors THEN "GoToErrorFadeOut" ELSE w.b.state)
  /\ v.b.saveWindow = (IF w.b.state \in Errors THEN TRUE ELSE FALSE)
  /\ v.a = (IF w.b.state \in Errors THEN FALSE ELSE TRUE)
  /\ v.f.status = (IF w.b.state \in Errors THEN FadedOut(w.f.status) ELSE w.f.status)

LEMMA RelitIs ==
  ASSUME NEW w, IsWorld(w)
  PROVE  Relit(FinalizeResetFadeIn(w), w)
<1> DEFINE off == SetWindows(w, FALSE, FALSE)
           lit == [off EXCEPT !.a = TRUE]
           back == IF w.b.state \in Errors THEN ChangeState(lit, "GoToErrorFadeOut") ELSE lit
           timed == IF back.b.state \in {"ControllerInformationKeyWait",
                                         "ControllerInformationDispEndWait"}
                      THEN SetTimers(back, 0, 0) ELSE SetTimers(back, StrapAuto, StrapMin)
           v == [timed EXCEPT !.b.faderDone = FALSE, !.b.resetting = FALSE]
<1>1. FinalizeResetFadeIn(w) = v
  BY DEF FinalizeResetFadeIn, Errors
<1>2. WindowsOff(off, w)
  BY WindowsAre
<1> HIDE DEF off
<1>3. IsWorld(lit) /\ lit.b = off.b /\ lit.f = w.f /\ lit.m = w.m /\ lit.a = TRUE
  BY <1>2 DEF WindowsOff, Windows, Fixed, IsWorld
<1> HIDE DEF lit
<1>4. /\ Untouched(lit, w) /\ lit.b.softReset = w.b.softReset
      /\ lit.b.strapVisible = w.b.strapVisible /\ lit.b.infoVisible = w.b.infoVisible
      /\ lit.b.state = w.b.state /\ lit.b.homeOff = FALSE /\ lit.b.saveWindow = FALSE
  BY <1>2, <1>3 DEF WindowsOff, Windows, Fixed, Untouched
<1>5. IsWorld(back) /\ Untouched(back, w) /\ back.m = w.m
      /\ back.b.softReset = w.b.softReset
      /\ back.b.strapVisible = w.b.strapVisible /\ back.b.infoVisible = w.b.infoVisible
      /\ back.b.homeOff = FALSE
      /\ back.b.state = (IF w.b.state \in Errors THEN "GoToErrorFadeOut" ELSE w.b.state)
      /\ back.b.saveWindow = (IF w.b.state \in Errors THEN TRUE ELSE FALSE)
      /\ back.a = (IF w.b.state \in Errors THEN FALSE ELSE TRUE)
      /\ back.f.status = (IF w.b.state \in Errors THEN FadedOut(w.f.status) ELSE w.f.status)
  <2>1. CASE w.b.state \in Errors
    <3>1. Changed(back, lit, "GoToErrorFadeOut")
      BY <1>3, <2>1, ChangeIs
    <3> HIDE DEF back
    <3>2. lit.b.state \notin FadingIn /\ lit.b.state # "ControllerInformationFadeIn"
      BY <1>4, <2>1 DEF Errors, FadingIn
    <3>3. HomeLeft(lit) = FALSE /\ ForbidLeft(lit) = lit.b.forbid
      BY <1>4, <3>2 DEF HomeLeft, ForbidLeft
    <3> QED BY <1>3, <1>4, <2>1, <3>1, <3>3 DEF Changed, Fixed, Untouched, FadingOut
  <2>2. CASE w.b.state \notin Errors
    BY <1>3, <1>4, <2>2
  <2> QED BY <2>1, <2>2
<1> HIDE DEF back
<1>6. Quiet(timed, back)
  BY <1>5, QuietTimers
<1> HIDE DEF timed
<1>7. IsWorld(v) /\ v.f = timed.f /\ v.a = timed.a /\ v.m = timed.m /\ v.b.resetting = FALSE
  BY <1>6 DEF Quiet, IsWorld, BootFields
<1>8. /\ Untouched(v, timed) /\ v.b.softReset = timed.b.softReset
      /\ v.b.strapVisible = timed.b.strapVisible /\ v.b.infoVisible = timed.b.infoVisible
      /\ v.b.homeOff = timed.b.homeOff /\ v.b.state = timed.b.state
      /\ v.b.saveWindow = timed.b.saveWindow
  BY <1>6 DEF Quiet, IsWorld, BootFields, Untouched
<1> HIDE DEF v
<1>9. Relit(v, w)
  BY <1>5, <1>6, <1>7, <1>8 DEF Relit, Quiet, Fixed, Untouched
<1> QED BY <1>1, <1>9

\* A reset that has blacked out the screen skips the one that waits for the
\* player, and tells the reset manager.
Skipped(st) ==
  IF st = "WiiStrapDispEndWait" THEN "ControllerInformationSoundWait"
  ELSE IF st = "ControllerInformationDispEndWait" THEN "NandCommandEndWait" ELSE st
Blacked(v, w) ==
  /\ IsWorld(v) /\ Untouched(v, w) /\ v.a = w.a /\ v.f.status = w.f.status
  /\ v.b.softReset = FALSE /\ v.b.resetting = w.b.resetting
  /\ v.b.homeOff = w.b.homeOff /\ v.b.saveWindow = w.b.saveWindow
  /\ v.b.state = Skipped(w.b.state) /\ v.b.strapVisible \in {w.b.strapVisible, FALSE}

LEMMA BlackedIs ==
  ASSUME NEW w, IsWorld(w)
  PROVE  Blacked(FinalizeResetFadeOut(w), w)
<1> DEFINE over == [w EXCEPT !.b.softReset = FALSE, !.b.blank = FALSE, !.m = ResetFinished(@)]
           strap == [EndWarnings(over) EXCEPT !.b.infoVisible = TRUE, !.b.strapVisible = FALSE,
                                              !.b.faderDone = FALSE]
           info == [over EXCEPT !.b.infoVisible = FALSE, !.b.faderDone = FALSE]
           skipped ==
             CASE w.b.state = "WiiStrapDispEndWait" ->
                    SetTimers(ChangeState(strap, "ControllerInformationSoundWait"), 0, 0)
               [] w.b.state = "ControllerInformationDispEndWait" ->
                    SetTimers(ChangeState(info, "NandCommandEndWait"), 0, 0)
               [] OTHER -> over
           v == [skipped EXCEPT !.b.fadeStarted = FALSE]
<1>1. FinalizeResetFadeOut(w) = v
  BY DEF FinalizeResetFadeOut
<1>2. /\ IsWorld(over) /\ Untouched(over, w) /\ over.a = w.a /\ over.f = w.f
      /\ over.b.softReset = FALSE
  <2>1. ResetFinished(w.m) \in Modes
    BY DEF IsWorld, ResetFinished, Modes
  <2> QED BY <2>1 DEF IsWorld, BootFields, Untouched
<1>3. /\ over.b.resetting = w.b.resetting /\ over.b.homeOff = w.b.homeOff
      /\ over.b.saveWindow = w.b.saveWindow /\ over.b.state = w.b.state
      /\ over.b.strapVisible = w.b.strapVisible
  BY DEF IsWorld, BootFields
<1> HIDE DEF over
<1>4. Blacked(skipped, w)
  <2>1. CASE w.b.state = "WiiStrapDispEndWait"
    <3> DEFINE e == EndWarnings(over)
               c == ChangeState(strap, "ControllerInformationSoundWait")
    <3>1. Quiet(e, over)
      BY <1>2, QuietWrites
    <3>2. strap = [e EXCEPT !.b.infoVisible = TRUE, !.b.strapVisible = FALSE,
                            !.b.faderDone = FALSE]
      OBVIOUS
    <3> HIDE DEF e, strap
    <3>3. IsWorld(strap) /\ strap.f = e.f /\ strap.a = e.a /\ strap.m = e.m
          /\ strap.b.strapVisible = FALSE
      BY <3>1, <3>2 DEF Quiet, IsWorld, BootFields
    <3>4. /\ Untouched(strap, e) /\ strap.b.softReset = e.b.softReset
          /\ strap.b.resetting = e.b.resetting /\ strap.b.homeOff = e.b.homeOff
          /\ strap.b.saveWindow = e.b.saveWindow /\ strap.b.state = e.b.state
      BY <3>1, <3>2 DEF Quiet, IsWorld, BootFields, Untouched
    <3>5. strap.b.state = w.b.state
      BY <1>3, <3>1, <3>4 DEF Quiet
    <3>6. Changed(c, strap, "ControllerInformationSoundWait")
      BY <3>3, ChangeIs
    <3> HIDE DEF c
    <3>7. Blacked(c, strap)
      BY <2>1, <3>3, <3>4, <3>5, <3>6, <1>2, <3>1
         DEF Changed, Fixed, Untouched, Blacked, Skipped, ForbidLeft, HomeLeft, SaveLeft, AutoLeft,
             FadingIn, FadingOut, Quiet
    <3>8. Quiet(SetTimers(c, 0, 0), c)
      BY <3>6, QuietTimers DEF Changed
    <3>9. skipped = SetTimers(c, 0, 0)
      BY <2>1 DEF c
    <3> HIDE DEF skipped
    <3>10. Untouched(skipped, w)
      BY <1>2, <3>1, <3>4, <3>7, <3>8, <3>9 DEF Untouched, Quiet, Fixed, Blacked
    <3> QED BY <1>2, <1>3, <2>1, <3>1, <3>3, <3>4, <3>5, <3>7, <3>8, <3>9, <3>10
            DEF Blacked, Quiet, Fixed
  <2>2. CASE w.b.state = "ControllerInformationDispEndWait"
    <3> DEFINE c == ChangeState(info, "NandCommandEndWait")
    <3>1. IsWorld(info) /\ info.f = over.f /\ info.a = over.a /\ info.m = over.m
      BY <1>2 DEF IsWorld, BootFields
    <3>2. /\ Untouched(info, over) /\ info.b.softReset = over.b.softReset
          /\ info.b.resetting = over.b.resetting /\ info.b.homeOff = over.b.homeOff
          /\ info.b.saveWindow = over.b.saveWindow /\ info.b.state = over.b.state
          /\ info.b.strapVisible = over.b.strapVisible
      BY <1>2 DEF IsWorld, BootFields, Untouched
    <3> HIDE DEF info
    <3>3. Changed(c, info, "NandCommandEndWait")
      BY <3>1, ChangeIs
    <3>4. skipped = SetTimers(c, 0, 0)
      BY <2>2
    <3> HIDE DEF c
    <3>5. Blacked(c, info)
      BY <1>2, <1>3, <2>2, <3>1, <3>2, <3>3
         DEF Changed, Fixed, Untouched, Blacked, Skipped, ForbidLeft, HomeLeft, SaveLeft, AutoLeft,
             FadingIn, FadingOut
    <3>6. Quiet(SetTimers(c, 0, 0), c)
      BY <3>3, QuietTimers DEF Changed
    <3> HIDE DEF skipped
    <3>7. Untouched(skipped, w)
      BY <1>2, <3>2, <3>4, <3>5, <3>6 DEF Untouched, Quiet, Fixed, Blacked
    <3> QED BY <1>2, <1>3, <2>2, <3>1, <3>2, <3>4, <3>5, <3>6, <3>7
            DEF Blacked, Quiet, Fixed
  <2>3. CASE w.b.state \notin {"WiiStrapDispEndWait", "ControllerInformationDispEndWait"}
    <3>1. skipped = over
      BY <2>3
    <3> QED BY <1>2, <1>3, <2>3, <3>1 DEF Blacked, Skipped
  <2> QED BY <2>1, <2>2, <2>3
<1> HIDE DEF skipped
<1>5. IsWorld(skipped)
  BY <1>4 DEF Blacked
<1>6. Quiet(v, skipped)
  BY <1>5, QuietWrites
<1> HIDE DEF v
<1>7. Untouched(v, w)
  BY <1>4, <1>6 DEF Blacked, Quiet, Fixed, Untouched
<1>8. Blacked(v, w)
  BY <1>4, <1>6, <1>7 DEF Blacked, Quiet, Fixed
<1> QED BY <1>1, <1>8

\* What a call of mResetStateMgr leaves: a reset that has been asked for has
\* begun, and mStateMgr is held while it lasts.
ResetOutcome(v, w) ==
  /\ Agree(v) /\ Swaps(v, w)
  /\ v.b.softReset => v.b.resetting
  /\ v.b.step = w.b.step /\ v.b.method = w.b.method /\ v.b.forbid <= w.b.forbid
  /\ v.b.state # w.b.state => v.b.state \notin Commands

\* A reset begins in a state that is not fading out.
LEMMA ResetBegins ==
  ASSUME NEW w, Agree(w), w.b.reset = "ResetWait"
  PROVE  ResetOutcome(ResetExecute(w), w)
<1> DEFINE v == ResetExecute(w)
<1>0. IsWorld(w) /\ w.b.forbid \in 0 .. 1
  BY DEF Agree, Typed
<1>1. CASE ~w.b.softReset
  <2>1. v = w
    BY <1>1 DEF ResetExecute
  <2> QED BY <1>0, <1>1, <2>1 DEF ResetOutcome, Swaps
<1>2. CASE w.b.softReset
  <2> DEFINE t == BeginFadeOut(w)
             u == [t EXCEPT !.b.homeOff = TRUE, !.b.reset = "ResetFadeOut",
                     !.b.resetting = TRUE, !.a = FALSE, !.b.fadeStarted = Clear(w),
                     !.b.faderDone = FALSE]
  <2>1. IsWorld(t) /\ t.b = w.b
    BY <1>0, BeginIs
  <2>2. v = u
    BY <1>2 DEF ResetExecute
  <2> HIDE DEF t
  <2>3. IsWorld(u) /\ u.b.reset = "ResetFadeOut" /\ u.b.resetting = TRUE
    BY <2>1 DEF IsWorld, BootFields
  <2>4. /\ u.b.step = w.b.step /\ u.b.method = w.b.method /\ u.b.forbid = w.b.forbid
        /\ u.b.state = w.b.state /\ u.b.messageShown = w.b.messageShown
        /\ u.b.strapVisible = w.b.strapVisible /\ u.b.infoVisible = w.b.infoVisible
    BY <2>1 DEF IsWorld, BootFields
  <2> HIDE DEF u
  <2>5. w.b.state \notin FadingOut
    BY <1>2 DEF Agree, ResetFits, ScreenFits
  <2>6. Typed(u)
    BY <2>3, <2>4 DEF Agree, Typed, ResetStates
  <2>7. ResetFits(u) /\ MessageFits(u) /\ ScreenFits(u) /\ HomeFits(u)
    BY <2>3, <2>4, <2>5 DEF Agree, ResetFits, MessageFits, ScreenFits, HomeFits
  <2> QED BY <1>0, <2>2, <2>3, <2>4, <2>6, <2>7 DEF ResetOutcome, Agree, Swaps
<1> QED BY <1>1, <1>2

\* The screen fades out; when it is black, the reset manager is done and the
\* controller information has been made, the reset is over, or, without a
\* message, the screen fades in again.
LEMMA ResetFades ==
  ASSUME NEW w, Agree(w), w.b.reset = "ResetFadeOut"
  PROVE  ResetOutcome(ResetExecute(w), w)
<1> DEFINE v == ResetExecute(w)
<1>0. /\ IsWorld(w) /\ w.b.forbid \in 0 .. 1 /\ w.b.resetting /\ w.b.state \notin FadingOut
  BY DEF Agree, Typed, ResetFits, ScreenFits
<1>1. CASE ~w.b.fadeStarted
  <2> DEFINE u == [w EXCEPT !.f = StartFadeOut(@, FadeTime), !.b.fadeStarted = Clear(w)]
  <2>1. v = u
    BY <1>1 DEF ResetExecute
  <2>2. StartFadeOut(w.f, FadeTime) \in Faders
    BY <1>0, FadeTimeIs, StartIs DEF IsWorld
  <2>3. IsWorld(u) /\ u.b.reset = w.b.reset /\ u.b.resetting = w.b.resetting
        /\ u.b.softReset = w.b.softReset /\ u.b.saveWindow = w.b.saveWindow
    BY <1>0, <2>2 DEF IsWorld, BootFields
  <2>4. /\ u.b.step = w.b.step /\ u.b.method = w.b.method /\ u.b.forbid = w.b.forbid
        /\ u.b.state = w.b.state /\ u.b.messageShown = w.b.messageShown
        /\ u.b.strapVisible = w.b.strapVisible /\ u.b.infoVisible = w.b.infoVisible
    BY <1>0 DEF IsWorld, BootFields
  <2> HIDE DEF u
  <2>5. Typed(u)
    BY <2>3, <2>4 DEF Agree, Typed
  <2>6. ResetFits(u) /\ MessageFits(u) /\ ScreenFits(u) /\ HomeFits(u)
    BY <1>0, <2>3, <2>4 DEF Agree, ResetFits, MessageFits, ScreenFits, HomeFits
  <2> QED BY <1>0, <2>1, <2>3, <2>4, <2>5, <2>6 DEF ResetOutcome, Agree, Swaps
<1>2. CASE w.b.fadeStarted
  <2> DEFINE t == [w EXCEPT !.b.faderDone = @ \/ w.b.blank]
             ended == EndWarnings(t)
             lit == FinalizeResetFadeIn(ended)
             proc == ChangeState(lit, "ProcEnd")
             shown == [proc EXCEPT !.b.window = "closed", !.b.infoVisible = FALSE]
             over == FinalizeResetFadeOut(shown)
             again == [over EXCEPT !.b.reset = "ResetWait", !.b.resetting = FALSE]
             black == FinalizeResetFadeOut(ended)
             begun == [black EXCEPT !.b.reset = "ResetFadeIn", !.b.saveWindow = TRUE]
  <2>1. v = IF ~(t.b.faderDone /\ Black(t) /\ t.b.infoCreated) THEN t
            ELSE IF t.b.messageShown THEN again ELSE BeginFadeIn(begun)
    BY <1>2 DEF ResetExecute, ResetWaitAgain
  <2>2. Quiet(t, w)
    BY <1>0 DEF Quiet, Fixed, IsWorld, BootFields
  <2> HIDE DEF t
  <2>3. Quiet(ended, t)
    BY <2>2, QuietWrites DEF Quiet
  <2> HIDE DEF ended
  <2>4. Agree(t)
    BY <2>2, QuietAgrees
  <2>5. Agree(ended)
    BY <2>3, <2>4, QuietAgrees
  <2>6. Quiet(ended, w)
    BY <2>2, <2>3 DEF Quiet, Fixed
  <2>7. ResetOutcome(t, w)
    BY <1>0, <2>2, <2>4 DEF ResetOutcome, Quiet, Fixed, Swaps
  <2>8. ASSUME Black(t), t.b.messageShown
        PROVE  ResetOutcome(again, w)
    <3>1. w.b.messageShown /\ w.b.state \in {"ButtonInputWait", "WindowExitWait", "ProcEnd"}
          /\ w.f.status = "OPAQUE"
      BY <2>2, <2>8 DEF Quiet, Agree, MessageFits, Black
    <3>2. Relit(lit, ended) /\ ended.b.state = w.b.state
      BY <2>3, <2>6, RelitIs DEF Quiet
    <3> HIDE DEF lit
    <3>3. /\ IsWorld(lit) /\ lit.b.state = w.b.state /\ lit.b.homeOff = FALSE
          /\ lit.b.saveWindow = FALSE /\ lit.a = TRUE /\ Untouched(lit, ended)
          /\ lit.b.strapVisible = ended.b.strapVisible
      BY <3>1, <3>2 DEF Relit, Errors
    <3>4. Changed(proc, lit, "ProcEnd")
      BY <3>3, ChangeIs
    <3> HIDE DEF proc
    <3>5. /\ IsWorld(proc) /\ proc.b.state = "ProcEnd" /\ Untouched(proc, w)
          /\ proc.b.strapVisible = w.b.strapVisible
          /\ proc.b.homeOff = FALSE /\ proc.b.saveWindow = FALSE /\ proc.a = TRUE
      BY <2>6, <3>1, <3>3, <3>4
         DEF Changed, Fixed, Untouched, Quiet, HomeLeft, SaveLeft, AutoLeft, ForbidLeft, FadingOut
    <3>6. IsWorld(shown) /\ shown.a = proc.a /\ Untouched(shown, proc)
      BY <3>5 DEF IsWorld, BootFields, Untouched
    <3>7. /\ shown.b.state = proc.b.state /\ shown.b.homeOff = proc.b.homeOff
          /\ shown.b.saveWindow = proc.b.saveWindow
          /\ shown.b.strapVisible = proc.b.strapVisible
      BY <3>5 DEF IsWorld, BootFields
    <3> HIDE DEF shown
    <3>8. Blacked(over, shown)
      BY <3>6, BlackedIs
    <3> HIDE DEF over
    <3>9. IsWorld(again) /\ again.a = over.a /\ again.b.reset = "ResetWait"
          /\ again.b.resetting = FALSE
      BY <3>8 DEF Blacked, IsWorld, BootFields
    <3>10. /\ again.b.step = over.b.step /\ again.b.method = over.b.method
           /\ again.b.forbid = over.b.forbid /\ again.b.messageShown = over.b.messageShown
           /\ again.b.strapVisible = over.b.strapVisible
           /\ again.b.state = over.b.state /\ again.b.homeOff = over.b.homeOff
           /\ again.b.saveWindow = over.b.saveWindow /\ again.b.softReset = over.b.softReset
      BY <3>8 DEF Blacked, IsWorld, BootFields
    <3> HIDE DEF again
    <3>11. /\ again.b.state = "ProcEnd" /\ again.b.homeOff = FALSE /\ again.b.saveWindow = FALSE
           /\ again.a = TRUE /\ again.b.softReset = FALSE
           /\ again.b.step = w.b.step /\ again.b.method = w.b.method
           /\ again.b.forbid = w.b.forbid
           /\ again.b.strapVisible \in {w.b.strapVisible, FALSE}
      <4>1. /\ again.b.step = w.b.step /\ again.b.method = w.b.method
            /\ again.b.forbid = w.b.forbid
        BY <3>5, <3>6, <3>8, <3>10 DEF Blacked, Untouched
      <4>2. over.b.state = "ProcEnd"
        BY <3>5, <3>7, <3>8 DEF Blacked, Skipped
      <4>3. over.b.homeOff = FALSE /\ over.b.saveWindow = FALSE /\ over.a = TRUE
            /\ over.b.softReset = FALSE
        BY <3>5, <3>6, <3>7, <3>8 DEF Blacked
      <4>4. over.b.strapVisible \in {w.b.strapVisible, FALSE}
        BY <3>5, <3>7, <3>8 DEF Blacked
      <4> QED BY <3>9, <3>10, <4>1, <4>2, <4>3, <4>4
    <3>12. Typed(again)
      BY <3>9, <3>11 DEF Agree, Typed, ResetStates, BootStates, Messages
    <3>13. ResetFits(again) /\ MessageFits(again) /\ ScreenFits(again) /\ HomeFits(again)
      BY <3>9, <3>11
         DEF ResetFits, MessageFits, ScreenFits, HomeFits, FadingOut, FadingIn, Lit, Resting
    <3> QED BY <1>0, <3>1, <3>9, <3>11, <3>12, <3>13
            DEF ResetOutcome, Agree, Swaps, Commands, SaveData
  <2>9. ASSUME Black(t), ~t.b.messageShown
        PROVE  ResetOutcome(BeginFadeIn(begun), w)
    <3>1. ~w.b.messageShown /\ w.f.status = "OPAQUE"
      BY <2>2, <2>9 DEF Quiet, Black
    <3>2. Blacked(black, ended)
      BY <2>3, BlackedIs DEF Quiet
    <3> HIDE DEF black
    <3>3. IsWorld(begun) /\ begun.b.reset = "ResetFadeIn" /\ begun.b.saveWindow = TRUE
      BY <3>2 DEF Blacked, IsWorld, BootFields
    <3>4. /\ begun.b.step = black.b.step /\ begun.b.method = black.b.method
          /\ begun.b.forbid = black.b.forbid /\ begun.b.messageShown = black.b.messageShown
          /\ begun.b.strapVisible = black.b.strapVisible /\ begun.b.state = black.b.state
          /\ begun.b.softReset = black.b.softReset /\ begun.b.resetting = black.b.resetting
      BY <3>2 DEF Blacked, IsWorld, BootFields
    <3> HIDE DEF begun
    <3> DEFINE u == BeginFadeIn(begun)
    <3>5. IsWorld(u) /\ u.b = begun.b
      BY <3>3, BeginIs
    <3> HIDE DEF u
    <3>6. /\ u.b.state = Skipped(w.b.state) /\ u.b.softReset = FALSE
          /\ u.b.resetting = w.b.resetting /\ u.b.reset = "ResetFadeIn"
          /\ u.b.saveWindow = TRUE /\ u.b.messageShown = w.b.messageShown
          /\ u.b.step = w.b.step /\ u.b.method = w.b.method /\ u.b.forbid = w.b.forbid
          /\ u.b.strapVisible \in {w.b.strapVisible, FALSE}
      BY <2>6, <3>2, <3>3, <3>4, <3>5 DEF Blacked, Untouched, Quiet, Fixed
    <3>7. Skipped(w.b.state) \in BootStates \ FadingOut
          /\ (Skipped(w.b.state) # w.b.state => Skipped(w.b.state) \notin Commands)
      BY <1>0 DEF Agree, Typed, Skipped, BootStates, Screens, SaveData, Commands, FadingOut
    <3>8. Typed(u)
      BY <3>5, <3>6, <3>7 DEF Agree, Typed, ResetStates
    <3>9. ResetFits(u) /\ MessageFits(u) /\ ScreenFits(u) /\ HomeFits(u)
      BY <1>0, <3>1, <3>6, <3>7 DEF ResetFits, MessageFits, ScreenFits, HomeFits
    <3>10. ResetOutcome(u, w)
      BY <1>0, <3>1, <3>6, <3>7, <3>8, <3>9 DEF ResetOutcome, Agree, Swaps
    <3> QED BY <3>10 DEF u
  <2> QED BY <2>1, <2>7, <2>8, <2>9
<1> QED BY <1>1, <1>2

\* The screen is lit again, and the reset over.
LEMMA ResetEnds ==
  ASSUME NEW w, Agree(w), w.b.reset = "ResetFadeIn"
  PROVE  ResetOutcome(ResetExecute(w), w)
<1> DEFINE v == ResetExecute(w)
           lit == FinalizeResetFadeIn(w)
           u == [lit EXCEPT !.b.reset = "ResetWait"]
<1>0. /\ IsWorld(w) /\ w.b.forbid \in 0 .. 1 /\ w.b.resetting /\ w.b.state \notin FadingOut
      /\ ~w.b.softReset
  BY DEF Agree, Typed, ResetFits, ScreenFits
<1>1. v = IF Clear(w) THEN u ELSE w
  BY DEF ResetExecute
<1>2. CASE ~Clear(w)
  BY <1>0, <1>1, <1>2 DEF ResetOutcome, Swaps
<1>3. CASE Clear(w)
  <2>1. Relit(lit, w)
    BY <1>0, RelitIs
  <2> HIDE DEF lit
  <2>2. IsWorld(u) /\ u.f = lit.f /\ u.a = lit.a /\ u.b.reset = "ResetWait"
    BY <2>1 DEF Relit, IsWorld, BootFields
  <2>3. /\ u.b.step = lit.b.step /\ u.b.method = lit.b.method
        /\ u.b.forbid = lit.b.forbid /\ u.b.messageShown = lit.b.messageShown
        /\ u.b.strapVisible = lit.b.strapVisible /\ u.b.infoVisible = lit.b.infoVisible
        /\ u.b.state = lit.b.state /\ u.b.homeOff = lit.b.homeOff
        /\ u.b.saveWindow = lit.b.saveWindow
        /\ u.b.softReset = lit.b.softReset /\ u.b.resetting = lit.b.resetting
    BY <2>1 DEF Relit, IsWorld, BootFields
  <2> HIDE DEF u
  <2>4. w.f.status = "HIDDEN"
    BY <1>3 DEF Clear
  <2>5. Typed(u)
    BY <2>1, <2>2, <2>3
       DEF Agree, Typed, Relit, Untouched, ResetStates, BootStates, Messages
  <2>6. ResetFits(u)
    BY <1>0, <2>1, <2>2, <2>3 DEF ResetFits, Relit
  <2>7. MessageFits(u)
    BY <2>1, <2>3 DEF Agree, MessageFits, Relit, Untouched, Errors
  <2>8. ScreenFits(u)
    BY <1>0, <2>1, <2>2, <2>3, <2>4
       DEF ScreenFits, Relit, FadedOut, Lit, FadingOut, FadingIn, Errors
  <2>9. HomeFits(u)
    BY <2>1, <2>2, <2>3 DEF HomeFits, Relit, FadingOut, Errors
  <2>10. u.b.state # w.b.state => u.b.state \notin Commands
    BY <2>1, <2>3 DEF Relit, Commands, SaveData
  <2> QED BY <1>0, <1>1, <1>3, <2>1, <2>3, <2>5, <2>6, <2>7, <2>8, <2>9, <2>10
          DEF ResetOutcome, Agree, Swaps, Relit, Untouched
<1> QED BY <1>2, <1>3

LEMMA ResetExecuteIs ==
  ASSUME NEW w, Agree(w)
  PROVE  ResetOutcome(ResetExecute(w), w)
<1>1. w.b.reset \in ResetStates
  BY DEF Agree, Typed
<1> QED BY <1>1, ResetBegins, ResetFades, ResetEnds DEF ResetStates
-----------------------------------------------------------------------------
(* The inductive invariant.                                                *)

\* The scenes go from none to the boot scene to the title; the boot scene asks
\* for the title at the end of its states and outside of a reset, is left alone
\* from then on, and has not begun before it runs.
Route ==
  /\ nextScene \in {BOOT, TITLE, INVALID} /\ nowScene \in {BOOT, TITLE}
  /\ nextScene = BOOT => nowScene = BOOT /\ Alive = {}
  /\ at = "own" => nextScene = INVALID
  /\ nowScene = TITLE => nextScene = INVALID
  /\ nextScene = TITLE \/ nowScene = TITLE =>
       boot.state = "ProcEnd" /\ boot.reset = "ResetWait"
  /\ boot.state # "FadeOutWait" \/ boot.reset # "ResetWait" =>
       nowScene = TITLE \/ nextScene = TITLE \/ In("run") # {}

\* The two managers take turns within the scene's own operation, the reset
\* manager first.
Turns ==
  /\ boot.step # "background" => at = "own" /\ nowScene = BOOT
  /\ boot.step = "stateMgr" /\ boot.softReset => boot.resetting

Warned == Alive = {} \/ nowScene = TITLE => boot.forbid = 0

BootIInv == SceneInv /\ Agree(World) /\ Route /\ Turns /\ Warned

LEMMA ScenesAre == BOOT \in Scenes /\ TITLE \in Scenes /\ TITLE # BOOT
                   /\ INVALID \notin {BOOT, TITLE}
BY BootAssumption, SceneAssumption

LEMMA WorldIs ==
  /\ World.b = boot /\ World.f = fader /\ World.a = autoFadeIn /\ World.m = mode
  /\ DOMAIN World = {"b", "f", "a", "m"}
  /\ World'.b = boot' /\ World'.f = fader' /\ World'.a = autoFadeIn' /\ World'.m = mode'
  /\ DOMAIN World' = {"b", "f", "a", "m"}
BY DEF World

\* The same members: what the rest of the game writes of the boot scene is no
\* member that the invariant is about.
Members(c, b) ==
  /\ DOMAIN c = BootFields
  /\ c.method = b.method /\ c.state = b.state /\ c.reset = b.reset
  /\ c.resetting = b.resetting /\ c.softReset = b.softReset
  /\ c.messageShown = b.messageShown /\ c.strapVisible = b.strapVisible
  /\ c.forbid = b.forbid /\ c.homeOff = b.homeOff /\ c.saveWindow = b.saveWindow

\* The fader and the automatic fade in may move on as the state expects.
LEMMA ShadeAgrees ==
  ASSUME NEW w, Agree(w), NEW v, Members(v.b, w.b), DOMAIN v = {"b", "f", "a", "m"},
         v.f \in Faders, v.a \in BOOLEAN, v.m \in Modes,
         w.a => v.a,
         w.b.state \in FadingOut => v.a = w.a /\ v.f.status \in {"FADE_OUT", "OPAQUE"},
         w.b.reset = "ResetWait" /\ w.b.state \in FadingIn => v.f.status \in {"FADE_IN", "HIDDEN"},
         w.b.reset = "ResetWait" /\ w.b.state \in Lit => v.f.status = "HIDDEN"
  PROVE  Agree(v)
<1>1. Typed(v)
  BY DEF Agree, Typed, IsWorld, Members
<1>2. ResetFits(v) /\ MessageFits(v)
  BY DEF Agree, ResetFits, MessageFits, Members
<1>3. ScreenFits(v) /\ HomeFits(v)
  BY DEF Agree, ScreenFits, HomeFits, Members
<1> QED BY <1>1, <1>2, <1>3 DEF Agree

LEMMA SameAgrees ==
  ASSUME NEW w, Agree(w), NEW v, Members(v.b, w.b), DOMAIN v = {"b", "f", "a", "m"},
         v.f = w.f, v.a = w.a, v.m \in Modes
  PROVE  Agree(v)
<1>1. v.f \in Faders /\ v.a \in BOOLEAN
  BY DEF Agree, Typed, IsWorld
<1>2. w.b.state \in FadingOut => w.f.status \in {"FADE_OUT", "OPAQUE"}
  BY DEF Agree, ScreenFits
<1>3. w.b.reset = "ResetWait" => /\ w.b.state \in FadingIn => w.f.status \in {"FADE_IN", "HIDDEN"}
                                 /\ w.b.state \in Lit => w.f.status = "HIDDEN"
  BY DEF Agree, ScreenFits
<1> QED BY <1>1, <1>2, <1>3, ShadeAgrees

LEMMA RouteKept ==
  ASSUME Route, nextScene' = nextScene, nowScene' = nowScene, Members(boot', boot),
         nextScene = TITLE \/ In("run") \subseteq In("run")',
         nextScene = BOOT => Alive' = {},
         at' = "own" => at = "own" \/ nextScene = INVALID
  PROVE  Route'
BY DEF Route, Members

LEMMA TurnsKept ==
  ASSUME Turns, boot'.step = boot.step,
         boot.step = "background" \/ (at' = at /\ nowScene' = nowScene /\ Members(boot', boot))
  PROVE  Turns'
BY DEF Turns, Members

LEMMA WarnedKept ==
  ASSUME SceneInv, SceneInv', Warned, otherSceneFlg' = otherSceneFlg, nowScene' = nowScene,
         boot'.forbid = boot.forbid
  PROVE  Warned'
BY DEF SceneInv, OneScene, Warned, TypeOK

\* What happens elsewhere between two steps of the frame.
LEMMA ElsewhereKeeps ==
  ASSUME BootIInv, UNCHANGED sceneVars, Members(boot', boot), boot'.step = boot.step
  PROVE  BootIInv'
<1>1. /\ at' = at /\ stage' = stage /\ nextScene' = nextScene /\ nowScene' = nowScene
      /\ otherSceneFlg' = otherSceneFlg /\ autoFadeIn' = autoFadeIn /\ fader' = fader
      /\ mode' = mode
  BY DEF sceneVars, names, fades
<1>2. SceneInv'
  BY InvPreserved DEF BootIInv
<1>3. Agree(World)'
  BY <1>1, WorldIs, SameAgrees DEF BootIInv, Agree, Typed, IsWorld
<1>4. Alive' = Alive /\ In("run")' = In("run")
  BY <1>1, Same
<1>5. Route'
  BY <1>1, <1>4, RouteKept DEF BootIInv, Route
<1>6. Turns'
  BY <1>1, TurnsKept DEF BootIInv
<1>7. Warned'
  BY <1>1, <1>2, WarnedKept DEF BootIInv, Members
<1> QED BY <1>2, <1>3, <1>5, <1>6, <1>7 DEF BootIInv

-----------------------------------------------------------------------------
(* The frame.                                                              *)

\* A frame of the fader ends a fade where it leads, or goes on.
LEMMA CalcLeads ==
  ASSUME NEW f \in Faders
  PROVE  /\ Calc(f) \in Faders
         /\ f.status \in {"FADE_OUT", "OPAQUE"} => Calc(f).status \in {"FADE_OUT", "OPAQUE"}
         /\ f.status \in {"FADE_IN", "HIDDEN"} => Calc(f).status \in {"FADE_IN", "HIDDEN"}
         /\ f.status = "HIDDEN" => Calc(f).status = "HIDDEN"
<1>1. CASE ~Fading(f)
  BY <1>1, CalcIs DEF Calc
<1>2. CASE Fading(f)
  <2> DEFINE st == IF ~FadeEnds(f) THEN f.status
                   ELSE IF f.status = "FADE_IN" THEN "HIDDEN" ELSE "OPAQUE"
             g == [f EXCEPT !.cur = Tick(f), !.status = st]
  <2>1. Calc(f) = g
    BY <1>2 DEF Calc
  <2>2. g.status = st
    BY DEF Faders
  <2> HIDE DEF g
  <2>3. f.status = "FADE_IN" => st \in {"FADE_IN", "HIDDEN"}
    OBVIOUS
  <2>4. f.status = "FADE_OUT" => st \in {"FADE_OUT", "OPAQUE"}
    OBVIOUS
  <2> HIDE DEF st
  <2> QED BY <1>2, <2>1, <2>2, <2>3, <2>4, CalcIs DEF Fading
<1> QED BY <1>1, <1>2

\* A scene object that is not running moves on: what runs still runs.
LEMMA RunsOn ==
  ASSUME TypeOK, NEW s \in Slots, stage[s] # "run", NEW st, Becomes(s, st)
  PROVE  In("run") \subseteq In("run")'
BY DEF In, Becomes, TypeOK

LEMMA Exists ==
  ASSUME NEW s \in Slots, stage[s] # "none"
  PROVE  Alive # {}
BY DEF Alive, In

\* Until the boot scene runs, and when it has asked for the title, its state
\* expects nothing of the screen.
LEMMA AtRest ==
  ASSUME Route, nextScene # INVALID \/ In("run") = {}
  PROVE  /\ boot.state \in Resting /\ boot.reset = "ResetWait"
         /\ boot.state \notin FadingOut \cup FadingIn \cup Lit
<1>1. nextScene = TITLE \/ nowScene = TITLE \/ (In("run") = {} /\ nextScene # TITLE)
  <2>1. nextScene = BOOT => In("run") = {}
    BY DEF Route, Alive, In
  <2> QED BY <2>1 DEF Route
<1>2. boot.state \in Resting /\ boot.reset = "ResetWait"
  BY <1>1 DEF Route, Resting
<1> QED BY <1>2 DEF Resting, FadingOut, FadingIn, Lit

LEMMA RestAgrees ==
  ASSUME Agree(World), Route, nextScene # INVALID \/ In("run") = {}, Members(boot', boot),
         fader' \in Faders, autoFadeIn' \in BOOLEAN, mode' \in Modes, autoFadeIn => autoFadeIn'
  PROVE  Agree(World)'
<1>1. boot.state \notin FadingOut \cup FadingIn \cup Lit
  BY AtRest
<1> QED BY <1>1, WorldIs, ShadeAgrees

\* The steps of the frame that move neither scene names nor the reset manager
\* nor what the managers agree on.
LEMMA QuietFrame ==
  ASSUME BootIInv, SceneInv', Members(boot', boot), boot'.step = boot.step,
         boot.step = "background",
         otherSceneFlg' = otherSceneFlg, nextScene' = nextScene, nowScene' = nowScene,
         Agree(World)',
         nextScene = TITLE \/ In("run") \subseteq In("run")',
         nextScene = BOOT => Alive' = {},
         at' = "own" => nextScene = INVALID
  PROVE  BootIInv'
<1>1. Route'
  BY RouteKept DEF BootIInv
<1>2. Turns'
  BY TurnsKept DEF BootIInv
<1>3. Warned'
  BY WarnedKept DEF BootIInv, Members
<1> QED BY <1>1, <1>2, <1>3 DEF BootIInv

\* What the reset manager does to the boot scene is what it does to any.
LEMMA ResetsAreReset ==
  ASSUME TypeOK, BootResets
  PROVE  Reset
<1>1. mode' \in IF mode = "SAFETY_WAIT" THEN {mode} ELSE Modes
  BY DEF BootResets, TypeOK, Modes
<1> QED BY <1>1 DEF BootResets, Reset, names

LEMMA FrameKeeps ==
  ASSUME BootIInv, BootFrame
  PROVE  BootIInv'
<1>0. /\ SceneInv /\ TypeOK /\ Route /\ Turns /\ Warned /\ Agree(World)
      /\ DOMAIN boot = BootFields /\ boot.forbid \in 0 .. 1
  BY WorldIs DEF BootIInv, SceneInv, Agree, Typed, IsWorld
<1>1. boot' = boot => Members(boot', boot) /\ boot'.step = boot.step
  BY <1>0 DEF Members
<1>2. Frame => SceneInv' /\ TypeOK'
  BY <1>0, InvPreserved DEF Next, SceneInv
<1>3. ASSUME UNCHANGED << fader, autoFadeIn >>, TypeOK', Members(boot', boot)
      PROVE  Agree(World)'
  BY <1>0, <1>3, WorldIs, SameAgrees DEF TypeOK
<1>4. stage' = stage => Alive' = Alive /\ In("run") \subseteq In("run")'
  BY Same
<1>5. nextScene = BOOT => Alive = {}
  BY <1>0 DEF Route
<1>6. at # "own" => boot.step = "background"
  BY <1>0 DEF Turns
<1>7. CASE BootResets
  <2>1. Frame
    BY <1>0, <1>7, ResetsAreReset DEF Frame
  <2>2. /\ at = "reset" /\ at' = "scene" /\ stage' = stage /\ nextScene' = nextScene
        /\ nowScene' = nowScene /\ otherSceneFlg' = otherSceneFlg
        /\ autoFadeIn' = autoFadeIn /\ fader' = fader
    BY <1>7 DEF BootResets, Goes, names, fades
  <2>3. SceneInv' /\ TypeOK'
    BY <1>2, <2>1
  <2>4. CASE boot' = boot
    BY <1>0, <1>1, <1>3, <1>4, <1>5, <1>6, <2>2, <2>3, <2>4, QuietFrame
  <2>5. CASE boot' = [boot EXCEPT !.faults = @ + 1]
    <3>1. Members(boot', boot) /\ boot'.step = boot.step
      BY <1>0, <2>5 DEF Members, BootFields
    <3> QED BY <1>0, <1>3, <1>4, <1>5, <1>6, <2>2, <2>3, <3>1, QuietFrame
  <2>6. CASE boot' = [boot EXCEPT !.softReset = TRUE, !.faults = @ + 1] /\ ~boot.saveWindow
    <3>1. DOMAIN boot' = BootFields /\ boot'.softReset = TRUE
      BY <1>0, <2>6 DEF BootFields
    <3>2. /\ boot'.step = boot.step /\ boot'.method = boot.method /\ boot'.state = boot.state
          /\ boot'.reset = boot.reset /\ boot'.resetting = boot.resetting
          /\ boot'.messageShown = boot.messageShown /\ boot'.strapVisible = boot.strapVisible
          /\ boot'.forbid = boot.forbid /\ boot'.homeOff = boot.homeOff
          /\ boot'.saveWindow = boot.saveWindow
      BY <1>0, <2>6 DEF BootFields
    <3>3. Agree(World')
      <4> DEFINE v == World'
                 w == World
      <4>1. /\ v.b = boot' /\ v.f = fader /\ v.a = autoFadeIn /\ v.m = mode'
            /\ DOMAIN v = {"b", "f", "a", "m"}
            /\ w.b = boot /\ w.f = fader /\ w.a = autoFadeIn
        BY <2>2, WorldIs
      <4> HIDE DEF v, w
      <4>2. Agree(w)
        BY <1>0 DEF w
      <4>3. Typed(v)
        BY <2>3, <3>1, <3>2, <4>1, <4>2 DEF Agree, Typed, IsWorld, TypeOK
      <4>4. ResetFits(v)
        BY <2>6, <3>1, <3>2, <4>1, <4>2 DEF Agree, ResetFits
      <4>5. MessageFits(v) /\ ScreenFits(v) /\ HomeFits(v)
        BY <3>2, <4>1, <4>2 DEF Agree, MessageFits, ScreenFits, HomeFits
      <4>6. Agree(v)
        BY <4>3, <4>4, <4>5 DEF Agree
      <4> QED BY <4>6 DEF v
    <3>4. Route'
      BY <1>0, <1>4, <2>2, <3>2 DEF Route
    <3>5. Turns'
      BY <1>6, <2>2, <3>2 DEF Turns
    <3>6. Warned'
      BY <1>0, <2>2, <2>3, <3>2, WarnedKept
    <3> QED BY <2>3, <3>3, <3>4, <3>5, <3>6 DEF BootIInv
  <2> QED BY <1>7, <2>4, <2>5, <2>6 DEF BootResets
<1>8. CASE PreExecute /\ boot' = [boot EXCEPT !.permitted = TRUE]
  <2>1. SceneInv' /\ TypeOK'
    BY <1>2, <1>8 DEF Frame
  <2>2. /\ at = "execute" /\ at' = "own" /\ stage' = stage /\ nextScene' = nextScene
        /\ nowScene' = nowScene /\ otherSceneFlg' = otherSceneFlg
        /\ autoFadeIn' = autoFadeIn /\ mode' = mode /\ nextScene = INVALID
        /\ fader' = IF fader.status = "OPAQUE" /\ autoFadeIn
                      THEN StartFadeIn(fader, fadeIn) ELSE fader
    BY <1>8 DEF PreExecute, Goes, names
  <2>3. Members(boot', boot) /\ boot'.step = boot.step
    BY <1>0, <1>8 DEF Members, BootFields
  <2>4. /\ boot.state \in FadingOut => ~autoFadeIn /\ fader.status \in {"FADE_OUT", "OPAQUE"}
        /\ boot.reset = "ResetWait" /\ boot.state \in FadingIn =>
             fader.status \in {"FADE_IN", "HIDDEN"}
        /\ boot.reset = "ResetWait" /\ boot.state \in Lit => fader.status = "HIDDEN"
    BY <1>0, WorldIs DEF Agree, ScreenFits
  <2>5. /\ boot.state \in FadingOut => fader' = fader
        /\ boot.reset = "ResetWait" /\ boot.state \in FadingIn \cup Lit => fader' = fader
    BY <2>2, <2>4
  <2>6. Agree(World)'
    BY <1>0, <2>1, <2>2, <2>3, <2>4, <2>5, WorldIs, ShadeAgrees DEF TypeOK
  <2> QED BY <1>0, <1>4, <1>5, <1>6, <2>1, <2>2, <2>3, <2>6, QuietFrame
<1>9. CASE BootDeleted
  <2>1. DeleteScene /\ boot' = [boot EXCEPT !.forbid = IF @ > 0 THEN @ - 1 ELSE 0]
    BY <1>9 DEF BootDeleted
  <2>2. SceneInv' /\ TypeOK'
    BY <1>2, <2>1 DEF Frame
  <2>3. PICK s \in Slots : stage[s] = "delete" /\ Becomes(s, "none")
    BY <2>1 DEF DeleteScene, In
  <2>4. In("run") \subseteq In("run")' /\ Alive # {}
    BY <1>0, <2>3, RunsOn, Exists
  <2>5. /\ at = "delete" /\ at' = "create" /\ nextScene' = nextScene /\ nowScene' = nowScene
        /\ autoFadeIn' = autoFadeIn /\ fader' = fader /\ mode' = mode
    BY <2>1 DEF DeleteScene, Goes, fades
  <2>6. boot'.forbid = 0 /\ DOMAIN boot' = BootFields
    BY <1>0, <2>1 DEF BootFields
  <2>7. /\ boot'.step = boot.step /\ boot'.method = boot.method /\ boot'.state = boot.state
        /\ boot'.reset = boot.reset /\ boot'.resetting = boot.resetting
        /\ boot'.softReset = boot.softReset /\ boot'.messageShown = boot.messageShown
        /\ boot'.strapVisible = boot.strapVisible
        /\ boot'.homeOff = boot.homeOff /\ boot'.saveWindow = boot.saveWindow
    BY <1>0, <2>1 DEF BootFields
  <2>8. Agree(World')
    <3> DEFINE v == World'
               w == World
    <3>1. /\ v.b = boot' /\ v.f = fader /\ v.a = autoFadeIn /\ v.m = mode
          /\ DOMAIN v = {"b", "f", "a", "m"}
          /\ w.b = boot /\ w.f = fader /\ w.a = autoFadeIn /\ w.m = mode
      BY <2>5, WorldIs
    <3> HIDE DEF v, w
    <3>2. Agree(w)
      BY <1>0 DEF w
    <3>3. Typed(v)
      BY <2>6, <2>7, <3>1, <3>2 DEF Agree, Typed, IsWorld
    <3>4. ResetFits(v) /\ MessageFits(v) /\ ScreenFits(v) /\ HomeFits(v)
      BY <2>7, <3>1, <3>2 DEF Agree, ResetFits, MessageFits, ScreenFits, HomeFits
    <3>5. Agree(v)
      BY <3>3, <3>4 DEF Agree
    <3> QED BY <3>5 DEF v
  <2>9. Route'
    BY <1>0, <1>5, <2>4, <2>5, <2>7 DEF Route
  <2>10. Turns' /\ Warned'
    BY <1>6, <2>5, <2>6, <2>7 DEF Turns, Warned
  <2> QED BY <2>2, <2>8, <2>9, <2>10 DEF BootIInv
<1>10. CASE /\ \/ ProcessesReturn \/ (OwnReturn /\ nowScene # BOOT)
               \/ SkipNextScene \/ SkipDelete \/ PhaseWait \/ ChildrenWait
            /\ boot' = boot
  <2>1. /\ stage' = stage /\ nextScene' = nextScene /\ nowScene' = nowScene
        /\ otherSceneFlg' = otherSceneFlg /\ autoFadeIn' = autoFadeIn /\ fader' = fader
        /\ at' # "own" /\ (at # "own" \/ nowScene # BOOT)
    BY <1>10 DEF ProcessesReturn, OwnReturn, SkipNextScene, SkipDelete, PhaseWait, ChildrenWait,
                 Goes, names, fades
  <2>2. SceneInv' /\ TypeOK'
    BY <1>2, <1>10 DEF Frame
  <2>3. boot.step = "background"
    BY <1>0, <2>1 DEF Turns
  <2> QED BY <1>0, <1>1, <1>3, <1>4, <1>5, <1>10, <2>1, <2>2, <2>3, QuietFrame
<1>11. CASE CreateNextScene /\ boot' = boot
  <2>1. SceneInv' /\ TypeOK'
    BY <1>2, <1>11 DEF Frame
  <2>2. /\ at = "scene" /\ at' = "delete" /\ nextScene # INVALID /\ Alive = {}
        /\ nowScene' = nextScene /\ nextScene' = INVALID
        /\ autoFadeIn' = TRUE /\ fader' = fader
    BY <1>0, <1>11 DEF CreateNextScene, NoNextScene, Goes, SceneInv, OneScene
  <2>3. Members(boot', boot)
    BY <1>1, <1>11
  <2>4. Agree(World)'
    BY <1>0, <2>1, <2>2, <2>3, RestAgrees DEF TypeOK
  <2>5. In("run") = {}
    BY <2>2 DEF Alive, In
  <2>6. nextScene = BOOT => boot.state = "FadeOutWait" /\ boot.reset = "ResetWait"
    BY <1>0, <2>5, ScenesAre DEF Route
  <2>7. Route'
    BY <1>0, <1>11, <2>2, <2>6, ScenesAre DEF Route
  <2>8. Turns' /\ Warned'
    BY <1>0, <1>6, <1>11, <2>2 DEF Turns, Warned
  <2> QED BY <2>1, <2>4, <2>7, <2>8 DEF BootIInv
<1>12. CASE SkipCreate /\ boot' = boot
  <2>1. SceneInv' /\ TypeOK'
    BY <1>2, <1>12 DEF Frame
  <2>2. /\ at = "create" /\ at' = "execute" /\ stage' = stage /\ nextScene' = nextScene
        /\ nowScene' = nowScene /\ otherSceneFlg' = otherSceneFlg /\ fader' = fader
        /\ autoFadeIn' = (autoFadeIn \/ In("create") # {})
    BY <1>12 DEF SkipCreate, Goes, names
  <2>3. CASE In("create") = {}
    <3>1. autoFadeIn' = autoFadeIn
      BY <1>0, <2>2, <2>3 DEF TypeOK
    <3> QED BY <1>0, <1>1, <1>3, <1>4, <1>5, <1>6, <1>12, <2>1, <2>2, <3>1, QuietFrame
  <2>4. CASE In("create") # {}
    <3>1. PICK s \in Slots : stage[s] = "create"
      BY <2>4 DEF In
    <3>2. In("run") = {}
      BY <1>0, <3>1, Sole DEF Stages, SceneInv
    <3>3. Agree(World)'
      BY <1>0, <1>1, <1>12, <2>1, <2>2, <3>2, RestAgrees DEF TypeOK
    <3> QED BY <1>0, <1>1, <1>4, <1>5, <1>6, <1>12, <2>1, <2>2, <3>3, QuietFrame
  <2> QED BY <2>3, <2>4
<1>13. CASE CreateScene /\ boot' = boot
  <2>1. SceneInv' /\ TypeOK'
    BY <1>2, <1>13 DEF Frame
  <2>2. /\ at = "create" /\ at' = "execute" /\ nextScene' = nextScene
        /\ nowScene' = nowScene /\ otherSceneFlg' = otherSceneFlg /\ fader' = fader
        /\ autoFadeIn' = TRUE
    BY <1>13 DEF CreateScene, Goes, names
  <2>3. PICK s \in Slots : stage[s] = "create" /\ Becomes(s, "phase")
    BY <1>13 DEF CreateScene, In
  <2>4. In("run") = {}
    BY <1>0, <2>3, Sole DEF Stages, SceneInv
  <2>5. In("run") \subseteq In("run")' /\ Alive # {}
    BY <1>0, <2>3, RunsOn, Exists
  <2>6. Agree(World)'
    BY <1>0, <1>1, <1>13, <2>1, <2>2, <2>4, RestAgrees DEF TypeOK
  <2> QED BY <1>0, <1>1, <1>5, <1>6, <1>13, <2>1, <2>2, <2>5, <2>6, QuietFrame
<1>14. CASE (PhaseDone \/ ChildrenCreated) /\ boot' = boot
  <2>1. SceneInv' /\ TypeOK'
    BY <1>2, <1>14 DEF Frame
  <2>2. /\ at = "execute" /\ at' # "own" /\ nextScene' = nextScene
        /\ nowScene' = nowScene /\ otherSceneFlg' = otherSceneFlg /\ fader' = fader
        /\ autoFadeIn' = autoFadeIn
    BY <1>14 DEF PhaseDone, ChildrenCreated, Goes, names, fades
  <2>3. PICK s \in Slots, st \in Stages : stage[s] \in {"phase", "children"} /\ Becomes(s, st)
    BY <1>14 DEF PhaseDone, ChildrenCreated, In, Stages
  <2>4. In("run") \subseteq In("run")' /\ Alive # {}
    BY <1>0, <2>3, RunsOn, Exists
  <2> QED BY <1>0, <1>1, <1>3, <1>5, <1>6, <1>14, <2>1, <2>2, <2>4, QuietFrame
<1>15. CASE PrepareNextScene /\ boot' = boot
  <2>1. SceneInv' /\ TypeOK'
    BY <1>2, <1>15 DEF Frame
  <2>2. /\ at = "execute" /\ at' = "processes" /\ nextScene' = nextScene
        /\ nowScene' = nowScene /\ otherSceneFlg' = otherSceneFlg
        /\ autoFadeIn' = autoFadeIn /\ nextScene # INVALID
    BY <1>15 DEF PrepareNextScene, Goes, names
  <2>3. PICK s \in Slots : stage[s] \in {"children", "run"}
    BY <1>15 DEF PrepareNextScene, In
  <2>4. nextScene = TITLE
    BY <1>0, <2>2, <2>3, Exists DEF Route
  <2>5. Agree(World)'
    BY <1>0, <1>1, <1>15, <2>1, <2>2, RestAgrees DEF TypeOK
  <2> QED BY <1>0, <1>1, <1>6, <1>15, <2>1, <2>2, <2>4, <2>5, ScenesAre, QuietFrame
<1>16. CASE Connect /\ boot' = boot
  <2>1. SceneInv' /\ TypeOK'
    BY <1>2, <1>16 DEF Frame
  <2>2. /\ at = "connect" /\ at' = "calc" /\ nextScene' = nextScene
        /\ nowScene' = nowScene /\ otherSceneFlg' = otherSceneFlg /\ fader' = fader
        /\ autoFadeIn' = autoFadeIn
        /\ stage' = [s \in Slots |-> IF stage[s] = "leaving" THEN "delete" ELSE stage[s]]
    BY <1>16 DEF Connect, Goes, names, fades
  <2>3. In("run") \subseteq In("run")'
    BY <2>2 DEF In
  <2>4. nextScene = BOOT => Alive' = {}
    BY <1>5, <2>2 DEF Alive, In
  <2> QED BY <1>0, <1>1, <1>3, <1>6, <1>16, <2>1, <2>2, <2>3, <2>4, QuietFrame
<1>17. CASE FaderCalc /\ boot' = boot
  <2>1. SceneInv' /\ TypeOK'
    BY <1>2, <1>17 DEF Frame
  <2>2. /\ at = "calc" /\ at' = "reset" /\ stage' = stage /\ nextScene' = nextScene
        /\ nowScene' = nowScene /\ otherSceneFlg' = otherSceneFlg /\ autoFadeIn' = autoFadeIn
        /\ mode' = mode /\ fader' = Calc(fader)
    BY <1>17 DEF FaderCalc, Goes, names
  <2>3. /\ boot.state \in FadingOut => fader.status \in {"FADE_OUT", "OPAQUE"}
        /\ boot.reset = "ResetWait" /\ boot.state \in FadingIn =>
             fader.status \in {"FADE_IN", "HIDDEN"}
        /\ boot.reset = "ResetWait" /\ boot.state \in Lit => fader.status = "HIDDEN"
    BY <1>0, WorldIs DEF Agree, ScreenFits
  <2>4. /\ boot.state \in FadingOut => fader'.status \in {"FADE_OUT", "OPAQUE"}
        /\ boot.reset = "ResetWait" /\ boot.state \in FadingIn =>
             fader'.status \in {"FADE_IN", "HIDDEN"}
        /\ boot.reset = "ResetWait" /\ boot.state \in Lit => fader'.status = "HIDDEN"
    BY <1>0, <2>2, <2>3, CalcLeads DEF TypeOK
  <2>5. Agree(World)'
    BY <1>0, <1>1, <1>17, <2>1, <2>2, <2>4, WorldIs, ShadeAgrees DEF TypeOK
  <2> QED BY <1>0, <1>1, <1>4, <1>5, <1>6, <1>17, <2>1, <2>2, <2>5, QuietFrame
<1> QED BY <1>7, <1>8, <1>9, <1>10, <1>11, <1>12, <1>13, <1>14, <1>15, <1>16, <1>17
        DEF BootFrame

-----------------------------------------------------------------------------
(* The scene's own operation, and the rest of the game.                    *)
LEMMA BackgroundIs ==
  /\ Len(Background) = 7
  /\ \A i \in 1 .. 7 : Background[i] = "windowReady" => i = 2
BY DEF Background

\* A call writes the step that comes next; what it has agreed on is committed.
LEMMA Committed ==
  ASSUME NEW v, Agree(v), NEW x, NEW u, u = [v EXCEPT !.b.step = x], Commit(u)
  PROVE  /\ Agree(World)' /\ Members(boot', v.b) /\ boot'.step = x
         /\ boot'.infoVisible = v.b.infoVisible
         /\ fader' = v.f /\ autoFadeIn' = v.a /\ mode' = v.m
         /\ fader' \in Faders /\ autoFadeIn' \in BOOLEAN /\ mode' \in Modes
<1>1. IsWorld(v)
  BY DEF Agree, Typed
<1>2. Members(u.b, v.b) /\ u.b.step = x /\ u.b.infoVisible = v.b.infoVisible
  BY <1>1 DEF IsWorld, BootFields, Members
<1>3. u.f = v.f /\ u.a = v.a /\ u.m = v.m
  BY <1>1 DEF IsWorld
<1>4. boot' = u.b /\ fader' = u.f /\ autoFadeIn' = u.a /\ mode' = u.m
  BY DEF Commit
<1>5. v.f \in Faders /\ v.a \in BOOLEAN /\ v.m \in Modes
  BY <1>1 DEF IsWorld
<1>6. Agree(World')
  BY <1>2, <1>3, <1>4, <1>5, WorldIs, SameAgrees
<1> QED BY <1>2, <1>3, <1>4, <1>5, <1>6

LEMMA ResetMgrKeeps ==
  ASSUME BootIInv, RunResetMgr
  PROVE  /\ BootIInv' /\ Swaps(World', World)
         /\ boot'.state # boot.state => boot'.state \notin Commands
<1> DEFINE v == ResetExecute(World)
           u == [v EXCEPT !.b.step = "stateMgr"]
<1>1. ResetOutcome(v, World)
  BY ResetExecuteIs DEF BootIInv
<1>2. Commit(u) /\ stage' = stage /\ at' = at /\ at = "own" /\ nowScene = BOOT
      /\ nextScene' = nextScene /\ nowScene' = nowScene /\ otherSceneFlg' = otherSceneFlg
      /\ fadeIn' = fadeIn /\ fadeOut' = fadeOut
  BY DEF RunResetMgr, BootRuns, names
<1> HIDE DEF v
<1>3. Agree(v)
  BY <1>1 DEF ResetOutcome
<1>4. /\ Agree(World)' /\ Members(boot', v.b) /\ boot'.step = "stateMgr"
      /\ boot'.infoVisible = v.b.infoVisible
      /\ fader' \in Faders /\ autoFadeIn' \in BOOLEAN /\ mode' \in Modes
  BY <1>2, <1>3, Committed
<1>5. nextScene = INVALID /\ In("run") # {}
  BY <1>2 DEF BootIInv, Route, SceneInv, Dark
<1>6. Alive' = Alive /\ In("run")' = In("run") /\ Alive # {}
  BY <1>2, <1>5, Same DEF In, Alive
<1>7. SceneInv'
  <2>1. TypeOK'
    BY <1>2, <1>4 DEF BootIInv, SceneInv, TypeOK
  <2> QED BY <1>2, <1>5, <2>1, Stays DEF BootIInv
<1>8. Route'
  BY <1>2, <1>5, <1>6, ScenesAre DEF BootIInv, Route
<1>9. Turns'
  BY <1>1, <1>2, <1>4 DEF ResetOutcome, Turns, Members
<1>10. Warned'
  BY <1>2, <1>6, ScenesAre DEF Warned
<1>11. Swaps(World', World)
  BY <1>1, <1>4, WorldIs DEF ResetOutcome, Swaps, Members
<1>12. boot'.state # boot.state => boot'.state \notin Commands
  BY <1>1, <1>4, WorldIs DEF ResetOutcome, Members
<1> QED BY <1>4, <1>7, <1>8, <1>9, <1>10, <1>11, <1>12 DEF BootIInv

LEMMA StateMgrKeeps ==
  ASSUME BootIInv, RunStateMgr
  PROVE  /\ BootIInv' /\ Swaps(World', World)
         /\ boot'.state # boot.state /\ boot'.state \in Commands => ~boot.nandBusy
<1>1. PICK key \in BOOLEAN :
        Commit([(IF boot.resetting THEN World ELSE Execute(World, key))
                  EXCEPT !.b.step = "background"])
  BY DEF RunStateMgr
<1> DEFINE v == IF boot.resetting THEN World ELSE Execute(World, key)
           u == [v EXCEPT !.b.step = "background"]
<1>2. Commit(u) /\ stage' = stage /\ at' = "processes" /\ at = "own" /\ nowScene = BOOT
      /\ nowScene' = nowScene /\ otherSceneFlg' = otherSceneFlg
      /\ fadeIn' = fadeIn /\ fadeOut' = fadeOut /\ boot.step = "stateMgr"
  BY <1>1 DEF RunStateMgr, BootRuns, Goes
<1>3. \/ nextScene' = nextScene
      \/ nextScene' = TITLE /\ ~boot.resetting /\ boot.state = "ProcEnd"
  BY DEF RunStateMgr, SetNextScene
<1>4. ~boot.resetting => Runs(World)
  <2>1. ~boot.resetting => boot.reset = "ResetWait" /\ ~boot.softReset
    BY <1>2, WorldIs DEF BootIInv, Agree, ResetFits, Turns
  <2> QED BY <2>1, WorldIs DEF Runs, BootIInv
<1>5. ~boot.resetting => Outcome(v, World)
  BY <1>4, ExecuteIs
<1>6. Agree(v) /\ Swaps(v, World)
      /\ (v.b.state # boot.state /\ v.b.state \in Commands => ~boot.nandBusy)
  <2>1. CASE boot.resetting
    BY <2>1, WorldIs DEF BootIInv, Swaps
  <2>2. CASE ~boot.resetting
    BY <1>5, <2>2, WorldIs DEF Outcome
  <2> QED BY <2>1, <2>2
<1>7. ~boot.resetting /\ boot.state = "ProcEnd" => v = World
  BY WorldIs DEF Execute, ExecuteMessages, Screens, SaveData
<1> HIDE DEF v
<1>8. /\ Agree(World)' /\ Members(boot', v.b) /\ boot'.step = "background"
      /\ boot'.infoVisible = v.b.infoVisible
      /\ fader' \in Faders /\ autoFadeIn' \in BOOLEAN /\ mode' \in Modes
  BY <1>2, <1>6, Committed
<1>9. nextScene = INVALID /\ In("run") # {}
  BY <1>2 DEF BootIInv, Route, SceneInv, Dark
<1>10. Alive' = Alive /\ In("run")' = In("run") /\ Alive # {}
  BY <1>2, <1>9, Same DEF In, Alive
<1>11. SceneInv'
  <2>1. TypeOK'
    BY <1>2, <1>3, <1>8, ScenesAre DEF BootIInv, SceneInv, TypeOK, Parts
  <2> QED BY <1>2, <1>9, <2>1, Stays DEF BootIInv
<1>12. Route'
  <2>1. nextScene' = TITLE => boot'.state = "ProcEnd" /\ boot'.reset = "ResetWait"
    <3>1. nextScene' = TITLE => ~boot.resetting /\ boot.state = "ProcEnd" /\ v = World
      BY <1>3, <1>7, <1>9, ScenesAre
    <3>2. ~boot.resetting => boot.reset = "ResetWait"
      BY WorldIs DEF BootIInv, Agree, ResetFits
    <3> QED BY <1>8, <3>1, <3>2, WorldIs DEF Members
  <2> QED BY <1>2, <1>3, <1>9, <1>10, <2>1, ScenesAre DEF BootIInv, Route
<1>13. Turns'
  BY <1>8 DEF Turns
<1>14. Warned'
  BY <1>2, <1>10, ScenesAre DEF Warned
<1>15. Swaps(World', World)
  BY <1>6, <1>8, WorldIs DEF Swaps, Members
<1>16. boot'.state # boot.state /\ boot'.state \in Commands => ~boot.nandBusy
  BY <1>6, <1>8 DEF Members
<1> QED BY <1>8, <1>11, <1>12, <1>13, <1>14, <1>15, <1>16 DEF BootIInv

\* A background method ends; the first of them forbids warnings.
LEMMA MethodKeeps ==
  ASSUME BootIInv, MethodOk
  PROVE  BootIInv'
<1>0. /\ SceneInv /\ TypeOK /\ Route /\ Turns /\ Warned /\ Agree(World)
      /\ DOMAIN boot = BootFields /\ boot.method \in 1 .. 8
      /\ boot.forbid \in 0 .. 1 /\ (boot.forbid = 1 => boot.method > 2)
  BY WorldIs, BackgroundIs DEF BootIInv, SceneInv, Agree, Typed, IsWorld, Methods
<1>1. UNCHANGED sceneVars /\ ~MethodsDone
      /\ boot' = [boot EXCEPT !.method = @ + 1, !.forbid = @ + MethodForbids]
  BY DEF MethodOk
<1>2. /\ at' = at /\ stage' = stage /\ nextScene' = nextScene /\ nowScene' = nowScene
      /\ otherSceneFlg' = otherSceneFlg /\ autoFadeIn' = autoFadeIn /\ fader' = fader
      /\ mode' = mode
  BY <1>1 DEF sceneVars, names, fades
<1>3. boot.method \in 1 .. 7
  BY <1>0, <1>1, BackgroundIs DEF MethodsDone
<1>4. MethodForbids \in 0 .. 1 /\ (MethodForbids = 1 => boot.method = 2)
  BY <1>3, BackgroundIs DEF MethodForbids
<1>5. /\ DOMAIN boot' = BootFields /\ boot'.method = boot.method + 1
      /\ boot'.forbid = boot.forbid + MethodForbids
  BY <1>0, <1>1 DEF BootFields
<1>6. /\ boot'.step = boot.step /\ boot'.state = boot.state
      /\ boot'.reset = boot.reset /\ boot'.resetting = boot.resetting
      /\ boot'.softReset = boot.softReset /\ boot'.messageShown = boot.messageShown
      /\ boot'.strapVisible = boot.strapVisible
      /\ boot'.homeOff = boot.homeOff /\ boot'.saveWindow = boot.saveWindow
  BY <1>0, <1>1 DEF BootFields
<1>7. boot'.method \in 1 .. 8 /\ boot'.forbid \in 0 .. 1
      /\ (boot'.forbid = 1 => boot'.method > 2)
  BY <1>0, <1>3, <1>4, <1>5
<1>8. SceneInv'
  BY <1>0, <1>1, InvPreserved
<1>9. Agree(World')
  <2> DEFINE v == World'
             w == World
  <2>1. /\ v.b = boot' /\ v.f = fader /\ v.a = autoFadeIn /\ v.m = mode
        /\ DOMAIN v = {"b", "f", "a", "m"}
        /\ w.b = boot /\ w.f = fader /\ w.a = autoFadeIn /\ w.m = mode
    BY <1>2, WorldIs
  <2> HIDE DEF v, w
  <2>2. Agree(w)
    BY <1>0 DEF w
  <2>3. Typed(v)
    BY <1>5, <1>6, <1>7, <2>1, <2>2, BackgroundIs DEF Agree, Typed, IsWorld, Methods
  <2>4. ResetFits(v) /\ MessageFits(v) /\ ScreenFits(v) /\ HomeFits(v)
    BY <1>6, <2>1, <2>2 DEF Agree, ResetFits, MessageFits, ScreenFits, HomeFits
  <2>5. Agree(v)
    BY <2>3, <2>4 DEF Agree
  <2> QED BY <2>5 DEF v
<1>10. Alive' = Alive /\ In("run")' = In("run")
  BY <1>2, Same
<1>11. Route' /\ Turns'
  BY <1>0, <1>2, <1>6, <1>10 DEF Route, Turns
<1>12. Warned'
  <2>1. nowScene = BOOT /\ Alive # {}
    <3>1. nowScene = BOOT /\ (In("run") # {} \/ In("delete") # {})
      BY <1>0 DEF MethodOk, BootRuns, BootLeaves, SceneInv, Dark
    <3> QED BY <3>1 DEF In, Alive
  <2> QED BY <1>2, <1>10, <2>1, ScenesAre DEF Warned
<1> QED BY <1>8, <1>9, <1>11, <1>12 DEF BootIInv

\* A background method waits: the reset manager has its turn.
LEMMA WaitKeeps ==
  ASSUME BootIInv, MethodWait
  PROVE  BootIInv'
<1>0. Route /\ Turns /\ Agree(World) /\ DOMAIN boot = BootFields
  BY WorldIs DEF BootIInv, Agree, Typed, IsWorld
<1>1. UNCHANGED sceneVars /\ at = "own" /\ nowScene = BOOT
      /\ boot' = [boot EXCEPT !.step = "resetMgr"]
  BY DEF MethodWait, BootRuns, Step
<1>2. Members(boot', boot) /\ boot'.step = "resetMgr"
  BY <1>0, <1>1 DEF Members, BootFields
<1>3. /\ at' = at /\ stage' = stage /\ nextScene' = nextScene /\ nowScene' = nowScene
      /\ otherSceneFlg' = otherSceneFlg /\ autoFadeIn' = autoFadeIn /\ fader' = fader
      /\ mode' = mode
  BY <1>1 DEF sceneVars, names, fades
<1>4. SceneInv'
  BY <1>1, InvPreserved DEF BootIInv
<1>5. Agree(World)'
  BY <1>0, <1>2, <1>3, WorldIs, SameAgrees DEF Agree, Typed, IsWorld
<1>6. Alive' = Alive /\ In("run")' = In("run")
  BY <1>3, Same
<1>7. Route'
  BY <1>0, <1>2, <1>3, <1>6, RouteKept DEF Route
<1>8. Turns'
  BY <1>1, <1>2, <1>3 DEF Turns
<1>9. Warned'
  BY <1>2, <1>3, <1>4, WarnedKept DEF BootIInv, Members
<1> QED BY <1>4, <1>5, <1>7, <1>8, <1>9 DEF BootIInv

\* What the reset manager, the NAND thread, the windows and the player do.
Outside ==
  ResetBlank \/ CreateInfo \/ NandEnds \/ WindowNotices \/ WindowStops \/ WarningClosed

LEMMA OutsideIs ==
  ASSUME DOMAIN boot = BootFields, Outside
  PROVE  UNCHANGED sceneVars /\ Members(boot', boot) /\ boot'.step = boot.step
         /\ boot'.infoVisible = boot.infoVisible
<1>1. CASE ResetBlank
  BY <1>1 DEF ResetBlank, Elsewhere, Members, BootFields
<1>2. CASE CreateInfo
  BY <1>2 DEF CreateInfo, Elsewhere, Members, BootFields
<1>3. CASE NandEnds
  <2>1. PICK e \in {"none", "retry", "fatal"}, found \in BOOLEAN :
          Elsewhere([boot EXCEPT !.nandBusy = FALSE, !.nandError = e,
                       !.fileExists = IF boot.state = "ExistFileCheck" THEN found ELSE @,
                       !.faults = IF e = "none" THEN @ ELSE @ + 1])
    BY <1>3 DEF NandEnds
  <2> QED BY <2>1 DEF Elsewhere, Members, BootFields
<1>4. CASE WindowNotices
  BY <1>4 DEF WindowNotices, Elsewhere, Members, BootFields
<1>5. CASE WindowStops
  BY <1>5 DEF WindowStops, Elsewhere, Members, BootFields
<1>6. CASE WarningClosed
  BY <1>6 DEF WarningClosed, Elsewhere, Members, BootFields
<1> QED BY <1>1, <1>2, <1>3, <1>4, <1>5, <1>6 DEF Outside

\* Only the two managers move the states and swap the screens.
Kept ==
  /\ boot'.state = boot.state /\ boot'.strapVisible = boot.strapVisible
  /\ boot'.infoVisible = boot.infoVisible

LEMMA OthersKeep ==
  ASSUME DOMAIN boot = BootFields,
         BootFrame \/ MethodOk \/ MethodWait \/ Outside \/ UNCHANGED bootVars
  PROVE  Kept
<1>1. CASE BootFrame
  <2>1. CASE BootResets
    BY <1>1, <2>1 DEF BootResets, Kept, BootFields
  <2>2. CASE BootDeleted
    BY <1>1, <2>2 DEF BootDeleted, Kept, BootFields
  <2>3. CASE boot' = [boot EXCEPT !.permitted = TRUE]
    BY <1>1, <2>3 DEF Kept, BootFields
  <2>4. CASE boot' = boot
    BY <2>4 DEF Kept
  <2> QED BY <1>1, <2>1, <2>2, <2>3, <2>4 DEF BootFrame
<1>2. CASE MethodOk
  <2>1. boot' = [boot EXCEPT !.method = @ + 1, !.forbid = @ + MethodForbids]
    BY <1>2 DEF MethodOk
  <2> QED BY <2>1 DEF Kept, BootFields
<1>3. CASE MethodWait
  BY <1>3 DEF MethodWait, Step, Kept, BootFields
<1>4. CASE Outside
  BY <1>4, OutsideIs DEF Kept, Members
<1>5. CASE UNCHANGED bootVars
  BY <1>5 DEF bootVars, Kept
<1> QED BY <1>1, <1>2, <1>3, <1>4, <1>5

\* What a step may never do: swap the screens in the light, and give a command
\* to a thread that has not finished the last one.
StepSwaps ==
  << boot.strapVisible, boot.infoVisible >>' # << boot.strapVisible, boot.infoVisible >>
    => fader.status = "OPAQUE"
StepCommands ==
  boot'.state # boot.state /\ boot'.state \in SaveData \ {"NandCommandEndWait"}
    => ~boot.nandBusy

LEMMA BootStepKeeps ==
  ASSUME BootIInv, [BootNext]_bootVars
  PROVE  BootIInv' /\ StepSwaps /\ StepCommands
<1>0. DOMAIN boot = BootFields
  BY WorldIs DEF BootIInv, Agree, Typed, IsWorld
<1>1. CASE RunResetMgr
  BY <1>1, ResetMgrKeeps, WorldIs DEF Swaps, StepSwaps, StepCommands, Commands
<1>2. CASE RunStateMgr
  BY <1>2, StateMgrKeeps, WorldIs DEF Swaps, StepSwaps, StepCommands, Commands
<1>3. CASE BootFrame \/ MethodOk \/ MethodWait \/ Outside \/ UNCHANGED bootVars
  <2>1. StepSwaps /\ StepCommands
    BY <1>0, <1>3, OthersKeep DEF Kept, StepSwaps, StepCommands
  <2>2. CASE BootFrame
    BY <2>1, <2>2, FrameKeeps
  <2>3. CASE MethodOk
    BY <2>1, <2>3, MethodKeeps
  <2>4. CASE MethodWait
    BY <2>1, <2>4, WaitKeeps
  <2>5. CASE Outside
    BY <1>0, <2>1, <2>5, OutsideIs, ElsewhereKeeps
  <2>6. CASE UNCHANGED bootVars
    <3>1. UNCHANGED sceneVars /\ Members(boot', boot) /\ boot'.step = boot.step
      BY <1>0, <2>6 DEF bootVars, Members
    <3> QED BY <2>1, <3>1, ElsewhereKeeps
  <2> QED BY <1>3, <2>2, <2>3, <2>4, <2>5, <2>6
<1> QED BY <1>1, <1>2, <1>3 DEF BootNext, Outside

-----------------------------------------------------------------------------
(* The theorems.                                                           *)
LEMMA BootStarts ==
  ASSUME BootInit
  PROVE  BootIInv
<1>1. SceneInv
  BY InitInv DEF BootInit
<1>2. PICK busy \in BOOLEAN :
     boot = [ step |-> "background", method |-> 1,
              state |-> "FadeOutWait", reset |-> "ResetWait", resetting |-> FALSE,
              fadeStarted |-> FALSE, faderDone |-> FALSE,
              newFile |-> FALSE, messageShown |-> FALSE,
              auto |-> 0, min |-> 0,
              strapVisible |-> TRUE, infoVisible |-> FALSE, infoCreated |-> FALSE,
              window |-> "closed", warning |-> "none", error |-> "none", forbid |-> 0,
              homeOff |-> FALSE, saveWindow |-> FALSE,
              softReset |-> FALSE, blank |-> FALSE, permitted |-> FALSE,
              nandBusy |-> busy, nandError |-> "none", fileExists |-> FALSE,
              faults |-> 0 ]
  BY DEF BootInit
<1>3. DOMAIN boot = BootFields
  BY <1>2 DEF BootFields
<1>4. /\ boot.step = "background" /\ boot.method = 1 /\ boot.state = "FadeOutWait"
      /\ boot.reset = "ResetWait" /\ boot.resetting = FALSE /\ boot.messageShown = FALSE
      /\ boot.strapVisible = TRUE /\ boot.forbid = 0 /\ boot.homeOff = FALSE
      /\ boot.saveWindow = FALSE /\ boot.softReset = FALSE
  BY <1>2
<1>5. /\ at = "reset" /\ nextScene = BOOT /\ nowScene = BOOT /\ autoFadeIn = TRUE
      /\ stage = [s \in Slots |-> "none"]
  BY DEF BootInit, Init
<1>6. Alive = {} /\ In("run") = {}
  BY <1>5 DEF Alive, In
<1>7. Agree(World)
  <2>1. IsWorld(World)
    BY <1>1, <1>3, WorldIs DEF IsWorld, SceneInv, TypeOK
  <2>2. Typed(World)
    <3>1. boot.method \in Methods
      BY <1>4, BackgroundIs DEF Methods
    <3>2. boot.state \in BootStates /\ boot.reset \in ResetStates
      BY <1>4 DEF BootStates, Screens, ResetStates
    <3>3. boot.forbid \in 0 .. 1 /\ boot.forbid # 1
      BY <1>4
    <3>4. boot.strapVisible \in BOOLEAN
      BY <1>4, Zenon
    <3> DEFINE w == World
    <3>5. w.b = boot
      BY WorldIs
    <3>6. IsWorld(w)
      BY <2>1
    <3> HIDE DEF w
    <3>7. Typed(w)
      BY <3>1, <3>2, <3>3, <3>4, <3>5, <3>6 DEF Typed
    <3> QED BY <3>7 DEF w
  <2>3. ResetFits(World) /\ MessageFits(World)
    BY <1>4, WorldIs DEF ResetFits, MessageFits
  <2>4. ScreenFits(World) /\ HomeFits(World)
    BY <1>4, <1>5, WorldIs DEF ScreenFits, HomeFits, Lit, FadingOut, FadingIn, Resting
  <2> QED BY <2>2, <2>3, <2>4 DEF Agree
<1>8. Route
  BY <1>4, <1>5, <1>6, ScenesAre DEF Route
<1>9. Turns /\ Warned
  BY <1>4 DEF Turns, Warned
<1> QED BY <1>1, <1>7, <1>8, <1>9 DEF BootIInv

\* The type invariant of the two managers' world, the fade that every waiting
\* state expects, and the places of the calls in the frame hold throughout:
\* the inductive invariant behind the theorems below.
THEOREM BootInductive == BootSpec => []BootIInv
<1>1. BootInit => BootIInv
  BY BootStarts
<1>2. BootIInv /\ [BootNext]_bootVars => BootIInv'
  BY BootStepKeeps
<1> QED BY <1>1, <1>2, PTL DEF BootSpec

\* Whatever the two managers do with the fader, what the scenes rely on holds
\* (SceneInv), warnings are forbidden once at most, and the title finds the
\* home menu, the save window's flag, the automatic fade in and the warnings
\* as the boot scene found them: LeavesNothingForbidden.
THEOREM BootInvariant == BootSpec => []BootInv
<1>1. BootIInv => BootInv
  <2> SUFFICES ASSUME BootIInv PROVE BootInv
    OBVIOUS
  <2>1. boot.forbid \in 0 .. 1
    BY WorldIs DEF BootIInv, Agree, Typed
  <2>2. nextScene = TITLE => ~boot.homeOff /\ ~boot.saveWindow /\ autoFadeIn
    <3>1. nextScene = TITLE => boot.state = "ProcEnd" /\ boot.reset = "ResetWait"
      BY DEF BootIInv, Route
    <3> QED BY <3>1, WorldIs DEF BootIInv, Agree, HomeFits, FadingOut, FadingIn
  <2>3. nowScene = TITLE => boot.forbid = 0
    BY DEF BootIInv, Warned
  <2> QED BY <2>1, <2>2, <2>3 DEF BootIInv, BootInv, LeavesNothingForbidden
<1> QED BY <1>1, BootInductive, PTL

\* A state that waits for the fader is never forgotten: outside of a reset the
\* fade that its execute operation waits for is under way or has ended.
THEOREM BootFades == BootSpec => []WaitsForAComingFade
<1>1. BootIInv => WaitsForAComingFade
  BY WorldIs DEF BootIInv, Agree, ScreenFits, WaitsForAComingFade, FadingOut, FadingIn
<1> QED BY <1>1, BootInductive, PTL

\* No step of either manager, of the frame or of what runs beside it swaps the
\* strap screen and the controller information in view of the player.
THEOREM BootSwaps == BootSpec => SwapBehindScreen
<1>1. BootIInv /\ [BootNext]_bootVars =>
        [ << boot.strapVisible, boot.infoVisible >>' # << boot.strapVisible, boot.infoVisible >>
            => fader.status = "OPAQUE" ]_bootVars
  BY BootStepKeeps DEF StepSwaps
<1> QED BY <1>1, BootInductive, PTL DEF BootSpec, SwapBehindScreen

\* A state that begins with a NAND command is entered only when the thread has
\* finished the last one, from mStateMgr and from a reset alike.
THEOREM BootCommands == BootSpec => NandCommandWhenIdle
<1>1. BootIInv /\ [BootNext]_bootVars =>
        [ boot'.state # boot.state
            /\ boot'.state \in SaveData \ {"NandCommandEndWait"}
            => ~boot.nandBusy ]_bootVars
  BY BootStepKeeps DEF StepCommands
<1> QED BY <1>1, BootInductive, PTL DEF BootSpec, NandCommandWhenIdle

-----------------------------------------------------------------------------
(* The refinement.                                                         *)
LEMMA BootStepRefines ==
  ASSUME BootIInv, BootIInv', [BootNext]_bootVars
  PROVE  [SC!Next]_(SC!vars)
<1>0. SceneInv /\ TypeOK /\ TypeOK' /\ DOMAIN boot = BootFields
  BY WorldIs DEF BootIInv, SceneInv, Agree, Typed, IsWorld
<1>1. CASE BootFrame
  <2>1. Next
    BY <1>0, <1>1, ResetsAreReset DEF BootFrame, BootDeleted, Frame, Next
  <2> QED BY <1>0, <2>1, StepRefines
<1>2. CASE MethodOk \/ MethodWait \/ Outside \/ UNCHANGED bootVars
  <2>1. UNCHANGED sceneVars
    BY <1>0, <1>2, OutsideIs DEF MethodOk, MethodWait, bootVars
  <2> QED BY <1>0, <2>1, StepRefines
<1>3. CASE RunResetMgr \/ RunStateMgr
  <2>1. In("run") # {} /\ stage' = stage /\ nowScene' = nowScene
    BY <1>0, <1>3 DEF RunResetMgr, RunStateMgr, BootRuns, names, SceneInv, Dark
  <2>2. nextScene = INVALID \/ nextScene' = nextScene
    BY <1>3 DEF RunResetMgr, RunStateMgr, names, SetNextScene, Accepts
  <2> QED BY <1>0, <2>1, <2>2, Plays
<1> QED BY <1>1, <1>2, <1>3 DEF BootNext, Outside

\* The game with the boot scene in it still implements the abstract scene
\* change: nothing that its two managers do to the fader, and no reset in
\* between, shows a scene that is being prepared or loses the one asked for.
THEOREM BootImplementsSceneChange == BootSpec => ImplementsSceneChange
<1>1. BootInit => SC!Init
  <2> SUFFICES ASSUME BootInit PROVE SC!Init
    OBVIOUS
  <2>1. Init
    BY DEF BootInit
  <2>2. Alive = {} /\ In("run") = {}
    BY <2>1 DEF Init, In, Alive
  <2> QED BY <2>1, <2>2, SceneAssumption DEF Init, SC!Init
<1>2. BootIInv /\ BootIInv' /\ [BootNext]_bootVars => [SC!Next]_(SC!vars)
  BY BootStepRefines
<1> QED BY <1>1, <1>2, BootInductive, PTL DEF BootSpec, ImplementsSceneChange, SC!Spec
=============================================================================
