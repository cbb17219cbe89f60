-------------------------------- MODULE Fader --------------------------------
(***************************************************************************)
(* The fader in use (mFader_c::mFader, mLib): a record of its mStatus,     *)
(* mFrameCount and mCurrFrame.  The kinds of faders differ only in what    *)
(* they draw; the colour fader and the wipe fader compute the same value   *)
(* between 0 and Full from this record (Shade).                            *)
(*                                                                         *)
(* dFader_c::startFadeIn and startFadeOut are not in the repository; their *)
(* header says that they start a fade of the current fader that lasts the  *)
(* given number of frames, and whether it was started.                     *)
(***************************************************************************)
EXTENDS Integers

CONSTANT MaxU16        \* the largest value of mFrameCount and mCurrFrame

ASSUME MaxU16Assumption == MaxU16 \in Nat

U16 == 0 .. MaxU16
EStatus == {"OPAQUE", "HIDDEN", "FADE_IN", "FADE_OUT"}
Faders == [status: EStatus, frame: U16, cur: U16]

Fading(f) == f.status \in {"FADE_IN", "FADE_OUT"}

(* The duration can be set at any time; the fade itself starts only from   *)
(* the opposite status.                                                    *)
SetFrame(f, n) == [f EXCEPT !.frame = n]
FadeIn(f) ==
  IF f.status = "OPAQUE" THEN [f EXCEPT !.status = "FADE_IN", !.cur = 0] ELSE f
FadeOut(f) ==
  IF f.status = "HIDDEN" THEN [f EXCEPT !.status = "FADE_OUT", !.cur = 0] ELSE f

StartFadeIn(f, n) == FadeIn(SetFrame(f, n))
StartFadeOut(f, n) == FadeOut(SetFrame(f, n))

(* Another fader takes over unless a fade is in progress, and with it the  *)
(* status of the screen.                                                   *)
SetFader(f, new) == IF Fading(f) THEN f ELSE [new EXCEPT !.status = f.status]

(* One frame of a fade.  mCurrFrame is a u16 and wraps; a fade in compares *)
(* the count before the increment, a fade out the count after it, with     *)
(* mFrameCount + 1 computed in an int.                                     *)
Tick(f) == (f.cur + 1) % (MaxU16 + 1)

\* Mutant: one frame more is one too many.
FadeEndsLate(f) ==
  \/ f.status = "FADE_IN" /\ f.cur > f.frame
  \/ f.status = "FADE_OUT" /\ Tick(f) > f.frame + 2

FadeEnds(f) ==
  \/ f.status = "FADE_IN" /\ f.cur > f.frame
  \/ f.status = "FADE_OUT" /\ Tick(f) > f.frame + 1
Calc(f) ==
  IF ~Fading(f) THEN f
  ELSE [f EXCEPT !.cur = Tick(f),
                 !.status = IF ~FadeEnds(f) THEN @
                            ELSE IF @ = "FADE_IN" THEN "HIDDEN" ELSE "OPAQUE"]

(* The alpha of a colour fader, the progress of a wipe.  The duration of a *)
(* fade in progress must not be zero here.                                 *)
Full == 255

\* Mutant: the count is used as it is.
FadedUnclamped(f) == (f.cur * Full) \div f.frame

Faded(f) == ((IF f.cur > f.frame THEN f.frame ELSE f.cur) * Full) \div f.frame
Shade(f) ==
  CASE f.status = "HIDDEN"   -> 0
    [] f.status = "OPAQUE"   -> Full
    [] f.status = "FADE_IN"  -> Full - Faded(f)
    [] f.status = "FADE_OUT" -> Faded(f)
=============================================================================
