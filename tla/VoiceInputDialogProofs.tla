----------------------- MODULE VoiceInputDialogProofs -----------------------
(***************************************************************************)
(* The voice dialog for any number of recordings: its handlers nest no     *)
(* deeper than two, and what the user confirms is what was said last.      *)
(***************************************************************************)
EXTENDS VoiceInputDialog, SequenceTheorems, TLAPS

-----------------------------------------------------------------------------
(* The invariant: which handlers can be under way together, and what the   *)
(* flags and the buttons say about them.                                   *)

Frames == [at : Places, talk : 1..MaxTalks]

(* DialogTypeOK in two parts, because no backend is good at both.          *)
Flags ==
    /\ accepted \in BOOLEAN /\ recording \in BOOLEAN /\ capturing \in BOOLEAN
    /\ arecord \in BOOLEAN /\ upset \in BOOLEAN /\ late \in BOOLEAN /\ odd \in BOOLEAN
    /\ down \in BOOLEAN /\ recordOn \in BOOLEAN /\ confirmOn \in BOOLEAN

Others ==
    /\ phase \in {"open", "closed", "destroy", "gone"}
    /\ stack \in Seq(Frames) /\ Len(stack) <= 2
    /\ wav \in {"none", "writing", "whole"}
    /\ fields \in 0..MaxTalks /\ category \in 0..MaxTalks /\ talks \in 0..MaxTalks

Shown == phase \in {"open", "closed"}

StackInv ==
    /\ \A i \in DOMAIN stack : stack[i].talk = talks
    /\ Len(stack) = 2 => stack[1].at # "released" /\ stack[2].at = "released"
    /\ \A i \in DOMAIN stack : stack[i].at = "released" => ~recording /\ ~down
    /\ capturing => \A i \in DOMAIN stack : stack[i].at = "released"
    /\ ~Shown => \A i \in DOMAIN stack : stack[i].at # "pressed"
    /\ phase = "gone" => stack = <<>>

ButtonInv ==
    /\ recording => down /\ talks # 0
    /\ Shown /\ stack # <<>> =>
          /\ ~confirmOn
          /\ recording => stack[1].at = "pressed"
          /\ ~recording => ~recordOn
    /\ Shown /\ recording => ~confirmOn
    /\ Shown /\ capturing /\ ~recording => ~recordOn
    /\ phase = "open" => ~accepted
    /\ phase = "closed" /\ accepted => confirmOn
    /\ confirmOn => fields = talks /\ (category = talks \/ odd)

UpsetInv ==
    /\ Shown /\ ~upset =>
          /\ recording => recordOn
          /\ stack = <<>> => (capturing <=> recording)
          /\ stack # <<>> => IF stack[1].at = "pressed" THEN recording
                             ELSE stack[1].at = "released" => capturing
    /\ phase = "destroy" /\ capturing => upset /\ ~recording
    /\ phase = "gone" => ~capturing
    /\ late => phase = "gone" /\ upset

DInv == Others /\ StackInv /\ ButtonInv /\ UpsetInv /\ OnlyUpsetDisables

-----------------------------------------------------------------------------
(* The stack.                                                              *)

LEMMA StackFacts ==
    ASSUME NEW s \in Seq(Frames), Len(s) <= 2
    PROVE  /\ Len(s) \in 0..2
           /\ DOMAIN s = 1..Len(s)
           /\ s = <<>> <=> Len(s) = 0
           /\ \A i \in 1..Len(s) : s[i] \in Frames
<1>1. DOMAIN s = 1..Len(s) /\ Len(s) \in Nat /\ \A i \in 1..Len(s) : s[i] \in Frames
    BY LenProperties
<1>2. s = <<>> <=> Len(s) = 0
    BY EmptySeq
<1>. QED  BY <1>1, <1>2

LEMMA PushFacts ==
    ASSUME NEW s \in Seq(Frames), NEW f \in Frames
    PROVE  /\ Append(s, f) \in Seq(Frames)
           /\ Len(Append(s, f)) = Len(s) + 1
           /\ \A i \in 1..Len(s) : Append(s, f)[i] = s[i]
           /\ Append(s, f)[Len(s) + 1] = f
BY AppendProperties

LEMMA PopFacts ==
    ASSUME NEW s \in Seq(Frames), s # <<>>
    PROVE  /\ Front(s) \in Seq(Frames)
           /\ Len(Front(s)) = Len(s) - 1
           /\ \A i \in 1..(Len(s) - 1) : Front(s)[i] = s[i]
           /\ Last(s) = s[Len(s)]
           /\ Last(s) \in Frames
<1>1. Len(s) \in Nat \ {0} /\ DOMAIN s = 1..Len(s)
    BY LenProperties, EmptySeq
<1>2. Front(s) = SubSeq(s, 1, Len(s) - 1) /\ Last(s) = s[Len(s)]
    BY DEF Front, Last
<1>3. /\ SubSeq(s, 1, Len(s) - 1) \in Seq(Frames)
      /\ Len(SubSeq(s, 1, Len(s) - 1)) = Len(s) - 1
      /\ \A i \in 1..(Len(s) - 1) : SubSeq(s, 1, Len(s) - 1)[i] = s[i]
    BY <1>1, SubSeqProperties
<1>. QED  BY <1>1, <1>2, <1>3

LEMMA FrameFacts ==
    ASSUME NEW at \in Places, NEW talk \in 1..MaxTalks
    PROVE  Frame(at, talk) \in Frames /\ Frame(at, talk).at = at /\ Frame(at, talk).talk = talk
BY DEF Frame, Frames

(* A stack of one handler.                                                 *)
LEMMA OneFrame ==
    ASSUME NEW f \in Frames
    PROVE  /\ <<f>> \in Seq(Frames) /\ Len(<<f>>) = 1 /\ <<f>>[1] = f
           /\ DOMAIN <<f>> = 1..1 /\ <<f>> # <<>>
           /\ Append(<<>>, f) = <<f>>
OBVIOUS

(* The handler that goes on.  Only the handler of a release may stand on   *)
(* top of another one.                                                     *)
LEMMA TopFacts ==
    ASSUME Others, StackInv, NEW place, At(place)
    PROVE  /\ stack # <<>> /\ Len(stack) \in 1..2
           /\ stack[Len(stack)].at = place
           /\ Talk = talks /\ talks \in 1..MaxTalks
           /\ place # "released" => Len(stack) = 1 /\ Front(stack) = <<>> /\ stack[1].at = place
<1>. USE DEF At
<1>1. stack \in Seq(Frames) /\ Len(stack) <= 2 /\ stack # <<>>
    BY DEF Others
<1>2. /\ Len(stack) \in 1..2 /\ DOMAIN stack = 1..Len(stack)
      /\ Last(stack) = stack[Len(stack)] /\ Last(stack) \in Frames
      /\ Front(stack) \in Seq(Frames) /\ Len(Front(stack)) = Len(stack) - 1
    BY <1>1, StackFacts, PopFacts
<1>3. stack[Len(stack)].at = place /\ Talk = talks /\ talks \in 1..MaxTalks
    BY <1>2 DEF StackInv, Talk, Frames
<1>4. ASSUME place # "released"
      PROVE  Len(stack) = 1 /\ Front(stack) = <<>> /\ stack[1].at = place
    <2>1. Len(stack) = 1
        BY <1>2, <1>3, <1>4 DEF StackInv
    <2>2. Front(stack) = <<>>
        BY <1>2, <2>1, EmptySeq
    <2>. QED  BY <1>3, <2>1, <2>2
<1>. QED  BY <1>1, <1>2, <1>3, <1>4

-----------------------------------------------------------------------------
(* Types.  The flags keep theirs by what the actions assign to them; what  *)
(* is left of DialogTypeOK is established action by action.                *)

LEMMA TypeParts == DialogTypeOK <=> Flags /\ Others
<1>1. {accepted, recording, capturing, arecord, upset, late, odd} \subseteq BOOLEAN
          /\ {down, recordOn, confirmOn} \subseteq BOOLEAN <=> Flags
    BY Zenon DEF Flags
<1>. QED  BY <1>1, Zenon DEF DialogTypeOK, Others, Frames

LEMMA FlagsInit == Init => Flags
BY Zenon DEF Init, Flags

LEMMA FlagsStep == Flags /\ [Next]_vars => Flags'
BY ZenonT(60) DEF Flags, Next, User, Handlers, vars, buttons, observed, dialog, audio, form,
                  Press, Release, Accept, Reject, Reopen, StartRecording, StopRecording,
                  NothingHeard, Heard, SendRequest, ReplyUsed, LocalParse, Filled, Extract,
                  Destroy, Destroyed, ArecordWrites, ArecordDies, RecordingError,
                  ExitsNormally, Killed

-----------------------------------------------------------------------------
(* The rest of the invariant, action by action.                            *)

LEMMA DialogInit == Init => DInv
<1>. SUFFICES ASSUME Init
              PROVE  DInv
    OBVIOUS
<1>1. stack = <<>> /\ stack \in Seq(Frames) /\ Len(stack) = 0 /\ DOMAIN stack = {}
    BY EmptySeq DEF Init
<1>2. Others
    BY <1>1, TalksAssumption DEF Init, Others
<1>3. StackInv /\ ButtonInv /\ UpsetInv /\ OnlyUpsetDisables
    BY <1>1 DEF Init, StackInv, ButtonInv, UpsetInv, Shown, OnlyUpsetDisables
<1>. QED  BY <1>2, <1>3 DEF DInv

LEMMA PressKeeps == DInv /\ Press => DInv'
<1>. SUFFICES ASSUME DInv, Press
              PROVE  DInv'
    OBVIOUS
<1>. USE DEF DInv
<1>1. ~recording /\ stack = <<>> /\ phase = "open" /\ ~capturing
    BY DEF Press, ButtonInv, UpsetInv, Shown
<1>. DEFINE f == Frame("pressed", talks + 1)
<1>2. /\ talks' = talks + 1 /\ talks' \in 1..MaxTalks
      /\ f \in Frames /\ f.at = "pressed" /\ f.talk = talks'
    BY <1>1, TalksAssumption, FrameFacts DEF Press, Others, Places
<1>3. /\ stack' = <<f>> /\ recording' = TRUE /\ confirmOn' = FALSE /\ down' = TRUE
      /\ UNCHANGED <<dialog, audio, recordOn, form, upset, late, odd>>
    BY <1>1, <1>2, OneFrame DEF Press, Push
<1>. HIDE DEF f
<1>4. stack' \in Seq(Frames) /\ Len(stack') = 1 /\ stack'[1] = f /\ DOMAIN stack' = 1..1 /\ stack' # <<>>
    BY <1>2, <1>3, OneFrame
<1>5. Others'
    BY <1>2, <1>3, <1>4 DEF Others, dialog, audio, form
<1>6. StackInv'
    BY <1>1, <1>2, <1>3, <1>4 DEF StackInv, Shown, dialog, audio
<1>7. ButtonInv'
    BY <1>1, <1>2, <1>3, <1>4, TalksAssumption DEF ButtonInv, Shown, dialog, audio
<1>8. UpsetInv' /\ OnlyUpsetDisables'
    BY <1>1, <1>2, <1>3, <1>4 DEF UpsetInv, OnlyUpsetDisables, Shown, dialog, audio
<1>. QED  BY <1>5, <1>6, <1>7, <1>8

LEMMA ReleaseKeeps == DInv /\ Release => DInv'
<1>. SUFFICES ASSUME DInv, Release
              PROVE  DInv'
    OBVIOUS
<1>. USE DEF DInv
<1>0. stack \in Seq(Frames) /\ Len(stack) \in 0..2 /\ DOMAIN stack = 1..Len(stack)
      /\ (stack = <<>> <=> Len(stack) = 0)
    BY StackFacts DEF Others
<1>1. CASE ~recording
    <2>1. /\ UNCHANGED <<dialog, audio, confirmOn, form, talks, late, odd, stack, recording, recordOn>>
          /\ down' = FALSE /\ (upset => upset')
        BY <1>1 DEF Release
    <2>. QED  BY <1>1, <2>1 DEF Others, StackInv, ButtonInv, UpsetInv, Shown, OnlyUpsetDisables,
                               dialog, audio, form
<1>2. CASE recording
    <2>. DEFINE f == Frame("released", talks)
    <2>1. /\ talks \in 1..MaxTalks
          /\ f \in Frames /\ f.at = "released" /\ f.talk = talks
        BY <1>2, FrameFacts DEF Others, ButtonInv, Places
    <2>2. /\ UNCHANGED <<dialog, audio, confirmOn, form, talks, late, odd>>
          /\ stack' = Append(stack, f) /\ recording' = FALSE /\ recordOn' = FALSE
          /\ down' = FALSE /\ upset' = (upset \/ At("pressed")) /\ phase # "gone"
        BY <1>2 DEF Release, Push
    <2>3. Len(stack) \in 0..1 /\ (Len(stack) = 1 => stack[1].at # "released")
        BY <1>0, <1>2 DEF StackInv
    <2>. HIDE DEF f
    <2>4. /\ stack' \in Seq(Frames) /\ Len(stack') = Len(stack) + 1 /\ stack'[Len(stack) + 1] = f
          /\ Len(stack) = 1 => stack'[1] = stack[1]
          /\ DOMAIN stack' = 1..(Len(stack) + 1) /\ stack' # <<>>
        BY <1>0, <2>1, <2>2, <2>3, PushFacts, LenProperties, EmptySeq
    <2>5. Others'
        BY <1>0, <2>2, <2>3, <2>4 DEF Others, dialog, audio, form
    <2>6. StackInv'
        <3>1. CASE Len(stack) = 0
            BY <1>0, <2>1, <2>2, <2>4, <3>1 DEF StackInv, Shown, dialog, audio
        <3>2. CASE Len(stack) = 1
            BY <1>0, <1>2, <2>1, <2>2, <2>3, <2>4, <3>2 DEF StackInv, Shown, dialog, audio
        <3>. QED  BY <2>3, <3>1, <3>2
    <2>7. ButtonInv' /\ OnlyUpsetDisables'
        BY <1>0, <1>2, <2>2, <2>4 DEF ButtonInv, OnlyUpsetDisables, Shown, dialog, audio, form
    <2>8. UpsetInv'
        <3>1. CASE Len(stack) = 0
            <4>0. upset => upset'
                BY <2>2, Zenon
            <4>1. stack = <<>> /\ stack'[1] = f
                BY <1>0, <2>4, <3>1
            <4>2. UNCHANGED <<phase, capturing, late>> /\ recording' = FALSE
                BY <2>2 DEF dialog, audio
            <4>. QED  BY <1>2, <2>1, <2>4, <4>0, <4>1, <4>2 DEF UpsetInv, Shown
        <3>2. CASE Len(stack) = 1
            <4>1. Shown => At("pressed")
                BY <1>0, <1>2, <3>2, PopFacts DEF ButtonInv, At
            <4>. QED  BY <1>0, <1>2, <2>1, <2>2, <2>4, <3>2, <4>1 DEF UpsetInv, Shown, dialog, audio
        <3>. QED  BY <2>3, <3>1, <3>2
    <2>. QED  BY <2>5, <2>6, <2>7, <2>8
<1>. QED  BY <1>1, <1>2

LEMMA StartKeeps == DInv /\ StartRecording => DInv'
<1>. SUFFICES ASSUME DInv, StartRecording
              PROVE  DInv'
    OBVIOUS
<1>. USE DEF DInv
<1>1. /\ stack # <<>> /\ stack[1].at = "pressed" /\ Len(stack) = 1 /\ DOMAIN stack = 1..1
      /\ stack' = <<>>
    BY TopFacts, StackFacts DEF StartRecording, Pop, Others
<1>2. /\ UNCHANGED <<dialog, recording, wav, down, confirmOn, form, talks, late, odd>>
      /\ ~capturing /\ Shown
      /\ \/ capturing' = TRUE /\ UNCHANGED <<recordOn, upset>>
         \/ capturing' = capturing /\ recordOn' = TRUE /\ upset' = TRUE
    BY <1>1 DEF StartRecording, RecordingError, StackInv
<1>3. stack' \in Seq(Frames) /\ Len(stack') = 0 /\ DOMAIN stack' = {}
    BY <1>1, EmptySeq
<1>4. Others' /\ StackInv' /\ ButtonInv'
    BY <1>1, <1>2, <1>3 DEF Others, StackInv, ButtonInv, Shown, dialog, form
<1>5. UpsetInv'
    <2>1. UNCHANGED <<phase, recording, late>> /\ phase \in {"open", "closed"} /\ ~late
        BY <1>2 DEF Shown, dialog, UpsetInv
    <2>2. ~upset => recording /\ recordOn
        BY <1>1, <1>2 DEF UpsetInv
    <2>3. CASE capturing' = TRUE /\ UNCHANGED <<recordOn, upset>>
        BY <1>1, <2>1, <2>2, <2>3 DEF UpsetInv
    <2>4. CASE capturing' = capturing /\ recordOn' = TRUE /\ upset' = TRUE
        BY <1>1, <2>1, <2>4 DEF UpsetInv
    <2>. QED  BY <1>2, <2>3, <2>4
<1>6. OnlyUpsetDisables'
    <2>1. ~upset => recordOn
        BY <1>1, <1>2 DEF UpsetInv
    <2>. QED  BY <1>2, <2>1 DEF OnlyUpsetDisables
<1>. QED  BY <1>4, <1>5, <1>6

LEMMA StopKeeps == DInv /\ StopRecording => DInv'
<1>. SUFFICES ASSUME DInv, StopRecording
              PROVE  DInv'
    OBVIOUS
<1>. USE DEF DInv
<1>0. /\ stack \in Seq(Frames) /\ stack # <<>> /\ Len(stack) \in 1..2 /\ DOMAIN stack = 1..Len(stack)
      /\ stack[Len(stack)].at = "released" /\ Talk = talks /\ talks \in 1..MaxTalks
      /\ ~recording /\ ~down /\ phase # "gone"
    BY TopFacts, StackFacts DEF StopRecording, Others, StackInv
<1>1. /\ Front(stack) \in Seq(Frames) /\ Len(Front(stack)) = Len(stack) - 1
      /\ DOMAIN Front(stack) = 1..(Len(stack) - 1)
      /\ Front(stack) = <<>> <=> Len(stack) = 1
      /\ Len(stack) = 2 => Front(stack)[1] = stack[1]
    <2>1. /\ Front(stack) \in Seq(Frames) /\ Len(Front(stack)) = Len(stack) - 1
          /\ \A i \in 1..(Len(stack) - 1) : Front(stack)[i] = stack[i]
        BY <1>0, PopFacts
    <2>. DEFINE rest == Front(stack)
    <2>. HIDE DEF rest
    <2>2. rest \in Seq(Frames) /\ Len(rest) <= 2 /\ Len(rest) = Len(stack) - 1
        BY <1>0, <2>1 DEF rest
    <2>3. DOMAIN rest = 1..Len(rest) /\ (rest = <<>> <=> Len(rest) = 0)
        BY <2>2, StackFacts
    <2>4. DOMAIN Front(stack) = 1..(Len(stack) - 1) /\ (Front(stack) = <<>> <=> Len(stack) = 1)
        BY <1>0, <2>2, <2>3 DEF rest
    <2>. QED  BY <1>0, <2>1, <2>4
<1>2. UNCHANGED <<dialog, recording, down, confirmOn, form, talks, upset, late, odd>>
    BY DEF StopRecording, observed
<1>3. CASE ~capturing
    <2>1. stack' = Front(stack) /\ UNCHANGED <<audio, recordOn>>
        BY <1>3 DEF StopRecording, Pop
    <2>2. stack' \in Seq(Frames) /\ Len(stack') = Len(stack) - 1
          /\ DOMAIN stack' = 1..(Len(stack) - 1)
          /\ (stack' = <<>> <=> Len(stack) = 1)
          /\ (Len(stack) = 2 => stack'[1] = stack[1])
        BY <1>1, <2>1
    <2>3. Others' /\ StackInv'
        BY <1>0, <1>2, <1>3, <2>1, <2>2 DEF Others, StackInv, Shown, dialog, audio, form
    <2>4. ButtonInv'
        BY <1>0, <1>2, <1>3, <2>1, <2>2 DEF ButtonInv, Shown, dialog, audio, form
    <2>5. UpsetInv' /\ OnlyUpsetDisables'
        BY <1>0, <1>2, <1>3, <2>1, <2>2 DEF StackInv, ButtonInv, UpsetInv, OnlyUpsetDisables, Shown,
                                            dialog, audio
    <2>. QED  BY <2>3, <2>4, <2>5
<1>4. CASE capturing
    <2>. DEFINE f == Frame("finished", talks)
    <2>1. Len(stack) = 1
        BY <1>0, <1>4 DEF StackInv
    <2>2. f \in Frames /\ f.at = "finished" /\ f.talk = talks
        BY <1>0, FrameFacts DEF Places
    <2>3. /\ wav' \in {wav, "whole"} /\ capturing' = FALSE
          /\ \/ stack' = <<f>> /\ recordOn' = recordOn
             \/ stack' = <<>> /\ recordOn' = TRUE
        BY <1>0, <1>1, <1>4, <2>1, <2>2, OneFrame
           DEF StopRecording, ExitsNormally, Killed, GoTo, Pop, RecordingError
    <2>. HIDE DEF f
    <2>4. CASE stack' = <<f>> /\ recordOn' = recordOn
        <3>1. stack' \in Seq(Frames) /\ Len(stack') = 1 /\ stack'[1] = f /\ DOMAIN stack' = 1..1 /\ stack' # <<>>
            BY <2>2, <2>4, OneFrame
        <3>2. Others' /\ StackInv'
            BY <1>0, <1>2, <2>1, <2>2, <2>3, <3>1 DEF Others, StackInv, Shown, dialog, form
        <3>3. ButtonInv'
            BY <1>0, <1>2, <2>1, <2>2, <2>3, <2>4, <3>1 DEF ButtonInv, Shown, dialog, form
        <3>4. UpsetInv' /\ OnlyUpsetDisables'
            BY <1>0, <1>2, <2>1, <2>2, <2>3, <2>4, <3>1 DEF UpsetInv, OnlyUpsetDisables, Shown, dialog
        <3>. QED  BY <3>2, <3>3, <3>4
    <2>5. CASE stack' = <<>> /\ recordOn' = TRUE
        <3>1. stack' \in Seq(Frames) /\ Len(stack') = 0 /\ DOMAIN stack' = {}
            BY <2>5, EmptySeq
        <3>2. Others' /\ StackInv'
            BY <1>0, <1>2, <2>1, <2>3, <2>5, <3>1 DEF Others, StackInv, Shown, dialog, form
        <3>3. ButtonInv'
            BY <1>0, <1>2, <2>1, <2>3, <2>5 DEF ButtonInv, Shown, dialog, form
        <3>4. UpsetInv' /\ OnlyUpsetDisables'
            BY <1>0, <1>2, <2>1, <2>3, <2>5 DEF UpsetInv, OnlyUpsetDisables, Shown, dialog
        <3>. QED  BY <3>2, <3>3, <3>4
    <2>. QED  BY <2>3, <2>4, <2>5
<1>. QED  BY <1>3, <1>4

(* The handler that recognises, asks and fills the fields is alone.        *)
LEMMA AnswerKeeps ==
    DInv /\ (NothingHeard \/ Heard \/ SendRequest \/ ReplyUsed \/ LocalParse) => DInv'
<1>. SUFFICES ASSUME DInv, NothingHeard \/ Heard \/ SendRequest \/ ReplyUsed \/ LocalParse
              PROVE  DInv'
    OBVIOUS
<1>. USE DEF DInv
<1>0. /\ stack # <<>> /\ Len(stack) = 1 /\ DOMAIN stack = 1..1
      /\ stack[1].at \in {"finished", "parse", "wait"} /\ stack[1].talk = talks
      /\ Front(stack) = <<>> /\ Talk = talks /\ talks \in 1..MaxTalks
      /\ ~capturing /\ (Shown => ~recording /\ ~confirmOn) /\ phase # "gone"
    <2>1. At("finished") \/ At("parse") \/ At("wait")
        BY DEF NothingHeard, Heard, SendRequest, ReplyUsed, LocalParse
    <2>2. /\ stack # <<>> /\ Len(stack) = 1 /\ Front(stack) = <<>>
          /\ stack[1].at \in {"finished", "parse", "wait"}
          /\ Talk = talks /\ talks \in 1..MaxTalks
        BY <2>1, TopFacts
    <2>3. DOMAIN stack = 1..1
        BY <2>2, StackFacts DEF Others
    <2>. QED  BY <2>2, <2>3 DEF StackInv, ButtonInv
<1>1. CASE Heard \/ SendRequest
    <2>1. PICK at \in {"parse", "wait"} : stack' = Append(Front(stack), Frame(at, talks))
        BY <1>0, <1>1 DEF Heard, SendRequest, GoTo
    <2>. DEFINE f == Frame(at, talks)
    <2>2. f \in Frames /\ f.at = at /\ f.talk = talks
        BY <1>0, FrameFacts DEF Places
    <2>3. stack' = <<f>>
        BY <1>0, <2>1, <2>2, OneFrame
    <2>. HIDE DEF f
    <2>4. stack' \in Seq(Frames) /\ Len(stack') = 1 /\ stack'[1] = f /\ DOMAIN stack' = 1..1 /\ stack' # <<>>
        BY <2>2, <2>3, OneFrame
    <2>5. UNCHANGED <<dialog, recording, capturing, buttons, form, observed>> /\ wav' \in {wav, "none"}
        BY <1>1 DEF Heard, SendRequest, audio
    <2>6. Others' /\ StackInv'
        BY <1>0, <2>2, <2>4, <2>5 DEF Others, StackInv, Shown, dialog, form, buttons, observed
    <2>7. ButtonInv'
        BY <1>0, <2>2, <2>4, <2>5 DEF ButtonInv, Shown, dialog, form, buttons, observed
    <2>8. UpsetInv' /\ OnlyUpsetDisables'
        BY <1>0, <2>2, <2>4, <2>5 DEF UpsetInv, OnlyUpsetDisables, Shown, dialog, buttons, observed
    <2>. QED  BY <2>6, <2>7, <2>8
<1>2. CASE NothingHeard \/ ReplyUsed \/ LocalParse
    <2>1. /\ stack' = <<>> /\ recordOn' = TRUE
          /\ UNCHANGED <<dialog, recording, capturing, down, talks, upset, late>>
          /\ wav' \in {wav, "none"}
          /\ \/ UNCHANGED <<confirmOn, form, odd>>
             \/ /\ fields' = talks /\ category' \in {category, talks}
                /\ category' = talks \/ odd'
        BY <1>0, <1>2 DEF NothingHeard, ReplyUsed, LocalParse, Extract, Filled, Pop, observed, audio
    <2>2. stack' \in Seq(Frames) /\ Len(stack') = 0 /\ DOMAIN stack' = {}
        BY <2>1, EmptySeq
    <2>3. Others' /\ StackInv'
        BY <1>0, <2>1, <2>2 DEF Others, StackInv, Shown, dialog, form
    <2>4. ButtonInv'
        BY <1>0, <2>1, <2>2 DEF ButtonInv, Shown, dialog, form
    <2>5. UpsetInv' /\ OnlyUpsetDisables'
        BY <1>0, <2>1, <2>2 DEF UpsetInv, OnlyUpsetDisables, Shown, dialog
    <2>. QED  BY <2>3, <2>4, <2>5
<1>. QED  BY <1>1, <1>2

(* The user's other moves, the end of the dialog, and arecord.             *)
LEMMA EndKeeps == DInv /\ (Accept \/ Reject \/ Destroyed \/ Reopen) => DInv'
<1>. SUFFICES ASSUME DInv, Accept \/ Reject \/ Destroyed \/ Reopen
              PROVE  DInv'
    OBVIOUS
<1>. USE DEF DInv
<1>1. CASE Accept \/ Reject
    <2>1. /\ phase = "open" /\ phase' = "closed"
          /\ UNCHANGED <<stack, recording, audio, buttons, form, observed>>
        BY <1>1 DEF Accept, Reject
    <2>2. accepted' => confirmOn
        BY <1>1 DEF Accept, Reject, ButtonInv
    <2>. QED  BY <2>1, <2>2 DEF Others, StackInv, ButtonInv, UpsetInv, OnlyUpsetDisables, Shown,
                         audio, buttons, form, observed
<1>2. CASE Destroyed
    <2>1. /\ phase = "destroy" /\ phase' = "gone" /\ stack = <<>> /\ stack' = <<>>
          /\ wav' \in {"none", "whole"} /\ late' = capturing /\ capturing' = FALSE
          /\ UNCHANGED <<recording, buttons, form, talks, upset, odd>>
        BY <1>2 DEF Destroyed
    <2>2. DOMAIN stack' = {}
        BY <2>1
    <2>. QED  BY <2>1, <2>2 DEF Others, StackInv, ButtonInv, UpsetInv, OnlyUpsetDisables, Shown,
                               buttons, form
<1>3. CASE Reopen
    <2>1. /\ stack = <<>> /\ ~capturing /\ UNCHANGED <<stack, audio>>
          /\ phase' = "open" /\ accepted' = FALSE /\ recording' = FALSE /\ recordOn' = TRUE
          /\ fields' = 0 /\ category' = 0 /\ talks' = 0 /\ late' = FALSE
        BY <1>3 DEF Reopen, StackInv, UpsetInv
    <2>2. DOMAIN stack' = {}
        BY <2>1
    <2>. QED  BY <2>1, <2>2, TalksAssumption DEF Others, StackInv, ButtonInv, UpsetInv,
                                                OnlyUpsetDisables, Shown, audio
<1>. QED  BY <1>1, <1>2, <1>3

LEMMA DestroyKeeps == DInv /\ Destroy => DInv'
<1>. SUFFICES ASSUME DInv, Destroy
              PROVE  DInv'
    OBVIOUS
<1>. USE DEF DInv
<1>1. /\ phase = "closed" /\ phase' = "destroy" /\ stack = <<>> /\ Shown /\ ~Shown'
      /\ UNCHANGED <<recording, down, confirmOn, form, talks, upset, late, odd>>
      /\ ~late
    BY DEF Destroy, Shown, observed, UpsetInv
<1>2. CASE ~(recording /\ capturing)
    <2>1. UNCHANGED <<stack, audio, recordOn>>
        BY <1>2 DEF Destroy
    <2>2. DOMAIN stack' = {}
        BY <1>1, <2>1
    <2>3. capturing => upset /\ ~recording
        BY <1>1, <1>2 DEF UpsetInv
    <2>4. Others' /\ StackInv'
        BY <1>1, <2>1, <2>2 DEF Others, StackInv, audio, form
    <2>5. ButtonInv'
        BY <1>1, <2>1 DEF ButtonInv, form
    <2>6. UpsetInv' /\ OnlyUpsetDisables'
        BY <1>1, <2>1, <2>3 DEF UpsetInv, OnlyUpsetDisables, audio
    <2>. QED  BY <2>4, <2>5, <2>6
<1>3. CASE recording /\ capturing
    <2>. DEFINE f == Frame("finished", talks)
    <2>1. talks \in 1..MaxTalks
        BY <1>3, TalksAssumption DEF Others, ButtonInv
    <2>2. f \in Frames /\ f.at = "finished" /\ f.talk = talks
        BY <2>1, FrameFacts DEF Places
    <2>3. /\ wav' \in {wav, "whole"} /\ capturing' = FALSE
          /\ stack' = <<f>> \/ stack' = <<>>
        BY <1>1, <1>3, <2>2, OneFrame DEF Destroy, ExitsNormally, Killed, Push
    <2>. HIDE DEF f
    <2>4. /\ stack' \in Seq(Frames) /\ Len(stack') \in 0..1 /\ DOMAIN stack' = 1..Len(stack')
          /\ \A i \in DOMAIN stack' : stack'[i] = f
        <3>1. CASE stack' = <<f>>
            BY <2>2, <3>1, OneFrame
        <3>2. CASE stack' = <<>>
            BY <3>2, EmptySeq
        <3>. QED  BY <2>3, <3>1, <3>2
    <2>5. Others' /\ StackInv'
        BY <1>1, <2>2, <2>3, <2>4 DEF Others, StackInv, form
    <2>6. ButtonInv'
        BY <1>1 DEF ButtonInv, form
    <2>7. UpsetInv' /\ OnlyUpsetDisables'
        BY <1>1, <2>3 DEF UpsetInv, OnlyUpsetDisables
    <2>. QED  BY <2>5, <2>6, <2>7
<1>. QED  BY <1>2, <1>3

LEMMA DialogStep == DInv /\ [Next]_vars => DInv'
<1>. SUFFICES ASSUME DInv, [Next]_vars
              PROVE  DInv'
    OBVIOUS
<1>1. CASE UNCHANGED vars \/ ArecordWrites \/ ArecordDies
    <2>1. /\ UNCHANGED <<dialog, stack, recording, capturing, buttons, form, observed>>
          /\ wav' \in {wav, "writing"}
        BY <1>1 DEF vars, ArecordWrites, ArecordDies, audio
    <2>. QED  BY <2>1 DEF DInv, Others, StackInv, ButtonInv, UpsetInv, OnlyUpsetDisables, Shown,
                         dialog, buttons, form, observed
<1>. QED  BY <1>1, PressKeeps, ReleaseKeeps, StartKeeps, StopKeeps, AnswerKeeps, EndKeeps,
             DestroyKeeps DEF Next, User, Handlers

LEMMA DialogInvariance == Spec => [](Flags /\ DInv)
<1>1. Init => Flags /\ DInv
    BY FlagsInit, DialogInit
<1>2. Flags /\ DInv /\ [Next]_vars => (Flags /\ DInv)'
    BY FlagsStep, DialogStep
<1>. QED  BY <1>1, <1>2, PTL DEF Spec

-----------------------------------------------------------------------------
(* The handlers nest at most two deep, for any number of recordings        *)
(* (processEvents in onRecordPressed, onRecordReleased, parseText).        *)
THEOREM DialogTyped == Spec => []DialogTypeOK
<1>1. Flags /\ DInv => DialogTypeOK
    BY TypeParts DEF DInv
<1>. QED  BY <1>1, DialogInvariance, PTL

(* No recording runs while another one is recognised: both would be in the *)
(* one file (voice_task.wav).                                              *)
THEOREM NoOverlap == Spec => []OneRecording
<1>1. DInv => OneRecording
    BY DEF DInv, StackInv, OneRecording
<1>. QED  BY <1>1, DialogInvariance, PTL

(* What can be confirmed is what was said last (onRecordPressed disables   *)
(* the confirm button, parseText enables it).                              *)
THEOREM ConfirmsLatest == Spec => []ConfirmIsLatest
<1>1. DInv => ConfirmIsLatest
    BY DEF DInv, ButtonInv, ConfirmIsLatest
<1>. QED  BY <1>1, DialogInvariance, PTL

(* So is its category, or the last reply named one that is none of the     *)
(* three (parseText).                                                      *)
THEOREM CategoryLatest == Spec => []CategoryIsLatest
<1>1. DInv => CategoryIsLatest
    BY DEF DInv, ButtonInv, CategoryIsLatest
<1>. QED  BY <1>1, DialogInvariance, PTL

(* The recorder signals to the dialog only while it is there, unless       *)
(* arecord failed to start or a release overtook its press                 *)
(* (~VoiceInputDialog, ~AudioRecorder).                                    *)
THEOREM SignalsInTime == Spec => []NeverLate
<1>1. DInv => NeverLate
    BY DEF DInv, UpsetInv, NeverLate
<1>. QED  BY <1>1, DialogInvariance, PTL

(* The record button comes back after every recording, unless one of the   *)
(* same two things happened (onRecordingFinished, recordingError).         *)
THEOREM ButtonComesBack == Spec => []OnlyUpsetDisables
<1>1. DInv => OnlyUpsetDisables
    BY DEF DInv
<1>. QED  BY <1>1, DialogInvariance, PTL

(* What was confirmed is what onVoiceInput takes (onConfirm, exec).        *)
THEOREM AcceptedIsTaken == Spec => AcceptedKept
<1>. DEFINE Kept == phase = "closed" /\ accepted => UNCHANGED form
<1>1. DInv /\ [Next]_vars => [Kept]_vars
    <2>. SUFFICES ASSUME DInv, Next, phase = "closed", accepted
                  PROVE  UNCHANGED form
        OBVIOUS
    <2>1. stack = <<>>
        BY DEF DInv, ButtonInv, Shown
    <2>. QED  BY <2>1 DEF Next, User, Handlers, Press, Release, Accept, Reject, Reopen,
                         StartRecording, StopRecording, NothingHeard, Heard, SendRequest,
                         ReplyUsed, LocalParse, Destroy, Destroyed, ArecordWrites, ArecordDies, At
<1>. HIDE DEF Kept
<1>2. Spec => [][Kept]_vars
    BY <1>1, DialogInvariance, PTL DEF Spec
<1>. QED  BY <1>2 DEF AcceptedKept, Kept
=============================================================================
