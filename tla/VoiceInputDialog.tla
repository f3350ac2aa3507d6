-------------------------- MODULE VoiceInputDialog --------------------------
(***************************************************************************)
(* The voice dialog (voiceinputdialog.cpp) with the AudioRecorder and the  *)
(* arecord process it owns, the recogniser and the DeepSeek client it      *)
(* calls, from exec() to its destruction.                                  *)
(*                                                                         *)
(* Everything runs on the GUI thread, but the handlers call                *)
(* processEvents() in the middle of their work and parseTask() runs an     *)
(* event loop of its own, so that a handler may start inside another one.  *)
(* "stack" holds the handlers under way, the running one last, each at one *)
(* of these places where events are dispatched:                            *)
(*   pressed    onRecordPressed, before it starts the recorder             *)
(*   released   onRecordReleased, before it stops the recorder             *)
(*   finished   onRecordingFinished, before it recognises                  *)
(*   parse      parseText, before it sends the request                     *)
(*   wait       parseTask, waiting for the reply                           *)
(* The last three are called by the handler that stopped the recorder,     *)
(* which has nothing left to do afterwards: one frame stands for them all. *)
(***************************************************************************)
EXTENDS Naturals, Sequences, SequencesExt

CONSTANT MaxTalks  \* bound on the recordings begun in one dialog

ASSUME TalksAssumption == MaxTalks \in Nat

VARIABLES
    phase,      \* dialog shown, closed, in its destructor, gone
    accepted,   \* it was closed with accept()
    stack,      \* the handlers under way
    recording,  \* VoiceInputDialog::m_recording
    capturing,  \* AudioRecorder::m_recording
    arecord,    \* the process runs
    wav,        \* voice_task.wav: no file, being written, complete
    down,       \* the record button is down
    recordOn,   \* the record button is enabled
    confirmOn,  \* the confirm button is enabled
    fields,     \* which recording the name, date, time and priority come
                \* from, 0 for none
    category,   \* which recording the category box comes from
    talks,      \* (observed) recordings begun
    upset,      \* (observed) arecord did not start, or a release overtook its
                \* press, since the dialog was opened
    late,       \* (observed) a signal reached the dialog after its destructor
    odd         \* (observed) the category of the last reply was none of the three

buttons == <<down, recordOn, confirmOn>>
audio == <<capturing, arecord, wav>>
dialog == <<phase, accepted>>
observed == <<talks, upset, late, odd>>
form == <<fields, category>>

vars == <<dialog, stack, recording, audio, buttons, form, observed>>

Places == {"pressed", "released", "finished", "parse", "wait"}

Frame(at, talk) == [at |-> at, talk |-> talk]

Init ==
    /\ phase = "open"
    /\ accepted = FALSE
    /\ stack = <<>>
    /\ recording = FALSE
    /\ capturing = FALSE
    /\ arecord = FALSE
    /\ wav = "none"
    /\ down = FALSE
    /\ recordOn = TRUE
    /\ confirmOn = TRUE
    /\ fields = 0
    /\ category = 0
    /\ talks = 0
    /\ upset = FALSE
    /\ late = FALSE
    /\ odd = FALSE

(* The running handler goes on.                                            *)
At(place) == stack # <<>> /\ Last(stack).at = place
Talk == Last(stack).talk
Push(frame) == stack' = Append(stack, frame)
Pop == stack' = Front(stack)
GoTo(place) == stack' = Append(Front(stack), Frame(place, Talk))

-----------------------------------------------------------------------------
(* The record button.  Qt emits pressed and released as the button goes    *)
(* down and up.                                                            *)

(* Mutant: the confirm button stays as it was.                             *)
PressKeepsConfirm ==
    /\ phase = "open" /\ recordOn /\ ~down
    /\ down' = TRUE
    /\ IF recording
       THEN UNCHANGED <<stack, recording, talks>>
       ELSE /\ talks < MaxTalks
            /\ recording' = TRUE
            /\ talks' = talks + 1
            /\ Push(Frame("pressed", talks + 1))
    /\ UNCHANGED <<dialog, audio, recordOn, confirmOn, form, upset, late, odd>>

Press ==
    /\ phase = "open" /\ recordOn /\ ~down
    /\ down' = TRUE
    /\ IF recording
       THEN UNCHANGED <<stack, recording, confirmOn, talks>>
       ELSE /\ talks < MaxTalks
            /\ recording' = TRUE
            /\ confirmOn' = FALSE
            /\ talks' = talks + 1
            /\ Push(Frame("pressed", talks + 1))
    /\ UNCHANGED <<dialog, audio, recordOn, form, upset, late, odd>>

(* Mutant: the record button stays enabled.                                *)
ReleaseKeepsRecord ==
    /\ phase # "gone" /\ down
    /\ down' = FALSE
    /\ IF recording
       THEN /\ recording' = FALSE
            /\ Push(Frame("released", talks))
       ELSE UNCHANGED <<stack, recording>>
    /\ upset' = (upset \/ At("pressed"))
    /\ UNCHANGED <<dialog, audio, recordOn, confirmOn, form, talks, late, odd>>

Release ==
    /\ phase # "gone" /\ down
    /\ down' = FALSE
    /\ IF recording
       THEN /\ recording' = FALSE
            /\ recordOn' = FALSE
            /\ Push(Frame("released", talks))
       ELSE UNCHANGED <<stack, recording, recordOn>>
    /\ upset' = (upset \/ At("pressed"))
    /\ UNCHANGED <<dialog, audio, confirmOn, form, talks, late, odd>>

-----------------------------------------------------------------------------
(* AudioRecorder.                                                          *)

(* The lambda connected to recordingError.  Mutant: only the label is set. *)
ErrorOnlyTold == UNCHANGED recordOn

RecordingError == recordOn' = TRUE

StartRecording ==
    /\ At("pressed")
    /\ Pop
    /\ \/ ~capturing /\ capturing' = TRUE /\ arecord' = TRUE /\ UNCHANGED <<recordOn, upset>>
       \/ ~capturing /\ RecordingError /\ upset' = TRUE /\ UNCHANGED <<capturing, arecord>>
       \/ capturing /\ UNCHANGED <<capturing, arecord, recordOn, upset>>
    /\ UNCHANGED <<dialog, recording, wav, down, confirmOn, form, talks, late, odd>>

(* arecord opens the file some time after it has started, and may exit by  *)
(* itself: the device is missing or is taken away.                         *)
ArecordWrites ==
    /\ arecord
    /\ wav' = "writing"
    /\ UNCHANGED <<dialog, stack, recording, capturing, arecord, buttons, form, observed>>

ArecordDies ==
    /\ arecord
    /\ arecord' = FALSE
    /\ UNCHANGED <<dialog, stack, recording, capturing, wav, buttons, form, observed>>

(* What stopRecording does to the process: it exits normally, having       *)
(* completed its file if it had opened one, or had exited by itself before *)
(* and left the file as it was; or it was killed.                          *)
ExitsNormally == wav' = IF arecord /\ wav = "writing" THEN "whole" ELSE wav

Killed == UNCHANGED wav

(* Mutant: it waits for a process that is not there.                       *)
StopWaitsForProcess ==
    /\ At("released")
    /\ capturing
    /\ capturing' = FALSE
    /\ arecord' = FALSE
    /\ \/ ExitsNormally /\ GoTo("finished") /\ UNCHANGED recordOn
       \/ Killed /\ Pop /\ RecordingError
    /\ UNCHANGED <<dialog, recording, down, confirmOn, form, observed>>

StopRecording ==
    /\ At("released")
    /\ IF capturing
       THEN /\ capturing' = FALSE
            /\ arecord' = FALSE
            /\ \/ ExitsNormally /\ GoTo("finished") /\ UNCHANGED recordOn
               \/ Killed /\ Pop /\ RecordingError
       ELSE Pop /\ UNCHANGED <<audio, recordOn>>
    /\ UNCHANGED <<dialog, recording, down, confirmOn, form, observed>>

-----------------------------------------------------------------------------
(* onRecordingFinished and parseText.  The recogniser is ready: the main   *)
(* window does not open the dialog otherwise.                              *)

(* recognize() takes at most two minutes and may return no text; without a *)
(* file it does.  The file is removed in any case.                         *)
NothingHeard ==
    /\ At("finished")
    /\ Pop
    /\ wav' = "none"
    /\ recordOn' = TRUE
    /\ UNCHANGED <<dialog, recording, capturing, arecord, down, confirmOn, form, observed>>

Heard ==
    /\ At("finished")
    /\ wav # "none"
    /\ GoTo("parse")
    /\ wav' = "none"
    /\ UNCHANGED <<dialog, recording, capturing, arecord, buttons, form, observed>>

SendRequest ==
    /\ At("parse")
    /\ GoTo("wait")
    /\ UNCHANGED <<dialog, recording, audio, buttons, form, observed>>

(* The fields are filled, and both buttons can be used again.              *)
Filled ==
    /\ Pop
    /\ fields' = Talk
    /\ confirmOn' = TRUE
    /\ recordOn' = TRUE
    /\ UNCHANGED <<dialog, recording, audio, down, talks, upset, late>>

(* The reply holds a task with a name.  It may name any category; one that *)
(* is none of the three leaves the box as it is.  What else is missing in  *)
(* it gets a default.                                                      *)
ReplyUsed ==
    /\ At("wait")
    /\ Filled
    /\ \/ category' = Talk /\ odd' = FALSE
       \/ odd' = TRUE /\ UNCHANGED category

(* The words are searched for instead.  Mutant: not for the category.      *)
ExtractWithoutCategory == odd' = FALSE /\ UNCHANGED category

Extract == odd' = FALSE /\ category' = Talk

(* No answer from the service, no JSON in it, no task in that or none with *)
(* a name.                                                                 *)
LocalParse ==
    /\ At("wait")
    /\ Filled
    /\ Extract

-----------------------------------------------------------------------------
(* The end of the dialog.                                                  *)

(* The confirm button (it also wants a name) and the cancel button.  exec  *)
(* returns when the handlers under way have returned.                      *)
Accept ==
    /\ phase = "open" /\ confirmOn
    /\ phase' = "closed"
    /\ accepted' = TRUE
    /\ UNCHANGED <<stack, recording, audio, buttons, form, observed>>

Reject ==
    /\ phase = "open"
    /\ phase' = "closed"
    /\ UNCHANGED <<accepted, stack, recording, audio, buttons, form, observed>>

(* onVoiceInput takes the task, then the dialog is destroyed: its own      *)
(* destructor stops a recording that is still under way, and what was      *)
(* recorded is recognised and sent all the same.  Mutant: it does not.     *)
DestroyWithoutStop ==
    /\ phase = "closed" /\ stack = <<>>
    /\ phase' = "destroy"
    /\ UNCHANGED <<accepted, stack, recording, audio, buttons, form, observed>>

Destroy ==
    /\ phase = "closed" /\ stack = <<>>
    /\ phase' = "destroy"
    /\ IF recording /\ capturing
       THEN /\ capturing' = FALSE
            /\ arecord' = FALSE
            /\ \/ ExitsNormally /\ Push(Frame("finished", talks)) /\ UNCHANGED recordOn
               \/ Killed /\ RecordingError /\ UNCHANGED stack
       ELSE UNCHANGED <<stack, audio, recordOn>>
    /\ UNCHANGED <<accepted, recording, down, confirmOn, form, observed>>

(* It removes the file.  Then its children go, the recorder among them,    *)
(* which stops if it is still recording and signals to a dialog whose      *)
(* destructor is over; arecord may have opened the file only then.         *)
Destroyed ==
    /\ phase = "destroy" /\ stack = <<>>
    /\ phase' = "gone"
    /\ wav' \in {"none"} \cup (IF arecord /\ wav = "none" THEN {"whole"} ELSE {})
    /\ late' = capturing
    /\ capturing' = FALSE
    /\ arecord' = FALSE
    /\ UNCHANGED <<accepted, stack, recording, buttons, form, talks, upset, odd>>

(* The user opens the dialog again.                                        *)
Reopen ==
    /\ phase = "gone"
    /\ phase' = "open"
    /\ accepted' = FALSE
    /\ recording' = FALSE
    /\ down' = FALSE
    /\ recordOn' = TRUE
    /\ confirmOn' = TRUE
    /\ fields' = 0
    /\ category' = 0
    /\ talks' = 0
    /\ upset' = FALSE
    /\ late' = FALSE
    /\ odd' = FALSE
    /\ UNCHANGED <<stack, audio>>

User == Press \/ Release \/ Accept \/ Reject \/ Reopen

Handlers ==
    \/ StartRecording \/ StopRecording
    \/ NothingHeard \/ Heard \/ SendRequest \/ ReplyUsed \/ LocalParse
    \/ Destroy \/ Destroyed

Next == User \/ Handlers \/ ArecordWrites \/ ArecordDies

(* The handlers go on by themselves: every wait in them has a timeout but  *)
(* the one for the reply, which ClosedEnds speaks about.                   *)
Spec == Init /\ [][Next]_vars /\ WF_vars(Handlers /\ ~At("wait"))

-----------------------------------------------------------------------------
(* The variables keep their types, and no more handlers are under way than *)
(* the reentrancy of the dialog allows.                                    *)
DialogTypeOK ==
    /\ phase \in {"open", "closed", "destroy", "gone"}
    /\ stack \in Seq([at : Places, talk : 1..MaxTalks])
    /\ Len(stack) <= 2
    /\ {accepted, recording, capturing, arecord, upset, late, odd} \subseteq BOOLEAN
    /\ {down, recordOn, confirmOn} \subseteq BOOLEAN
    /\ wav \in {"none", "writing", "whole"}
    /\ {fields, category, talks} \subseteq 0..MaxTalks

(* While a recording is recognised no other one runs: both would use the   *)
(* same file, and the answer to the first would fill the fields while the  *)
(* user speaks the second.                                                 *)
OneRecording ==
    \A i \in DOMAIN stack : stack[i].at \in {"finished", "parse", "wait"} => ~capturing

(* The user can only confirm fields that come from the last recording, or  *)
(* from none if there was none.                                            *)
ConfirmIsLatest == phase = "open" /\ confirmOn => fields = talks

(* The category that is confirmed is that of the last recording too, or    *)
(* that of an earlier one if the last reply named none of the three; no    *)
(* other failure leaves a category behind that belongs to a sentence the   *)
(* user has replaced.                                                      *)
CategoryIsLatest == phase = "open" /\ confirmOn => category = talks \/ odd

(* The fields that were confirmed are the fields that onVoiceInput takes:  *)
(* no late answer changes them between the click and the end of exec().    *)
AcceptedKept == [][phase = "closed" /\ accepted => UNCHANGED form]_vars

(* A dialog that was closed is destroyed, whatever handlers were under way *)
(* and whatever its destructor recognises, if the replies it waits for     *)
(* come.                                                                   *)
ClosedEnds == []<>~At("wait") => (phase = "closed" ~> phase = "gone")

(* The recorder sends no signal to a dialog that is already destroyed, as  *)
(* long as each press started arecord and was handled before its release:  *)
(* the destructor of the dialog has stopped it.                            *)
NeverLate == late => upset

(* "Release, and it is recognised" (voiceinputdialog.cpp 67): when the     *)
(* handlers are done the record button can be pressed again, unless        *)
(* arecord did not start or a release overtook its press.  Nothing else    *)
(* disables the button for good: not a recorder that is killed, dies or    *)
(* hears nothing, nor a dialog that is opened again.                       *)
OnlyUpsetDisables == phase = "open" /\ stack = <<>> => recordOn \/ upset
=============================================================================
