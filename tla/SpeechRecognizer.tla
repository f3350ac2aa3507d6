-------------------------- MODULE SpeechRecognizer --------------------------
(***************************************************************************)
(* SpeechRecognizer (speechrecognizer.cpp): the checks its constructor     *)
(* makes and the calls of recognize(), each of which starts a python       *)
(* process, waits for it for a limited time and looks at its exit code;    *)
(* and the script whisper_stt.py that recognize() runs.                    *)
(*                                                                         *)
(* A QProcess that has not ended has exit code 0.  One that could not be   *)
(* started has whatever code Qt leaves there.  The destructor of QProcess  *)
(* kills a process that still runs.  The GUI thread waits in these calls,  *)
(* so nothing else of the program happens during one.  The main window     *)
(* names a local directory as the model.                                   *)
(***************************************************************************)
EXTENDS Naturals

VARIABLES
    installed,  \* what the machine has, a subset of Things
    wav,        \* the file to recognise
    pc,         \* the call that is under way
    proc,       \* per QProcess of the calls: its state and exit code
    ready,      \* m_ready
    result,     \* what recognize() returned last
    overslept   \* (observed) a check's process did not end within its time

vars == <<installed, wav, pc, proc, ready, result, overslept>>

Things == {"python3", "faster_whisper", "model", "whisper_stt.py"}

Needed == {"python3", "faster_whisper", "model"}

Processes == {"checkPy", "checkWhisper", "proc"}

Wavs == {"missing", "empty", "silence", "speech"}

Unused == [state |-> "none", code |-> 0]

Init ==
    /\ installed \in SUBSET Things
    /\ wav = "missing"
    /\ pc = "construct"
    /\ proc = [p \in Processes |-> Unused]
    /\ ready = FALSE
    /\ result = ""
    /\ overslept = FALSE

-----------------------------------------------------------------------------
(* QProcess.                                                               *)

(* start(): python3 runs, or does not if there is none or no memory.       *)
Started == [state |-> "running", code |-> 0]

Start(p, old) ==
    \/ /\ "python3" \in installed
       /\ proc' = [old EXCEPT ![p] = Started]
    \/ \E code \in {0, 255} :
          proc' = [old EXCEPT ![p] = [state |-> "failed", code |-> code]]

(* The codes whisper_stt.py may end with: 1 for its arguments, 2 for the   *)
(* recognition, which also fails on anything unforeseen.                   *)
ScriptCodes ==
    IF "model" \notin installed \/ wav \in {"missing", "empty"} THEN {1}
    ELSE IF "faster_whisper" \notin installed \/ wav = "silence" THEN {2}
    ELSE {0, 2}

ExitCodes(p) ==
    CASE p = "checkPy"      -> {0}
      [] p = "checkWhisper" -> IF "faster_whisper" \in installed THEN {0} ELSE {1}
      [] p = "proc"         -> ScriptCodes

ProcessEnds(p) ==
    /\ proc[p].state = "running"
    /\ \E code \in ExitCodes(p) :
          proc' = [proc EXCEPT ![p] = [state |-> "exited", code |-> code]]
    /\ UNCHANGED <<installed, wav, pc, ready, result, overslept>>

(* waitForFinished(ms) returns when the process has ended, or was never    *)
(* started, or when the time is over, which may be before it ends.         *)
(* Mutant: a wait without a limit.                                         *)
WaitUnlimited(p) == proc[p].state \in {"failed", "exited"}

WaitOver(p) == proc[p].state \in {"running", "failed", "exited"}

Finished(p) == proc[p].state = "exited"

-----------------------------------------------------------------------------
(* The constructor.                                                        *)

CheckPython ==
    /\ pc = "construct"
    /\ Start("checkPy", proc)
    /\ pc' = "check python"
    /\ UNCHANGED <<installed, wav, ready, result, overslept>>

(* Leaving a call destroys its processes.                                  *)
Return == pc' = "idle" /\ proc' = [p \in Processes |-> Unused]

(* Mutant: the code of the first process is taken for the second's.        *)
CheckIgnoresPackage ==
    /\ pc = "check package"
    /\ WaitOver("checkWhisper")
    /\ overslept' = (overslept \/ ~Finished("checkWhisper"))
    /\ ready' = (proc["checkPy"].code = 0 /\ "model" \in installed)
    /\ Return
    /\ UNCHANGED <<installed, wav, result>>

PythonChecked ==
    /\ pc = "check python"
    /\ WaitOver("checkPy")
    /\ overslept' = (overslept \/ ~Finished("checkPy"))
    /\ IF proc["checkPy"].code # 0 THEN Return
       ELSE /\ Start("checkWhisper", proc)
            /\ pc' = "check package"
    /\ UNCHANGED <<installed, wav, ready, result>>

PackageChecked ==
    /\ pc = "check package"
    /\ WaitOver("checkWhisper")
    /\ overslept' = (overslept \/ ~Finished("checkWhisper"))
    /\ ready' = (proc["checkWhisper"].code = 0 /\ "model" \in installed)
    /\ Return
    /\ UNCHANGED <<installed, wav, result>>

-----------------------------------------------------------------------------
(* recognize().                                                            *)

CanRun == ready /\ wav # "missing" /\ "whisper_stt.py" \in installed

RecognizeRefused ==
    /\ pc = "idle" /\ ~CanRun
    /\ result' = ""
    /\ UNCHANGED <<installed, wav, pc, proc, ready, overslept>>

Recognize ==
    /\ pc = "idle" /\ CanRun
    /\ Start("proc", proc)
    /\ pc' = "recognize"
    /\ UNCHANGED <<installed, wav, ready, result, overslept>>

Recognized ==
    /\ pc = "recognize"
    /\ WaitOver("proc")
    /\ result' = IF Finished("proc") /\ proc["proc"].code = 0 THEN "text" ELSE ""
    /\ Return
    /\ UNCHANGED <<installed, wav, ready, overslept>>

-----------------------------------------------------------------------------
(* Between the calls: recordings come and go, software is installed and    *)
(* removed, the program is started again.                                  *)

WavChanges ==
    /\ pc = "idle"
    /\ wav' \in Wavs
    /\ UNCHANGED <<installed, pc, proc, ready, result, overslept>>

MachineChanges ==
    /\ pc = "idle"
    /\ installed' \in SUBSET Things
    /\ UNCHANGED <<wav, pc, proc, ready, result, overslept>>

Restart ==
    /\ pc = "idle"
    /\ pc' = "construct"
    /\ ready' = FALSE
    /\ result' = ""
    /\ overslept' = FALSE
    /\ UNCHANGED <<installed, wav, proc>>

Calls ==
    \/ CheckPython \/ PythonChecked \/ PackageChecked
    \/ Recognized

Next ==
    \/ Calls
    \/ RecognizeRefused \/ Recognize
    \/ \E p \in Processes : ProcessEnds(p)
    \/ WavChanges \/ MachineChanges \/ Restart

(* A call goes on when its wait is over, which its time limit guarantees.  *)
Spec == Init /\ [][Next]_vars /\ WF_vars(Calls)

-----------------------------------------------------------------------------
(* "Whether Whisper was loaded" (speechrecognizer.h 35): the recogniser is *)
(* ready only on a machine that has Python, the package and the model, if  *)
(* each check ended within its 3 or 5 seconds.  A check that takes longer  *)
(* still has exit code 0 and counts as passed.                             *)
ReadyUnlessOverslept ==
    [][~ready /\ ready' => overslept' \/ Needed \subseteq installed]_vars

(* The constructor and recognize() return, also if a python process hangs, *)
(* and leave no process behind: the window opens and the dialog goes on.   *)
CallsEnd == pc # "idle" ~> pc = "idle" /\ \A p \in Processes : proc[p] = Unused
=============================================================================
