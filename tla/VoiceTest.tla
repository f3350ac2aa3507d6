------------------------------ MODULE VoiceTest ------------------------------
(***************************************************************************)
(* voice_test.cpp, the terminal tool that records with arecord while the   *)
(* user speaks and has whisper-cli transcribe the file: its key loop, the  *)
(* processes it forks, the one wav file and the mode of the terminal, over *)
(* any number of runs in one terminal.                                     *)
(***************************************************************************)
EXTENDS Naturals, FiniteSets

CONSTANT MaxForks  \* bound on the processes forked in all runs

ASSUME ForksAssumption == MaxForks \in Nat

VARIABLES
    running,    \* the tool runs and is at its read()
    recording,  \* main's flag
    recPid,     \* rec_pid, 0 for none, Failed for -1
    child,      \* per forked process: its state
    tty,        \* the mode of the terminal
    orig,       \* orig_termios, of the tool at 0 and copied by each fork
    wav,        \* /tmp/voice_input.wav: who wrote it, who has it open
    heard,      \* the file as it was when it was last transcribed
    alone,      \* (observed) no other arecord lived when recording began
    upset       \* (observed) since the tool was started in a cooked terminal
                \* an exec failed or Ctrl-C ended it

vars == <<running, recording, recPid, child, tty, orig, wav, heard, alone, upset>>

Pids == 1..MaxForks
Failed == MaxForks + 1
Modes == {"cooked", "raw"}

NoFile == [by |-> {}, open |-> {}]

Init ==
    /\ running = FALSE
    /\ recording = FALSE
    /\ recPid = 0
    /\ child = [p \in Pids |-> "unborn"]
    /\ tty = "cooked"
    /\ orig = [p \in 0..MaxForks |-> "cooked"]
    /\ wav = NoFile
    /\ heard = NoFile
    /\ alone = TRUE
    /\ upset = FALSE

Living == {p \in Pids : child[p] \in {"forked", "arecord"}}

(* A process that ends closes the file.                                    *)
End(ps) ==
    /\ child' = [p \in Pids |-> IF p \in ps \cap Living THEN "dead" ELSE child[p]]
    /\ wav' = [wav EXCEPT !.open = @ \ ps]

-----------------------------------------------------------------------------
(* set_raw_mode remembers the mode it finds and clears ECHO and ICANON.    *)
(* Mutant: it remembers the mode it has set.                               *)
RemembersRaw == orig' = [orig EXCEPT ![0] = "raw"] /\ tty' = "raw"

SetRawMode == orig' = [orig EXCEPT ![0] = tty] /\ tty' = "raw"

Main ==
    /\ ~running
    /\ running' = TRUE
    /\ SetRawMode
    /\ upset' = (tty = "raw")
    /\ UNCHANGED <<recording, recPid, child, wav, heard, alone>>

(* Space, when not recording: fork() may fail.                             *)
StartRecording ==
    /\ running /\ ~recording
    /\ recording' = TRUE
    /\ alone' = (Living = {})
    /\ \/ \E p \in Pids :
             /\ child[p] = "unborn" /\ \A q \in 1..(p - 1) : child[q] # "unborn"
             /\ child' = [child EXCEPT ![p] = "forked"]
             /\ recPid' = p
             /\ orig' = [orig EXCEPT ![p] = orig[0]]
       \/ recPid' = Failed /\ UNCHANGED <<child, orig>>
    /\ UNCHANGED <<running, tty, wav, heard, upset>>

(* execlp; if it fails, exit(1) runs in the child what main registered     *)
(* with atexit, which sets the mode of the terminal they share.            *)
ExecSucceeds(p) ==
    /\ child[p] = "forked"
    /\ child' = [child EXCEPT ![p] = "arecord"]
    /\ UNCHANGED <<running, recording, recPid, tty, orig, wav, heard, alone, upset>>

ExecFails(p) ==
    /\ child[p] = "forked"
    /\ End({p})
    /\ tty' = orig[p]
    /\ upset' = TRUE
    /\ UNCHANGED <<running, recording, recPid, orig, heard, alone>>

(* arecord creates the file, or finds no device; it may end at any time.   *)
ArecordOpens(p) ==
    /\ child[p] = "arecord" /\ p \notin wav.by
    /\ wav' = [by |-> {p} \cup wav.open, open |-> {p} \cup wav.open]
    /\ UNCHANGED <<running, recording, recPid, child, tty, orig, heard, alone, upset>>

ArecordEnds(p) ==
    /\ child[p] = "arecord"
    /\ End({p})
    /\ UNCHANGED <<running, recording, recPid, tty, orig, heard, alone, upset>>

(* Space, when recording: stop_recording interrupts the child and waits    *)
(* for its end, then the file is transcribed, whatever is in it.  Mutant:  *)
(* it does not wait.                                                       *)
StopDoesNotWait ==
    /\ running /\ recording
    /\ recording' = FALSE
    /\ recPid' = IF recPid = Failed THEN recPid ELSE 0
    /\ heard' = wav
    /\ End({recPid})
    /\ UNCHANGED <<running, tty, orig, alone, upset>>

StopRecording ==
    /\ running /\ recording
    /\ recording' = FALSE
    /\ recPid' = IF recPid = Failed THEN recPid ELSE 0
    /\ End({recPid})
    /\ heard' = wav'
    /\ UNCHANGED <<running, tty, orig, alone, upset>>

Exit == running' = FALSE /\ recording' = FALSE /\ recPid' = 0

(* 'q' leaves the loop, also while recording; the child goes on.           *)
Quit ==
    /\ running
    /\ Exit
    /\ tty' = orig[0]
    /\ UNCHANGED <<child, orig, wav, heard, alone, upset>>

(* Ctrl-C still is a signal in this raw mode: it ends the tool without     *)
(* atexit, and the child with it, which is in the same job.                *)
Interrupt ==
    /\ running
    /\ Exit
    /\ End({recPid})
    /\ upset' = TRUE
    /\ UNCHANGED <<tty, orig, heard, alone>>

Next ==
    \/ Main \/ StartRecording \/ StopRecording \/ Quit \/ Interrupt
    \/ \E p \in Pids : ExecSucceeds(p) \/ ExecFails(p) \/ ArecordOpens(p) \/ ArecordEnds(p)

Spec == Init /\ [][Next]_vars

-----------------------------------------------------------------------------
(* The transcript is that of the recording just stopped, complete, if its  *)
(* arecord came as far as to open the file and no arecord of an earlier    *)
(* run was left over by a 'q' during a recording.  Otherwise the file of   *)
(* before, or a mixture, is transcribed.                                   *)
TranscriptIsLatest ==
    [][running /\ recording /\ running' /\ ~recording' /\ alone /\ recPid \in wav.by
          => heard' = [by |-> {recPid}, open |-> {}]]_vars

(* The terminal reads single keys as long as the tool runs and is given    *)
(* back as it was found, unless a child that failed to start arecord has   *)
(* given it back too early or Ctrl-C ended the tool.                       *)
TerminalMode == upset \/ (tty = IF running THEN "raw" ELSE "cooked")
=============================================================================
