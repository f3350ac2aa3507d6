--------------------------- MODULE VoiceTestProofs ---------------------------
(***************************************************************************)
(* The mode of the terminal and the transcribed file in VoiceTest, for any *)
(* number of processes.                                                    *)
(***************************************************************************)
EXTENDS VoiceTest, TLAPS

(* What has to be remembered for the promise to be kept at the end: the    *)
(* tool still knows the mode it found, whatever it has forked since.       *)
ModeInv ==
    /\ orig \in [0..MaxForks -> Modes]
    /\ tty \in Modes
    /\ running \in BOOLEAN
    /\ upset \/ IF running THEN tty = "raw" /\ orig[0] = "cooked"
                           ELSE tty = "cooked"

LEMMA ModeInit == Init => ModeInv
BY ForksAssumption DEF Init, ModeInv, Modes

LEMMA ModeStep == ModeInv /\ [Next]_vars => ModeInv'
<1>. SUFFICES ASSUME ModeInv, [Next]_vars
              PROVE  ModeInv'
    OBVIOUS
<1>. USE ForksAssumption DEF ModeInv, Modes
<1>1. CASE UNCHANGED vars
    BY <1>1 DEF vars
<1>2. CASE Main
    <2>1. orig' = [orig EXCEPT ![0] = tty] /\ tty' = "raw" /\ running' = TRUE
          /\ upset' = (tty = "raw")
        BY <1>2 DEF Main, SetRawMode
    <2>2. orig' \in [0..MaxForks -> Modes] /\ orig'[0] = tty
        BY <2>1
    <2>. QED  BY <2>1, <2>2
<1>3. CASE StartRecording
    <2>1. \/ UNCHANGED orig
          \/ \E p \in Pids : orig' = [orig EXCEPT ![p] = orig[0]]
        BY <1>3 DEF StartRecording
    <2>2. orig' \in [0..MaxForks -> Modes] /\ orig'[0] = orig[0]
        BY <2>1 DEF Pids
    <2>3. UNCHANGED <<running, tty, upset>>
        BY <1>3 DEF StartRecording
    <2>. QED  BY <2>2, <2>3
<1>4. CASE StopRecording
    BY <1>4 DEF StopRecording
<1>5. CASE Quit
    <2>1. running' = FALSE /\ tty' = orig[0] /\ orig' = orig /\ upset' = upset /\ running
        BY <1>5 DEF Quit, Exit
    <2>2. 0 \in 0..MaxForks /\ orig[0] \in Modes
        OBVIOUS
    <2>. QED  BY <2>1, <2>2
<1>6. CASE Interrupt
    BY <1>6 DEF Interrupt, Exit
<1>7. ASSUME NEW p \in Pids, ExecSucceeds(p) \/ ArecordOpens(p) \/ ArecordEnds(p)
      PROVE  ModeInv'
    BY <1>7 DEF ExecSucceeds, ArecordOpens, ArecordEnds
<1>8. ASSUME NEW p \in Pids, ExecFails(p)
      PROVE  ModeInv'
    <2>1. tty' \in Modes
        BY <1>8 DEF ExecFails, Pids
    <2>. QED  BY <1>8, <2>1 DEF ExecFails
<1>. QED  BY <1>1, <1>2, <1>3, <1>4, <1>5, <1>6, <1>7, <1>8 DEF Next

(* The tool leaves the terminal as it found it, over any number of runs    *)
(* and of recordings, if every arecord could be started and Ctrl-C was     *)
(* not used (set_raw_mode, restore_terminal, start_recording).             *)
THEOREM TerminalGivenBack == Spec => []TerminalMode
<1>1. ModeInv => TerminalMode
    BY DEF ModeInv, TerminalMode
<1>. QED  BY ModeInit, ModeStep, <1>1, PTL DEF Spec

-----------------------------------------------------------------------------
(* The file.  While a recording that began alone goes on, no other arecord *)
(* lives; so once its arecord has made the file nobody else is in it.      *)

FileInv ==
    /\ child \in [Pids -> {"unborn", "forked", "arecord", "dead"}]
    /\ wav \in [by : SUBSET Pids, open : SUBSET Pids]
    /\ \A p \in wav.by : child[p] # "unborn"
    /\ \A p \in wav.open : child[p] = "arecord"
    /\ recording /\ alone =>
          /\ Living \subseteq {recPid}
          /\ recPid \in wav.by => wav.by = {recPid}

LEMMA FileInit == Init => FileInv
BY DEF Init, FileInv, NoFile, Pids

LEMMA FailedIsNoPid == Failed \notin Pids
BY ForksAssumption DEF Failed, Pids

(* Processes that end leave the file to the others.                        *)
LEMMA EndKeeps ==
    ASSUME FileInv, NEW S, End(S)
    PROVE  /\ child' \in [Pids -> {"unborn", "forked", "arecord", "dead"}]
           /\ wav' \in [by : SUBSET Pids, open : SUBSET Pids]
           /\ \A p \in wav'.by : child'[p] # "unborn"
           /\ \A p \in wav'.open : child'[p] = "arecord"
           /\ Living' \subseteq Living /\ wav'.by = wav.by /\ wav'.open = wav.open \ S
<1>1. /\ wav \in [by : SUBSET Pids, open : SUBSET Pids]
      /\ wav' = [wav EXCEPT !.open = @ \ S]
      /\ child' = [p \in Pids |-> IF p \in S \cap Living THEN "dead" ELSE child[p]]
      /\ child \in [Pids -> {"unborn", "forked", "arecord", "dead"}]
      /\ \A p \in wav.by : child[p] # "unborn"
      /\ \A p \in wav.open : child[p] = "arecord"
    BY DEF FileInv, End
<1>2. wav'.by = wav.by /\ wav'.open = wav.open \ S
      /\ wav' \in [by : SUBSET Pids, open : SUBSET Pids]
    BY <1>1
<1>3. child' \in [Pids -> {"unborn", "forked", "arecord", "dead"}]
      /\ \A p \in Pids : child'[p] = IF p \in S \cap Living THEN "dead" ELSE child[p]
    BY <1>1
<1>4. Living' \subseteq Living
    BY <1>3 DEF Living
<1>. QED  BY <1>1, <1>2, <1>3, <1>4

LEMMA FileStep == FileInv /\ [Next]_vars => FileInv'
<1>. SUFFICES ASSUME FileInv, [Next]_vars
              PROVE  FileInv'
    OBVIOUS
<1>1. CASE UNCHANGED vars
    BY <1>1 DEF vars, FileInv, Living
<1>2. CASE Main
    BY <1>2 DEF Main, FileInv, Living
<1>3. CASE StartRecording
    <2>1. UNCHANGED wav /\ recording' = TRUE /\ alone' = (Living = {})
        BY <1>3 DEF StartRecording
    <2>2. ASSUME NEW p \in Pids, child[p] = "unborn", recPid' = p,
                 child' = [child EXCEPT ![p] = "forked"]
          PROVE  FileInv'
        <3>1. /\ child' \in [Pids -> {"unborn", "forked", "arecord", "dead"}]
              /\ \A q \in Pids : child'[q] = IF q = p THEN "forked" ELSE child[q]
            BY <2>2 DEF FileInv
        <3>2. p \notin wav.by /\ p \notin wav.open
            BY <2>2 DEF FileInv
        <3>3. Living' \subseteq Living \cup {p}
            BY <3>1 DEF Living
        <3>4. /\ \A q \in wav.by : q \in Pids /\ child'[q] # "unborn"
              /\ \A q \in wav.open : q \in Pids /\ child'[q] = "arecord"
            BY <3>1, <3>2 DEF FileInv
        <3>. QED  BY <2>1, <2>2, <3>1, <3>2, <3>3, <3>4 DEF FileInv
    <2>3. CASE recPid' = Failed /\ UNCHANGED child
        <3>1. Failed \notin wav.by
            BY FailedIsNoPid DEF FileInv
        <3>. QED  BY <2>1, <2>3, <3>1 DEF FileInv, Living
    <2>. QED  BY <1>3, <2>2, <2>3 DEF StartRecording
<1>4. CASE StopRecording
    <2>1. End({recPid}) /\ recording' = FALSE
        BY <1>4 DEF StopRecording
    <2>. QED  BY <2>1, EndKeeps DEF FileInv
<1>5. CASE Quit
    BY <1>5 DEF Quit, Exit, FileInv
<1>6. CASE Interrupt
    <2>1. End({recPid}) /\ recording' = FALSE
        BY <1>6 DEF Interrupt, Exit
    <2>. QED  BY <2>1, EndKeeps DEF FileInv
<1>7. ASSUME NEW p \in Pids, ExecSucceeds(p)
      PROVE  FileInv'
    <2>1. /\ child[p] = "forked" /\ child' = [child EXCEPT ![p] = "arecord"]
          /\ UNCHANGED <<recording, recPid, wav, alone>>
        BY <1>7 DEF ExecSucceeds
    <2>2. /\ child' \in [Pids -> {"unborn", "forked", "arecord", "dead"}]
          /\ \A q \in Pids : child'[q] = IF q = p THEN "arecord" ELSE child[q]
        BY <2>1 DEF FileInv
    <2>3. Living' \subseteq Living
        BY <2>1, <2>2 DEF Living
    <2>4. /\ \A q \in wav.by : q \in Pids /\ child'[q] # "unborn"
          /\ \A q \in wav.open : q \in Pids /\ child'[q] = "arecord"
        BY <2>2 DEF FileInv
    <2>. QED  BY <2>1, <2>2, <2>3, <2>4 DEF FileInv
<1>8. ASSUME NEW p \in Pids, ExecFails(p) \/ ArecordEnds(p)
      PROVE  FileInv'
    <2>1. End({p}) /\ UNCHANGED <<recording, recPid, alone>>
        BY <1>8 DEF ExecFails, ArecordEnds
    <2>. QED  BY <2>1, EndKeeps DEF FileInv
<1>9. ASSUME NEW p \in Pids, ArecordOpens(p)
      PROVE  FileInv'
    <2>1. /\ child[p] = "arecord" /\ UNCHANGED <<recording, recPid, child, alone>>
          /\ wav' = [by |-> {p} \cup wav.open, open |-> {p} \cup wav.open]
        BY <1>9 DEF ArecordOpens
    <2>2. Living' = Living /\ p \in Living /\ wav.open \subseteq Living
        BY <2>1 DEF Living, FileInv
    <2>3. recording /\ alone => p = recPid /\ wav.open \subseteq {recPid}
        BY <2>2 DEF FileInv
    <2>4. wav' \in [by : SUBSET Pids, open : SUBSET Pids]
          /\ wav'.by = {p} \cup wav.open /\ wav'.open = {p} \cup wav.open
        BY <2>1 DEF FileInv
    <2>5. /\ \A q \in wav'.by : child'[q] = "arecord"
          /\ \A q \in wav'.open : child'[q] = "arecord"
        BY <2>1, <2>4 DEF FileInv
    <2>. QED  BY <2>1, <2>2, <2>3, <2>4, <2>5 DEF FileInv
<1>. QED  BY <1>1, <1>2, <1>3, <1>4, <1>5, <1>6, <1>7, <1>8, <1>9 DEF Next

(* What is transcribed is the recording just stopped, whole, if its        *)
(* arecord opened the file and none of an earlier run was left over: stop  *)
(* waits for the child before the file is read (start_recording,           *)
(* stop_recording, main).                                                  *)
THEOREM LatestIsTranscribed == Spec => TranscriptIsLatest
<1>. DEFINE Latest == running /\ recording /\ running' /\ ~recording' /\ alone /\ recPid \in wav.by
                          => heard' = [by |-> {recPid}, open |-> {}]
<1>1. FileInv /\ [Next]_vars => [Latest]_vars
    <2>. SUFFICES ASSUME FileInv, Next, running, recording, running', ~recording', alone,
                         recPid \in wav.by
                  PROVE  heard' = [by |-> {recPid}, open |-> {}]
        OBVIOUS
    <2>1. StopRecording
        BY DEF Next, Main, StartRecording, Quit, Interrupt, Exit, ExecSucceeds, ExecFails,
               ArecordOpens, ArecordEnds
    <2>2. heard' = wav' /\ wav' = [wav EXCEPT !.open = @ \ {recPid}]
        BY <2>1 DEF StopRecording, End
    <2>3. /\ wav.by = {recPid} /\ wav.open \subseteq {recPid}
          /\ wav \in [by : SUBSET Pids, open : SUBSET Pids]
        BY DEF FileInv, Living
    <2>. QED  BY <2>2, <2>3
<1>. HIDE DEF Latest
<1>2. Spec => [][Latest]_vars
    BY FileInit, FileStep, <1>1, PTL DEF Spec
<1>. QED  BY <1>2 DEF TranscriptIsLatest, Latest
=============================================================================
