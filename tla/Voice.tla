------------------------------- MODULE Voice -------------------------------
(***************************************************************************)
(* The spoken side of the menu-bar app (ui/menu_bar.py, voice_session.py,  *)
(* voice_state.py, quiet_mode.py, tts_control.py, voice/speak.py): the     *)
(* voice loop, "Ask CampusPilot" and the scheduler run requests and speak  *)
(* their replies.  While a request runs one thread listens for "Jarvis,    *)
(* stop", and while a reply is spoken one listens for the wake word.       *)
(***************************************************************************)
EXTENDS Integers, FiniteSets

CONSTANTS
    People,       \* threads that take requests: the voice loop, "Ask"
    Scheduler,    \* the thread of _scheduler_loop
    MaxLate,      \* bound: listeners still transcribing when what they listened for is over
    Nobody

\* What is assumed of the constants.
VoiceAssumption ==
    /\ Scheduler \notin People /\ Nobody \notin People \cup {Scheduler}
    /\ MaxLate \in Nat

Callers == People \cup {Scheduler}

VARIABLES
    busy,         \* _busy_lock: who took it
    quiet,        \* quiet_mode.json
    at,           \* where each caller is
    round,        \* of the two exchanges of _run_conversation_turn
    request,      \* the caller's request in the core
    stopListener, \* watch_for_cancellation of that request
    speech,       \* the caller's speak_natural
    after,        \* what the caller does when it has been spoken
    wakeListener, \* _watch_for_speech_interrupt of that speech
    command,      \* the wake word was heard, with a command
    pid,          \* tts.pid: whose playback it names
    late          \* listeners whose request or speech is over

turn == <<busy, at, round, after>>
sound == <<speech, wakeListener, command, pid>>
core == <<request, stopListener>>
vars == <<quiet, late, turn, sound, core>>

Listening == {"none", "listening", "transcribing"}

TypeOK ==
    /\ busy \in Callers \cup {Nobody}
    /\ quiet \in {"no", "quiet", "timed"}
    /\ at \in [Callers -> {"idle", "heard", "waiting", "timedOut", "speaking", "asking"}]
    /\ round \in [Callers -> 0 .. 2]
    /\ request \in [Callers -> {"none", "active", "stopping", "answered", "question"}]
    /\ stopListener \in [Callers -> Listening]
    /\ speech \in [Callers -> {"silent", "synthesizing", "playing", "saying", "killed"}]
    /\ after \in [Callers -> {"idle", "reply", "question", "end"}]
    /\ wakeListener \in [Callers -> Listening]
    /\ command \in [Callers -> BOOLEAN]
    /\ pid \in Callers \cup {Nobody}
    /\ late \in [{"stop", "wake"} -> 0 .. MaxLate]

Init ==
    /\ busy = Nobody /\ quiet = "no"
    /\ at = [c \in Callers |-> "idle"]
    /\ round = [c \in Callers |-> 0]
    /\ request = [c \in Callers |-> "none"]
    /\ stopListener = [c \in Callers |-> "none"]
    /\ speech = [c \in Callers |-> "silent"]
    /\ after = [c \in Callers |-> "idle"]
    /\ wakeListener = [c \in Callers |-> "none"]
    /\ command = [c \in Callers |-> FALSE]
    /\ pid = Nobody
    /\ late = [k \in {"stop", "wake"} |-> 0]

----------------------------------------------------------------------------
GoTo(c, s) == at' = [at EXCEPT ![c] = s]
Silence == UNCHANGED sound

\* The caller gives the busy lock back; finish() does not look whose it is.
Finish(c) == GoTo(c, "idle") /\ busy' = Nobody

\* speak_with_interruption_watch begins, with whatever others say as `speeches`.
BeginSpeech(c, speeches, next) ==
    /\ GoTo(c, "speaking")
    /\ speech' = [speeches EXCEPT ![c] = "synthesizing"]
    /\ wakeListener' = [wakeListener EXCEPT ![c] = "listening"]
    /\ after' = [after EXCEPT ![c] = next]
    /\ UNCHANGED command

Say(c, next) == BeginSpeech(c, speech, next) /\ UNCHANGED pid

\* stop_speaking: SIGTERM to the playback that tts.pid names.
Stopped ==
    [c \in Callers |-> IF pid = c /\ speech[c] \in {"playing", "saying"} THEN "killed" ELSE speech[c]]
StopSpeaking == speech' = Stopped /\ pid' = Nobody

----------------------------------------------------------------------------
\* _run_and_report, classify first.  "Be quiet" is obeyed without a word,
BeQuiet(c) ==
    /\ at[c] = "heard"
    /\ quiet' = "quiet"
    /\ StopSpeaking
    /\ GoTo(c, "idle")
    /\ UNCHANGED <<late, busy, round, after, wakeListener, command, core>>

\* "sleep" and "off" with one.
Sleep(c) ==
    /\ at[c] = "heard"
    /\ quiet' = "timed"
    /\ BeginSpeech(c, Stopped, "idle") /\ pid' = Nobody
    /\ UNCHANGED <<late, busy, round, core>>

Ignore(c) ==
    /\ at[c] = "heard" /\ quiet # "no"
    /\ GoTo(c, "idle")
    /\ Silence /\ UNCHANGED <<quiet, late, busy, round, after, core>>

\* A bare "stop" with nothing to stop, or any request while another one runs.
Decline(c) ==
    /\ at[c] = "heard" /\ (quiet = "no" \/ busy # Nobody)
    /\ Say(c, "idle")
    /\ quiet' = "no"
    /\ UNCHANGED <<late, busy, round, core>>

Submit(c) ==
    /\ request' = [request EXCEPT ![c] = "active"]
    /\ stopListener' = [stopListener EXCEPT ![c] = IF c = Scheduler THEN "none" ELSE "listening"]
    /\ GoTo(c, "waiting")

\* A request, or a wake phrase when it is quiet.
Start(c) ==
    /\ at[c] = "heard" /\ busy = Nobody
    /\ quiet' = "no"
    /\ busy' = c
    /\ Submit(c)
    /\ round' = [round EXCEPT ![c] = 1]
    /\ Silence /\ UNCHANGED <<late, after>>

\* Someone speaks to the caller, or writes.
Hear(c) ==
    /\ c \in People /\ at[c] = "idle"
    /\ GoTo(c, "heard")
    /\ Silence /\ UNCHANGED <<quiet, late, busy, round, after, core>>

\* _run_due_scheduled_tasks, for a due task, if no conversation is active.
RunScheduled ==
    /\ at[Scheduler] = "idle" /\ busy = Nobody
    /\ busy' = Scheduler
    /\ Submit(Scheduler)
    /\ Silence /\ UNCHANGED <<quiet, late, round, after>>

----------------------------------------------------------------------------
Running(c) == request[c] \in {"active", "stopping"}

\* The core is done with the request, or has put a question that waits for a yes.  Its
\* listener closes, unless it is transcribing and outlasts join(timeout=2).
RequestEnds(c, result) ==
    /\ Running(c)
    /\ result = "question" => c \in People /\ request[c] = "active"
    /\ request' = [request EXCEPT ![c] = result]
    /\ \/ UNCHANGED late
       \/ /\ stopListener[c] = "transcribing"
          /\ late["stop"] < MaxLate /\ late' = [late EXCEPT !["stop"] = @ + 1]
    /\ stopListener' = [stopListener EXCEPT ![c] = "none"]
    /\ UNCHANGED <<quiet, turn, sound>>

\* request_cancel of every request that list_active has.
StopActive == request' = [c \in Callers |-> IF request[c] = "active" THEN "stopping" ELSE request[c]]

\* Someone is heard while it runs.
HearStop(c) ==
    /\ stopListener[c] = "listening"
    /\ stopListener' = [stopListener EXCEPT ![c] = "transcribing"]
    /\ UNCHANGED <<quiet, late, turn, sound, request>>

\* It was "Jarvis, stop", or it was not.
StopHeard(c) ==
    /\ stopListener[c] = "transcribing"
    /\ \/ /\ stopListener' = [stopListener EXCEPT ![c] = "none"]
          /\ StopActive
       \/ /\ stopListener' = [stopListener EXCEPT ![c] = "listening"]
          /\ UNCHANGED request
    /\ UNCHANGED <<quiet, late, turn, sound>>

\* The same from a listener whose request is over.
LateStop ==
    /\ late["stop"] > 0 /\ late' = [late EXCEPT !["stop"] = @ - 1]
    /\ StopActive \/ UNCHANGED request
    /\ UNCHANGED <<quiet, turn, sound, stopListener>>

\* future.result() within its 300 s.
Answered(c) ==
    /\ c \in People /\ at[c] = "waiting" /\ request[c] \in {"answered", "question"}
    /\ Say(c, IF request[c] = "question" THEN "question" ELSE "reply")
    /\ request' = [request EXCEPT ![c] = "none"]
    /\ UNCHANGED <<quiet, late, busy, round, stopListener>>

TimesOut(c) ==
    /\ c \in People /\ at[c] = "waiting" /\ Running(c)
    /\ GoTo(c, "timedOut")
    /\ request' = [request EXCEPT ![c] = "stopping"]
    /\ Silence /\ UNCHANGED <<quiet, late, busy, round, after, stopListener>>

\* Mutant of MayGoOn: a request past its time is left behind.
LeavesItBehind(c) == TRUE

MayGoOn(c) == ~Running(c)

\* The busy lock is kept until the worker is really done.
GaveUp(c) ==
    /\ at[c] = "timedOut" /\ MayGoOn(c)
    /\ Say(c, "reply")
    /\ request' = [request EXCEPT ![c] = IF Running(c) THEN @ ELSE "none"]
    /\ UNCHANGED <<quiet, late, busy, round, stopListener>>

\* execute_task of the scheduler returns, or raises; its reply is spoken unless it is quiet.
ScheduledEnds ==
    /\ at[Scheduler] = "waiting" /\ request[Scheduler] = "answered"
    /\ request' = [request EXCEPT ![Scheduler] = "none"]
    /\ \/ Finish(Scheduler) /\ Silence /\ UNCHANGED after
       \/ quiet = "no" /\ Say(Scheduler, "end") /\ UNCHANGED busy
    /\ UNCHANGED <<quiet, late, round, stopListener>>

----------------------------------------------------------------------------
\* A sentence has been synthesized: it plays, and tts.pid names it.  If that failed, `say`
\* says the whole reply, or that failed too.
Play(c) ==
    /\ speech[c] = "synthesizing"
    /\ \E s \in {"playing", "saying", "silent"} :
          /\ speech' = [speech EXCEPT ![c] = s]
          /\ pid' = IF s = "silent" THEN pid ELSE c
    /\ UNCHANGED <<quiet, late, turn, core, wakeListener, command>>

EndPlayback(c, next) ==
    /\ speech' = [speech EXCEPT ![c] = next]
    /\ pid' = IF pid = c THEN Nobody ELSE pid
    /\ UNCHANGED <<quiet, late, turn, core, wakeListener, command>>

\* The next one; after a playback that hung for its 60 s, `say` has it.
NextSentence(c) == speech[c] = "playing" /\ EndPlayback(c, "synthesizing")

LastSentence(c) == speech[c] \in {"playing", "saying"} /\ EndPlayback(c, "silent")

\* A negative exit code: no further sentence.
KilledEnds(c) == speech[c] = "killed" /\ EndPlayback(c, "silent")

HearWake(c) ==
    /\ wakeListener[c] = "listening" /\ speech[c] # "silent"
    /\ wakeListener' = [wakeListener EXCEPT ![c] = "transcribing"]
    /\ UNCHANGED <<quiet, late, turn, core, speech, command, pid>>

NotTheWakeWord(c) ==
    /\ wakeListener[c] = "transcribing"
    /\ wakeListener' = [wakeListener EXCEPT ![c] = "listening"]
    /\ UNCHANGED <<quiet, late, turn, core, speech, command, pid>>

WakeHeard(c) ==
    /\ wakeListener[c] = "transcribing"
    /\ wakeListener' = [wakeListener EXCEPT ![c] = "none"]
    /\ StopSpeaking
    /\ \E b \in BOOLEAN : command' = [command EXCEPT ![c] = b]
    /\ UNCHANGED <<quiet, late, turn, core>>

\* A listener that outlasted its speech stops whichever speech there is now; its command is lost.
LateWake ==
    /\ late["wake"] > 0 /\ late' = [late EXCEPT !["wake"] = @ - 1]
    /\ StopSpeaking
    /\ UNCHANGED <<quiet, turn, core, wakeListener, command>>

\* speak_with_interruption_watch returns: a command is taken up if it interrupted a reply,
\* with the busy lock free again; else what is next.
Spoken(c) ==
    /\ at[c] = "speaking" /\ speech[c] = "silent"
    /\ \/ UNCHANGED late
       \/ /\ wakeListener[c] = "transcribing"
          /\ late["wake"] < MaxLate /\ late' = [late EXCEPT !["wake"] = @ + 1]
    /\ wakeListener' = [wakeListener EXCEPT ![c] = "none"]
    /\ command' = [command EXCEPT ![c] = FALSE]
    /\ LET interrupted == command[c] /\ after[c] \in {"reply", "question"}
           over == after[c] \in {"reply", "end"} \/ interrupted IN
          /\ busy' = IF over THEN Nobody ELSE busy
          /\ round' = [round EXCEPT ![c] = IF over THEN 0 ELSE @]
          /\ GoTo(c, IF interrupted THEN "heard"
                     ELSE IF after[c] = "question" THEN "asking" ELSE "idle")
    /\ after' = [after EXCEPT ![c] = "idle"]
    /\ UNCHANGED <<quiet, core, speech, pid>>

\* Mutant of MayAskAgain: as long as there is something to confirm.
AlwaysAsksAgain(c) == TRUE

MayAskAgain(c) == round[c] < 2

\* listen_for_followup: no answer, or no, or no exchange left: a last word.
LeaveIt(c) ==
    /\ at[c] = "asking"
    /\ Say(c, "end")
    /\ UNCHANGED <<quiet, late, busy, round, core>>

\* Yes, or something unclear: through the core again.
Resend(c) ==
    /\ at[c] = "asking" /\ MayAskAgain(c)
    /\ round' = [round EXCEPT ![c] = IF @ < 2 THEN @ + 1 ELSE @]
    /\ Submit(c)
    /\ Silence /\ UNCHANGED <<quiet, late, busy, after>>

\* speak_interruptible, of another process.
OthersSpeak ==
    /\ StopSpeaking
    /\ UNCHANGED <<quiet, late, turn, core, wakeListener, command>>

\* The end of a timed sleep.
WakeByItself ==
    /\ quiet = "timed" /\ quiet' = "no"
    /\ UNCHANGED <<late, turn, sound, core>>

Turn(c) ==
    \/ BeQuiet(c) \/ Sleep(c) \/ Ignore(c) \/ Decline(c) \/ Start(c)
    \/ Answered(c) \/ GaveUp(c) \/ Spoken(c) \/ LeaveIt(c)

Next ==
    \/ \E c \in Callers :
          \/ Turn(c) \/ Hear(c) \/ TimesOut(c)
          \/ \E result \in {"answered", "question"} : RequestEnds(c, result)
          \/ HearStop(c) \/ StopHeard(c) \/ Resend(c)
          \/ Play(c) \/ NextSentence(c) \/ LastSentence(c) \/ KilledEnds(c)
          \/ HearWake(c) \/ NotTheWakeWord(c) \/ WakeHeard(c)
    \/ RunScheduled \/ ScheduledEnds \/ LateStop \/ LateWake \/ OthersSpeak \/ WakeByItself

\* Requests end and sentences end; a listener transcribes in bounded time, and an answer to
\* a question is waited for in bounded time.
Progress(c) ==
    \/ RequestEnds(c, "answered") \/ Answered(c) \/ GaveUp(c) \/ Spoken(c) \/ LeaveIt(c) \/ Resend(c)
    \/ Play(c) \/ KilledEnds(c)

Spec == Init /\ [][Next]_vars
FairSpec ==
    /\ Spec
    /\ \A c \in Callers : SF_vars(LastSentence(c))
    /\ \A c \in Callers : WF_vars(Progress(c))
    /\ WF_vars(ScheduledEnds) /\ WF_vars(LateStop) /\ WF_vars(LateWake)

----------------------------------------------------------------------------
\* No two requests of the menu-bar app run at once: not after a timeout, an interrupted
\* reply or a late answer, and not a scheduled one beside a conversation.
OneRequestAtATime ==
    \A c \in Callers : Running(c) => busy = c

\* A caller that has the busy lock gives it back once its requests and replies come to an
\* end, however often its questions are answered unclearly.
BusyIsGivenBack == \A c \in Callers : busy = c ~> busy # c

\* A request is stopped by its own timeout or by what was said while it ran: a listener for
\* "Jarvis, stop" is gone once its request is over (voice_session.py:144-147).
StoppedByItsOwn(c) ==
    request[c] = "active" /\ request'[c] = "stopping" =>
        at'[c] = "timedOut" \/ stopListener[c] = "transcribing"
StopsOnlyItsRequest == [][\A c \in Callers : StoppedByItsOwn(c)]_vars
=============================================================================
