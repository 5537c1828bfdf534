----------------------------- MODULE EmailDraft -----------------------------
(***************************************************************************)
(* tools/messaging.py: draft_email leaves a visible draft in Mail and one  *)
(* pending record for the whole process; send_email needs a record for its *)
(* recipient, and finds the message to send by its subject.  Conversations *)
(* of one process are threads: each read of the record is a step.          *)
(***************************************************************************)
EXTENDS Integers, Sequences, FiniteSets

CONSTANTS
    Threads,      \* conversations of the process
    Recipients, Subjects,
    Window,       \* CONFIRMATION_WINDOW_SECONDS
    MaxTime,      \* bound: ticks of the clock
    MaxMessages   \* bound: messages ever drafted

\* What is assumed of the constants.
BoundsAssumption == Window \in Nat /\ MaxTime \in Nat /\ MaxMessages \in Nat

VARIABLES
    now,
    pending,      \* _pending_email
    outgoing,     \* Mail: its outgoing messages in their order
    mode,         \* where each thread is
    job,          \* its argument, and the draft it made or took the subject of
    made,         \* history: messages drafted so far
    used,         \* history: for each message, calls of send_email that took its record
    raced,        \* history: messages whose record two calls took before one cleared it
    sent          \* history: what Mail sent, for whom, in whose name

vars == <<now, pending, outgoing, mode, job, made, used, raced, sent>>

Nobody == 0
Messages == [id : 1 .. MaxMessages, to : Recipients, subject : Subjects]
NoMessage == [id |-> Nobody]
Records == [message : Messages, expires : 0 .. MaxTime + Window]
NoRecord == [message |-> NoMessage]
Idle == [to |-> Nobody, message |-> NoMessage]

TypeOK ==
    /\ now \in 0 .. MaxTime
    /\ pending \in Records \cup {NoRecord}
    /\ outgoing \in Seq(Messages)
    /\ mode \in [Threads -> {"idle", "drafted", "asked", "matched", "fresh", "taken", "cleared"}]
    /\ job \in [Threads -> [to : Recipients \cup {Nobody}, message : Messages \cup {NoMessage}]]
    /\ made \in 0 .. MaxMessages
    /\ used \in [1 .. MaxMessages -> Nat]
    /\ raced \in SUBSET (1 .. MaxMessages)
    /\ sent \in SUBSET [asked : Recipients, message : Messages, taken : Messages]

Init ==
    /\ now = 0 /\ pending = NoRecord /\ outgoing = <<>>
    /\ mode = [t \in Threads |-> "idle"]
    /\ job = [t \in Threads |-> Idle]
    /\ made = 0 /\ used = [i \in 1 .. MaxMessages |-> 0]
    /\ raced = {} /\ sent = {}

GoTo(t, m) == mode' = [mode EXCEPT ![t] = m]
GoIdle(t) == GoTo(t, "idle") /\ job' = [job EXCEPT ![t] = Idle]

----------------------------------------------------------------------------
\* draft_email: Mail makes the message; when it fails, nothing is pending.
Draft(t, to, subject) ==
    /\ mode[t] = "idle" /\ made < MaxMessages
    /\ made' = made + 1
    /\ LET m == [id |-> made + 1, to |-> to, subject |-> subject] IN
          /\ outgoing' = Append(outgoing, m)
          /\ job' = [job EXCEPT ![t] = [to |-> to, message |-> m]]
    /\ GoTo(t, "drafted")
    /\ UNCHANGED <<now, pending, used, raced, sent>>

\* ... and the record of it replaces whatever was pending.
Pend(t) ==
    /\ mode[t] = "drafted"
    /\ pending' = [message |-> job[t].message, expires |-> now + Window]
    /\ GoIdle(t)
    /\ UNCHANGED <<now, outgoing, made, used, raced, sent>>

Send(t, to) ==
    /\ mode[t] = "idle"
    /\ job' = [job EXCEPT ![t] = [to |-> to, message |-> NoMessage]]
    /\ GoTo(t, "asked")
    /\ UNCHANGED <<now, pending, outgoing, made, used, raced, sent>>

Is(to) == pending # NoRecord /\ pending.message.to = to

MatchRecipient(t) ==
    /\ mode[t] = "asked"
    /\ IF Is(job[t].to) THEN GoTo(t, "matched") /\ UNCHANGED job ELSE GoIdle(t)
    /\ UNCHANGED <<now, pending, outgoing, made, used, raced, sent>>

\* An expired record is dropped.  One that another thread dropped meanwhile raises.
CheckExpiry(t) ==
    /\ mode[t] = "matched"
    /\ \/ pending = NoRecord /\ GoIdle(t) /\ UNCHANGED pending
       \/ /\ pending # NoRecord /\ now > pending.expires
          /\ pending' = NoRecord
          /\ GoIdle(t)
       \/ /\ pending # NoRecord /\ now <= pending.expires
          /\ GoTo(t, "fresh")
          /\ UNCHANGED <<pending, job>>
    /\ UNCHANGED <<now, outgoing, made, used, raced, sent>>

TakeSubject(t) ==
    /\ mode[t] = "fresh"
    /\ \/ pending = NoRecord /\ GoIdle(t) /\ UNCHANGED <<used, raced>>
       \/ /\ pending # NoRecord
          /\ GoTo(t, "taken")
          /\ job' = [job EXCEPT ![t].message = pending.message]
          /\ used' = [used EXCEPT ![pending.message.id] = @ + 1]
          /\ raced' = IF \E u \in Threads : mode[u] = "taken" /\ job[u].message = pending.message
                         THEN raced \cup {pending.message.id} ELSE raced
    /\ UNCHANGED <<now, pending, outgoing, made, sent>>

\* Mutant of Clear: the record is kept until the message has gone out.
ClearLater(t) ==
    /\ mode[t] = "taken"
    /\ GoTo(t, "cleared")
    /\ UNCHANGED <<now, pending, outgoing, job, made, used, raced, sent>>

Clear(t) ==
    /\ mode[t] = "taken"
    /\ pending' = NoRecord
    /\ GoTo(t, "cleared")
    /\ UNCHANGED <<now, outgoing, job, made, used, raced, sent>>

Matching(m, subject) == m.subject = subject

\* The script sends the first outgoing message with that subject, or finds none, or fails.
RunScript(t) ==
    /\ mode[t] = "cleared"
    /\ \/ UNCHANGED <<outgoing, sent>>
       \/ \E i \in 1 .. Len(outgoing) :
             /\ Matching(outgoing[i], job[t].message.subject)
             /\ \A j \in 1 .. i - 1 : ~Matching(outgoing[j], job[t].message.subject)
             /\ outgoing' = SubSeq(outgoing, 1, i - 1) \o SubSeq(outgoing, i + 1, Len(outgoing))
             /\ sent' = sent \cup {[asked |-> job[t].to, message |-> outgoing[i],
                                    taken |-> job[t].message]}
    /\ GoIdle(t)
    /\ UNCHANGED <<now, pending, made, used, raced>>

----------------------------------------------------------------------------
\* The user closes or sends a draft by hand.
CloseByHand ==
    \E i \in 1 .. Len(outgoing) :
        /\ outgoing' = SubSeq(outgoing, 1, i - 1) \o SubSeq(outgoing, i + 1, Len(outgoing))
        /\ UNCHANGED <<now, pending, mode, job, made, used, raced, sent>>

Tick ==
    /\ now < MaxTime
    /\ now' = now + 1
    /\ UNCHANGED <<pending, outgoing, mode, job, made, used, raced, sent>>

Next ==
    \/ \E t \in Threads :
          \/ \E r \in Recipients : Send(t, r) \/ \E s \in Subjects : Draft(t, r, s)
          \/ Pend(t) \/ MatchRecipient(t) \/ CheckExpiry(t) \/ TakeSubject(t)
          \/ Clear(t) \/ RunScript(t)
    \/ CloseByHand \/ Tick

Spec == Init /\ [][Next]_vars

----------------------------------------------------------------------------
\* Each draft_email lets one send_email through; more only if both had read its record
\* before either cleared it.
OneSendPerDraft == \A i \in 1 .. MaxMessages : used[i] > 1 => i \in raced

\* send_email sends the draft for the recipient it was asked for.
SentToTheOneAsked == \A s \in sent : s.message.to = s.asked
=============================================================================
