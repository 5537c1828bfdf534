------------------------------ MODULE OpenClaw ------------------------------
(***************************************************************************)
(* The OpenClaw bridge: agent/openclaw_messaging.py and                    *)
(* agent/openclaw_gateway.py.  A call opens one connection, authenticates  *)
(* with the stored device token, falls back once to the shared token, and  *)
(* makes one request.  Several processes share the stored tokens; the      *)
(* Gateway is another program, which may refuse, rotate tokens, answer     *)
(* late, answer nonsense, or die after it has delivered.                   *)
(***************************************************************************)
EXTENDS Integers, Sequences

CONSTANTS
    Calls,        \* calls of send_message, get_status and get_node_list
    Sends,        \* those of send_message
    Acceptable,   \* those that pass the configuration and _validate
    MaxToken      \* bound: device tokens the Gateway ever issues to a profile

\* What is assumed of the constants.
CallsAssumption == Sends \subseteq Calls /\ Acceptable \subseteq Calls
MaxTokenAssumption == MaxToken \in Nat \ {0}

VARIABLES
    pc,           \* where _call of each call is
    attempts,     \* what is left of `attempts`: with the device token, with the shared one
    auth,         \* the device token of the attempt, NoToken for the shared one
    result,       \* what the tool reports
    cancelled,    \* calls whose request has been cancelled
    stored,       \* the keychain: one device token for a profile
    valid,        \* Gateway: the device token it accepts for a profile
    hello,        \* Gateway: its reply to `connect`
    issued,       \* Gateway: the device token in that reply
    request,      \* Gateway: what became of the request frame
    answer,       \* Gateway: its reply to the request
    dials,        \* history: connections opened by a call
    transmitted   \* history: request frames written by a call

clientVars == <<pc, attempts, auth, result, cancelled, dials, transmitted>>
gatewayVars == <<valid, hello, issued, request, answer>>
vars == <<pc, attempts, auth, result, cancelled, stored, valid, hello, issued,
          request, answer, dials, transmitted>>

NoToken == 0
Tokens == NoToken .. MaxToken
Profiles == {"read", "message"}

\* get_status and get_node_list use _READ_PROFILE, _send_raw uses _MESSAGE_PROFILE.
Profile(c) == IF c \in Sends THEN "message" ELSE "read"

\* The delivery_status of send_message.  For a read, "confirmed" is an answer and
\* "failed" is available=False.  "raised" is an exception that leaves the function.
Results == {"none", "confirmed", "failed", "uncertain", "raised"}

TypeOK ==
    /\ pc \in [Calls -> {"new", "ready", "greeting", "welcomed", "waiting", "over"}]
    /\ attempts \in [Calls -> {<<>>, <<"shared">>, <<"device", "shared">>}]
    /\ auth \in [Calls -> Tokens]
    /\ result \in [Calls -> Results]
    /\ cancelled \in SUBSET Calls
    /\ stored \in [Profiles -> Tokens]
    /\ valid \in [Profiles -> Tokens]
    /\ hello \in [Calls -> {"none", "welcome", "unadvertised", "unfit", "mismatch",
                            "refused"}]
    /\ issued \in [Calls -> Tokens]
    /\ request \in [Calls -> {"none", "received", "delivered", "refused"}]
    /\ answer \in [Calls -> {"none", "ok", "odd", "refused", "unreadable", "misshapen"}]
    /\ dials \in [Calls -> 0 .. 2]
    /\ transmitted \in [Calls -> 0 .. 1]

Init ==
    /\ pc = [c \in Calls |-> "new"]
    /\ attempts = [c \in Calls |-> <<>>]
    /\ auth = [c \in Calls |-> NoToken]
    /\ result = [c \in Calls |-> "none"]
    /\ cancelled = {}
    /\ stored \in [Profiles -> {NoToken, 1}]
    /\ valid = [p \in Profiles |-> 1]
    /\ hello = [c \in Calls |-> "none"]
    /\ issued = [c \in Calls |-> NoToken]
    /\ request = [c \in Calls |-> "none"]
    /\ answer = [c \in Calls |-> "none"]
    /\ dials = [c \in Calls |-> 0]
    /\ transmitted = [c \in Calls |-> 0]

\* What was said on a connection is dropped with it.
Disconnect(c) ==
    /\ auth' = [auth EXCEPT ![c] = NoToken]
    /\ hello' = [hello EXCEPT ![c] = "none"]
    /\ issued' = [issued EXCEPT ![c] = NoToken]

End(c, r) ==
    /\ pc' = [pc EXCEPT ![c] = "over"]
    /\ result' = [result EXCEPT ![c] = r]
    /\ Disconnect(c)

\* An exception before the request frame is written is a definite failure.
Fail(c) == End(c, "failed")

(***************************************************************************)
(* The caller's side.                                                      *)
(***************************************************************************)
\* _validate: messaging is enabled, channel and target are allowlisted, the text is neither
\* empty nor too long.  A read has nothing to validate but the configuration.
Valid(c) == c \in Acceptable

\* send_message validates; _call checks profile, configuration and the cancel
\* flag, once, and looks whether there is a device token to try.
Begin(c) ==
    /\ pc[c] = "new"
    /\ \/ /\ ~Valid(c) \/ c \in cancelled
          /\ Fail(c)
          /\ UNCHANGED attempts
       \/ /\ Valid(c) /\ c \notin cancelled
          /\ pc' = [pc EXCEPT ![c] = "ready"]
          /\ attempts' = [attempts EXCEPT ![c] =
                 IF stored[Profile(c)] # NoToken THEN <<"device", "shared">> ELSE <<"shared">>]
          /\ UNCHANGED <<result, auth, hello, issued>>
    /\ UNCHANGED <<cancelled, stored, valid, request, answer, dials, transmitted>>

\* _connect_and_call reads the token again, then dials.  Another process may have
\* cleared it since: then the shared token is used.
Dial(c) ==
    /\ pc[c] = "ready"
    /\ pc' = [pc EXCEPT ![c] = "greeting"]
    /\ auth' = [auth EXCEPT ![c] = IF Head(attempts[c]) = "device" THEN stored[Profile(c)] ELSE NoToken]
    /\ dials' = [dials EXCEPT ![c] = @ + 1]
    /\ UNCHANGED <<attempts, result, cancelled, stored, gatewayVars, transmitted>>

\* Mutant of TokenRejected: the list of attempts is not used up.
TokenRejectedAgain(c) ==
    /\ pc[c] = "greeting" /\ hello[c] = "mismatch"
    /\ pc' = [pc EXCEPT ![c] = "ready"]
    /\ Disconnect(c)
    /\ UNCHANGED <<attempts, result, cancelled, stored, valid, request, answer, dials, transmitted>>

\* AUTH_DEVICE_TOKEN_MISMATCH for a device token: clear it and go round once more.
TokenRejected(c) ==
    /\ pc[c] = "greeting" /\ hello[c] = "mismatch"
    /\ stored' = [stored EXCEPT ![Profile(c)] = NoToken]
    /\ attempts' = [attempts EXCEPT ![c] = Tail(@)]
    /\ pc' = [pc EXCEPT ![c] = "ready"]
    /\ Disconnect(c)
    /\ UNCHANGED <<result, cancelled, valid, request, answer, dials, transmitted>>

\* _raise_for_error, a protocol or a scope that does not fit, a frame that is no object.
HelloRefused(c) ==
    /\ pc[c] = "greeting" /\ hello[c] \in {"refused", "unfit"}
    /\ Fail(c)
    /\ UNCHANGED <<attempts, cancelled, stored, valid, request, answer, dials, transmitted>>

\* The hello fits.  A new device token is stored before the method is looked up.
Welcomed(c) ==
    /\ pc[c] = "greeting" /\ hello[c] \in {"welcome", "unadvertised"}
    /\ stored' = IF issued[c] # NoToken /\ issued[c] # auth[c]
                    THEN [stored EXCEPT ![Profile(c)] = issued[c]] ELSE stored
    /\ \/ /\ hello[c] = "welcome"
          /\ pc' = [pc EXCEPT ![c] = "welcomed"]
          /\ Disconnect(c)
          /\ UNCHANGED result
       \/ /\ hello[c] = "unadvertised"
          /\ Fail(c)
    /\ UNCHANGED <<attempts, cancelled, valid, request, answer, dials, transmitted>>

Transmit(c) ==
    /\ pc[c] = "welcomed"
    /\ pc' = [pc EXCEPT ![c] = "waiting"]
    /\ transmitted' = [transmitted EXCEPT ![c] = @ + 1]
    /\ request' = [request EXCEPT ![c] = "received"]
    /\ UNCHANGED <<attempts, auth, result, cancelled, stored, valid, hello, issued, answer, dials>>

\* Mutant of Unanswered: a lost answer counts as any other error.
AlwaysFailed(c) == "failed"

\* No trustworthy answer to a request that has been written.
Unanswered(c) == IF c \in Sends THEN "uncertain" ELSE "failed"

\* What the caller makes of an answer.  Text that is no JSON is caught where the frame
\* is read; JSON that is no object raises AttributeError, which only _call catches, as a
\* protocol error; a payload that is no object is used outside every handler.
Outcome(c, a) ==
    CASE a = "ok"         -> "confirmed"
      [] a = "odd"        -> "raised"
      [] a = "refused"    -> "failed"
      [] a = "unreadable" -> Unanswered(c)
      [] a = "misshapen"  -> "failed"

ReadAnswer(c) ==
    /\ pc[c] = "waiting" /\ answer[c] # "none"
    /\ End(c, Outcome(c, answer[c]))
    /\ UNCHANGED <<attempts, cancelled, stored, valid, request, answer, dials, transmitted>>

\* Mutant of WaitFails: the wait for the answer has no budget.
WaitFailsEarly(c) == pc[c] \in {"greeting", "welcomed"} /\ Fail(c)

\* The budget of the call runs out, or the connection breaks, wherever it waits.
WaitFails(c) ==
    \/ pc[c] \in {"greeting", "welcomed"} /\ Fail(c)
    \/ pc[c] = "waiting" /\ End(c, Unanswered(c))

GivesUp(c) ==
    /\ WaitFails(c)
    /\ UNCHANGED <<attempts, cancelled, stored, valid, request, answer, dials, transmitted>>

(***************************************************************************)
(* The Gateway, as the caller's code expects it.                           *)
(***************************************************************************)
\* It rejects a device token that is not the valid one.  Of the rest it may refuse any
\* (pairing, rate limit, scope), and it may issue a token, the valid one or a new one.
Greet(c) ==
    /\ pc[c] = "greeting" /\ hello[c] = "none"
    /\ LET p == Profile(c) IN
       \/ /\ auth[c] # NoToken /\ auth[c] # valid[p]
          /\ hello' = [hello EXCEPT ![c] = "mismatch"]
          /\ UNCHANGED <<valid, issued>>
       \/ /\ auth[c] \in {NoToken, valid[p]}
          /\ \E h \in {"welcome", "unadvertised"}, t \in {NoToken, valid[p], valid[p] + 1} \cap Tokens :
                /\ hello' = [hello EXCEPT ![c] = h]
                /\ issued' = [issued EXCEPT ![c] = t]
                /\ valid' = [valid EXCEPT ![p] = IF t = NoToken THEN @ ELSE t]
       \/ /\ \E h \in {"refused", "unfit"} : hello' = [hello EXCEPT ![c] = h]
          /\ UNCHANGED <<valid, issued>>
    /\ UNCHANGED <<clientVars, stored, request, answer>>

\* It carries out the request or refuses it, also when the caller is gone by now.  It
\* answers truly, or nonsense, or dies before it answers.
Serve(c) ==
    /\ request[c] = "received"
    /\ \/ /\ request' = [request EXCEPT ![c] = "delivered"]
          /\ \E a \in {"none", "ok", "odd", "unreadable", "misshapen"} :
                answer' = [answer EXCEPT ![c] = a]
       \/ /\ request' = [request EXCEPT ![c] = "refused"]
          /\ \E a \in {"none", "refused"} : answer' = [answer EXCEPT ![c] = a]
    /\ UNCHANGED <<clientVars, stored, valid, hello, issued>>

\* A device is paired anew, or its token rotated, by the Gateway's owner.
Rotate(p) ==
    /\ valid[p] < MaxToken
    /\ valid' = [valid EXCEPT ![p] = @ + 1]
    /\ UNCHANGED <<clientVars, stored, hello, issued, request, answer>>

\* A later cancel is not looked at by this call.
Cancel(c) ==
    /\ c \notin cancelled /\ pc[c] = "new"
    /\ cancelled' = cancelled \cup {c}
    /\ UNCHANGED <<pc, attempts, auth, result, stored, gatewayVars, dials, transmitted>>

CallStep(c) ==
    \/ Begin(c) \/ Dial(c) \/ TokenRejected(c) \/ HelloRefused(c) \/ Welcomed(c)
    \/ Transmit(c) \/ ReadAnswer(c) \/ GivesUp(c)

Next ==
    \/ \E c \in Calls : CallStep(c) \/ Greet(c) \/ Serve(c) \/ Cancel(c)
    \/ \E p \in Profiles : Rotate(p)

\* A call's thread runs, and its waits end: each wait has the budget of the call.
Spec == Init /\ [][Next]_vars /\ \A c \in Calls : WF_vars(CallStep(c))

----------------------------------------------------------------------------
\* A call writes its request at most once and dials at most twice, whatever is rejected,
\* lost or rotated under it: an uncertain send is never repeated.
OneTransmission ==
    \A c \in Calls :
        /\ transmitted[c] <= 1 /\ dials[c] <= 2
        /\ result[c] = "uncertain" => transmitted[c] = 1

\* A send reported as sent was delivered, and one reported as failed was not and never
\* will be, unless the Gateway's answer was no object.
ReportsAreTrue ==
    \A c \in Sends :
        /\ result[c] = "confirmed" => request[c] = "delivered"
        /\ result[c] = "failed" /\ answer[c] # "misshapen" => request[c] \in {"none", "refused"}

\* What the messaging module says of every error but an uncertain delivery: nothing has
\* been sent.
FailedWasNotDelivered ==
    \A c \in Sends : result[c] = "failed" => request[c] # "delivered"

\* Every call returns: a rejected token does not make it go round for ever, and a silent
\* Gateway does not hold it.
EveryCallReturns == \A c \in Calls : [](pc[c] # "new" => <>(pc[c] = "over"))
=============================================================================
