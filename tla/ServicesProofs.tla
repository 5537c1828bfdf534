--------------------------- MODULE ServicesProofs ---------------------------
(***************************************************************************)
(* Theorems of Services, for any calls, posts, callers and bounds: each is *)
(* about one component, and a step of the sum is a step of the component   *)
(* that `part` names.                                                      *)
(***************************************************************************)
EXTENDS Services, FiniteSetTheorems, SequenceTheorems, TLAPS

\* No step goes over from one component to another.
LEMMA PartIsKept == [Next]_vars => part' = part
  BY DEF Next, InGateway, InStore, InAlexa, InVoice, vars

----------------------------------------------------------------------------
(* The OpenClaw bridge. *)

GatewayTyped ==
  /\ pc \in [Calls -> {"new", "ready", "greeting", "welcomed", "waiting", "over"}]
  /\ attempts \in [Calls -> Seq({"device", "shared"})]
  /\ result \in [Calls -> Gateway!Results]
  /\ hello \in [Calls -> {"none", "welcome", "unadvertised", "unfit", "mismatch", "refused"}]
  /\ request \in [Calls -> {"none", "received", "delivered", "refused"}]
  /\ answer \in [Calls -> {"none", "ok", "odd", "refused", "unreadable", "misshapen"}]
  /\ dials \in [Calls -> Nat] /\ transmitted \in [Calls -> Nat]

Authed ==
  /\ auth \in [Calls -> Nat] /\ issued \in [Calls -> Nat]
  /\ stored \in [Gateway!Profiles -> Nat] /\ valid \in [Gateway!Profiles -> Nat]

\* What is left of the attempts bounds the connections yet to be opened, and only the device
\* token can be rejected as one.
Tried ==
  \A c \in Calls :
    /\ pc[c] = "new" => dials[c] = 0
    /\ pc[c] = "ready" => \/ attempts[c] = <<"device", "shared">> /\ dials[c] = 0
                          \/ attempts[c] = <<"shared">> /\ dials[c] <= 1
    /\ pc[c] = "greeting" => \/ attempts[c] = <<"device", "shared">> /\ dials[c] <= 1
                             \/ attempts[c] = <<"shared">> /\ dials[c] <= 2 /\ auth[c] = Gateway!NoToken
    /\ hello[c] = "mismatch" => pc[c] = "greeting" /\ auth[c] # Gateway!NoToken
    /\ dials[c] <= 2

\* The request frame is written once, and is what the Gateway has before it answers.
Written ==
  \A c \in Calls :
    /\ pc[c] \in {"new", "ready", "greeting", "welcomed"} => transmitted[c] = 0 /\ result[c] = "none"
    /\ pc[c] = "waiting" => transmitted[c] = 1 /\ result[c] = "none"
    /\ transmitted[c] <= 1
    /\ transmitted[c] = 0 => request[c] = "none"
    /\ result[c] = "uncertain" => transmitted[c] = 1

\* An answer tells what became of the request, but for what it has in it.
Told ==
  \A c \in Calls :
    /\ request[c] \in {"none", "received"} => answer[c] = "none"
    /\ answer[c] \in {"ok", "odd", "unreadable", "misshapen"} => request[c] = "delivered"
    /\ answer[c] = "refused" => request[c] = "refused"

GatewayParts == GatewayTyped /\ Authed /\ Tried /\ Written /\ Told /\ Gateway!ReportsAreTrue
GatewayInv == part = "gateway" => GatewayParts

LEMMA GatewayConstants ==
  Sends \subseteq Calls /\ Acceptable \subseteq Calls /\ MaxToken \in Nat \ {0}
  BY ServicesAssumption DEF ServicesAssumption, Gateway!CallsAssumption, Gateway!MaxTokenAssumption

LEMMA Attempts ==
  /\ Head(<<"device", "shared">>) = "device" /\ Tail(<<"device", "shared">>) = <<"shared">>
  /\ Head(<<"shared">>) = "shared"
  /\ \A s \in {<<"device", "shared">>, <<"shared">>} : s \in Seq({"device", "shared"})
  OBVIOUS

LEMMA ProfileTyped == \A c : Gateway!Profile(c) \in Gateway!Profiles
  BY DEF Gateway!Profile, Gateway!Profiles

LEMMA GatewayStart == Gateway!Init => GatewayParts
<1> SUFFICES ASSUME Gateway!Init PROVE GatewayParts
  OBVIOUS
<1>1. GatewayTyped
  BY DEF Gateway!Init, GatewayTyped, Gateway!Results
<1>2. Authed
  BY DEF Gateway!Init, Authed, Gateway!NoToken
<1> QED
  BY <1>1, <1>2, GatewayConstants
     DEF Gateway!Init, GatewayParts, Tried, Written, Told, Gateway!ReportsAreTrue, Gateway!NoToken

LEMMA GatewayBegin ==
  ASSUME GatewayParts, NEW c \in Calls, Gateway!Begin(c)
  PROVE  GatewayParts'
<1> USE GatewayConstants, ProfileTyped DEF GatewayParts
<1>1. GatewayTyped'
  BY Attempts DEF Gateway!Begin, Gateway!Valid, Gateway!Fail, Gateway!End, Gateway!Disconnect,
                  Gateway!gatewayVars, GatewayTyped, Tried, Gateway!Results
<1>2. Authed'
  BY DEF Gateway!Begin, Gateway!Valid, Gateway!Fail, Gateway!End, Gateway!Disconnect,
         Gateway!gatewayVars, Authed, Gateway!NoToken
<1>3. Tried'
  BY Attempts DEF Gateway!Begin, Gateway!Valid, Gateway!Fail, Gateway!End, Gateway!Disconnect,
                  Gateway!gatewayVars, Tried, Authed, GatewayTyped, Gateway!NoToken
<1>4. Written'
  BY DEF Gateway!Begin, Gateway!Valid, Gateway!Fail, Gateway!End, Gateway!Disconnect,
         Gateway!gatewayVars, Written, GatewayTyped
<1>5. Told'
  BY DEF Gateway!Begin, Gateway!Valid, Gateway!Fail, Gateway!End, Gateway!Disconnect,
         Gateway!gatewayVars, Told, Written, GatewayTyped
<1>6. Gateway!ReportsAreTrue'
  BY DEF Gateway!Begin, Gateway!Valid, Gateway!Fail, Gateway!End, Gateway!Disconnect,
         Gateway!gatewayVars, Gateway!ReportsAreTrue, Told, Written, GatewayTyped
<1> QED
  BY <1>1, <1>2, <1>3, <1>4, <1>5, <1>6

LEMMA GatewayDial ==
  ASSUME GatewayParts, NEW c \in Calls, Gateway!Dial(c)
  PROVE  GatewayParts'
<1> USE GatewayConstants, ProfileTyped DEF GatewayParts
<1>1. GatewayTyped'
  BY Attempts DEF Gateway!Dial, Gateway!gatewayVars, GatewayTyped, Tried, Gateway!Results
<1>2. Authed'
  BY DEF Gateway!Dial, Gateway!gatewayVars, Authed, Gateway!NoToken
<1>3. Tried'
  <2>1. attempts[c] = <<"shared">> => auth'[c] = Gateway!NoToken
    BY Attempts DEF Gateway!Dial, Authed
  <2>2. /\ pc[c] = "ready" /\ pc' = [pc EXCEPT ![c] = "greeting"]
        /\ dials' = [dials EXCEPT ![c] = @ + 1]
        /\ \A d \in Calls \ {c} : auth'[d] = auth[d]
        /\ UNCHANGED <<attempts, hello>>
    BY DEF Gateway!Dial, Gateway!gatewayVars, Authed
  <2>3. /\ dials'[c] = dials[c] + 1 /\ pc'[c] = "greeting"
        /\ \A d \in Calls \ {c} : dials'[d] = dials[d] /\ pc'[d] = pc[d]
    BY <2>2 DEF GatewayTyped
  <2>4. dials'[c] <= 2 /\ hello'[c] # "mismatch"
    <3>1. dials[c] \in Nat
      BY DEF GatewayTyped
    <3>2. dials[c] = 0 \/ dials[c] <= 1
      BY <2>2 DEF Tried
    <3>3. hello[c] # "mismatch"
      BY <2>2 DEF Tried
    <3> QED
      BY <2>2, <2>3, <3>1, <3>2, <3>3
  <2>5. \/ attempts'[c] = <<"device", "shared">> /\ dials'[c] <= 1
        \/ attempts'[c] = <<"shared">> /\ dials'[c] <= 2 /\ auth'[c] = Gateway!NoToken
    BY <2>1, <2>2, <2>3, <2>4 DEF Tried
  <2> QED
    BY <2>2, <2>3, <2>4, <2>5 DEF Tried
<1>4. Written'
  BY DEF Gateway!Dial, Gateway!gatewayVars, Written, GatewayTyped
<1>5. Told'
  BY DEF Gateway!Dial, Gateway!gatewayVars, Told, Written, GatewayTyped
<1>6. Gateway!ReportsAreTrue'
  BY DEF Gateway!Dial, Gateway!gatewayVars, Gateway!ReportsAreTrue, Told, Written, GatewayTyped
<1> QED
  BY <1>1, <1>2, <1>3, <1>4, <1>5, <1>6

LEMMA GatewayTokenRejected ==
  ASSUME GatewayParts, NEW c \in Calls, Gateway!TokenRejected(c)
  PROVE  GatewayParts'
<1> USE GatewayConstants, ProfileTyped DEF GatewayParts
<1>1. GatewayTyped'
  BY Attempts DEF Gateway!TokenRejected, Gateway!Disconnect, GatewayTyped, Tried, Gateway!Results
<1>2. Authed'
  BY DEF Gateway!TokenRejected, Gateway!Disconnect, Authed, Gateway!NoToken
<1>3. Tried'
  BY Attempts DEF Gateway!TokenRejected, Gateway!Disconnect, Tried, Authed, GatewayTyped,
                  Gateway!NoToken
<1>4. Written'
  BY DEF Gateway!TokenRejected, Gateway!Disconnect, Written, GatewayTyped
<1>5. Told'
  BY DEF Gateway!TokenRejected, Gateway!Disconnect, Told, Written, GatewayTyped
<1>6. Gateway!ReportsAreTrue'
  BY DEF Gateway!TokenRejected, Gateway!Disconnect, Gateway!ReportsAreTrue, Told, Written,
         GatewayTyped
<1> QED
  BY <1>1, <1>2, <1>3, <1>4, <1>5, <1>6

LEMMA GatewayHelloRefused ==
  ASSUME GatewayParts, NEW c \in Calls, Gateway!HelloRefused(c)
  PROVE  GatewayParts'
<1> USE GatewayConstants, ProfileTyped DEF GatewayParts
<1>1. GatewayTyped'
  BY DEF Gateway!HelloRefused, Gateway!Fail, Gateway!End, Gateway!Disconnect, GatewayTyped,
         Tried, Gateway!Results
<1>2. Authed'
  BY DEF Gateway!HelloRefused, Gateway!Fail, Gateway!End, Gateway!Disconnect, Authed,
         Gateway!NoToken
<1>3. Tried'
  BY DEF Gateway!HelloRefused, Gateway!Fail, Gateway!End, Gateway!Disconnect, Tried, Authed,
         GatewayTyped, Gateway!NoToken
<1>4. Written'
  BY DEF Gateway!HelloRefused, Gateway!Fail, Gateway!End, Gateway!Disconnect, Written,
         GatewayTyped
<1>5. Told'
  BY DEF Gateway!HelloRefused, Gateway!Fail, Gateway!End, Gateway!Disconnect, Told, Written,
         GatewayTyped
<1>6. Gateway!ReportsAreTrue'
  BY DEF Gateway!HelloRefused, Gateway!Fail, Gateway!End, Gateway!Disconnect,
         Gateway!ReportsAreTrue, Told, Written, GatewayTyped
<1> QED
  BY <1>1, <1>2, <1>3, <1>4, <1>5, <1>6

LEMMA GatewayWelcomed ==
  ASSUME GatewayParts, NEW c \in Calls, Gateway!Welcomed(c)
  PROVE  GatewayParts'
<1> USE GatewayConstants, ProfileTyped DEF GatewayParts
<1>1. GatewayTyped'
  BY DEF Gateway!Welcomed, Gateway!Fail, Gateway!End, Gateway!Disconnect, GatewayTyped, Tried,
         Gateway!Results
<1>2. Authed'
  BY DEF Gateway!Welcomed, Gateway!Fail, Gateway!End, Gateway!Disconnect, Authed, Gateway!NoToken
<1>3. Tried'
  BY DEF Gateway!Welcomed, Gateway!Fail, Gateway!End, Gateway!Disconnect, Tried, Authed,
         GatewayTyped, Gateway!NoToken
<1>4. Written'
  BY DEF Gateway!Welcomed, Gateway!Fail, Gateway!End, Gateway!Disconnect, Written, GatewayTyped
<1>5. Told'
  BY DEF Gateway!Welcomed, Gateway!Fail, Gateway!End, Gateway!Disconnect, Told, Written,
         GatewayTyped
<1>6. Gateway!ReportsAreTrue'
  BY DEF Gateway!Welcomed, Gateway!Fail, Gateway!End, Gateway!Disconnect, Gateway!ReportsAreTrue,
         Told, Written, GatewayTyped
<1> QED
  BY <1>1, <1>2, <1>3, <1>4, <1>5, <1>6

LEMMA GatewayTransmit ==
  ASSUME GatewayParts, NEW c \in Calls, Gateway!Transmit(c)
  PROVE  GatewayParts'
<1> USE GatewayConstants, ProfileTyped DEF GatewayParts
<1>1. GatewayTyped'
  BY DEF Gateway!Transmit, GatewayTyped, Tried, Gateway!Results
<1>2. Authed'
  BY DEF Gateway!Transmit, Authed, Gateway!NoToken
<1>3. Tried'
  BY DEF Gateway!Transmit, Tried, Authed, GatewayTyped, Gateway!NoToken
<1>4. Written'
  BY DEF Gateway!Transmit, Written, GatewayTyped
<1>5. Told'
  BY DEF Gateway!Transmit, Told, Written, GatewayTyped
<1>6. Gateway!ReportsAreTrue'
  BY DEF Gateway!Transmit, Gateway!ReportsAreTrue, Told, Written, GatewayTyped
<1> QED
  BY <1>1, <1>2, <1>3, <1>4, <1>5, <1>6

LEMMA GatewayReadAnswer ==
  ASSUME GatewayParts, NEW c \in Calls, Gateway!ReadAnswer(c)
  PROVE  GatewayParts'
<1> USE GatewayConstants, ProfileTyped DEF GatewayParts
<1>1. GatewayTyped'
  BY DEF Gateway!ReadAnswer, Gateway!End, Gateway!Disconnect, Gateway!Outcome,
         Gateway!Unanswered, GatewayTyped, Tried, Gateway!Results
<1>2. Authed'
  BY DEF Gateway!ReadAnswer, Gateway!End, Gateway!Disconnect, Gateway!Outcome,
         Gateway!Unanswered, Authed, Gateway!NoToken
<1>3. Tried'
  BY DEF Gateway!ReadAnswer, Gateway!End, Gateway!Disconnect, Gateway!Outcome,
         Gateway!Unanswered, Tried, Authed, GatewayTyped, Gateway!NoToken
<1>4. Written'
  BY DEF Gateway!ReadAnswer, Gateway!End, Gateway!Disconnect, Gateway!Outcome,
         Gateway!Unanswered, Written, GatewayTyped
<1>5. Told'
  BY DEF Gateway!ReadAnswer, Gateway!End, Gateway!Disconnect, Gateway!Outcome,
         Gateway!Unanswered, Told, Written, GatewayTyped
<1>6. Gateway!ReportsAreTrue'
  BY DEF Gateway!ReadAnswer, Gateway!End, Gateway!Disconnect, Gateway!Outcome,
         Gateway!Unanswered, Gateway!ReportsAreTrue, Told, Written, GatewayTyped
<1> QED
  BY <1>1, <1>2, <1>3, <1>4, <1>5, <1>6

LEMMA GatewayGivesUp ==
  ASSUME GatewayParts, NEW c \in Calls, Gateway!GivesUp(c)
  PROVE  GatewayParts'
<1> USE GatewayConstants, ProfileTyped DEF GatewayParts
<1>1. GatewayTyped'
  BY DEF Gateway!GivesUp, Gateway!WaitFails, Gateway!Fail, Gateway!End, Gateway!Disconnect,
         Gateway!Unanswered, GatewayTyped, Tried, Gateway!Results
<1>2. Authed'
  BY DEF Gateway!GivesUp, Gateway!WaitFails, Gateway!Fail, Gateway!End, Gateway!Disconnect,
         Gateway!Unanswered, Authed, Gateway!NoToken
<1>3. Tried'
  BY DEF Gateway!GivesUp, Gateway!WaitFails, Gateway!Fail, Gateway!End, Gateway!Disconnect,
         Gateway!Unanswered, Tried, Authed, GatewayTyped, Gateway!NoToken
<1>4. Written'
  BY DEF Gateway!GivesUp, Gateway!WaitFails, Gateway!Fail, Gateway!End, Gateway!Disconnect,
         Gateway!Unanswered, Written, GatewayTyped
<1>5. Told'
  BY DEF Gateway!GivesUp, Gateway!WaitFails, Gateway!Fail, Gateway!End, Gateway!Disconnect,
         Gateway!Unanswered, Told, Written, GatewayTyped
<1>6. Gateway!ReportsAreTrue'
  BY DEF Gateway!GivesUp, Gateway!WaitFails, Gateway!Fail, Gateway!End, Gateway!Disconnect,
         Gateway!Unanswered, Gateway!ReportsAreTrue, Told, Written, GatewayTyped
<1> QED
  BY <1>1, <1>2, <1>3, <1>4, <1>5, <1>6

LEMMA GatewayGreet ==
  ASSUME GatewayParts, NEW c \in Calls, Gateway!Greet(c)
  PROVE  GatewayParts'
<1> USE GatewayConstants, ProfileTyped DEF GatewayParts
<1>1. GatewayTyped'
  <2>1. /\ \E h \in {"mismatch", "welcome", "unadvertised", "refused", "unfit"} :
             hello' = [hello EXCEPT ![c] = h]
        /\ UNCHANGED <<pc, attempts, result, request, answer, dials, transmitted>>
    BY DEF Gateway!Greet, Gateway!clientVars
  <2> QED
    BY <2>1 DEF GatewayTyped
<1>2. Authed'
  BY DEF Gateway!Greet, Gateway!clientVars, Gateway!Tokens, Authed, Gateway!NoToken
<1>3. Tried'
  BY DEF Gateway!Greet, Gateway!clientVars, Gateway!Tokens, Tried, Authed, GatewayTyped,
         Gateway!NoToken
<1>4. Written'
  BY DEF Gateway!Greet, Gateway!clientVars, Gateway!Tokens, Written, GatewayTyped
<1>5. Told'
  BY DEF Gateway!Greet, Gateway!clientVars, Gateway!Tokens, Told, Written, GatewayTyped
<1>6. Gateway!ReportsAreTrue'
  BY DEF Gateway!Greet, Gateway!clientVars, Gateway!Tokens, Gateway!ReportsAreTrue, Told,
         Written, GatewayTyped
<1> QED
  BY <1>1, <1>2, <1>3, <1>4, <1>5, <1>6

LEMMA GatewayServe ==
  ASSUME GatewayParts, NEW c \in Calls, Gateway!Serve(c)
  PROVE  GatewayParts'
<1> USE GatewayConstants DEF GatewayParts
<1>0. PICK r \in {"delivered", "refused"},
           a \in {"none", "ok", "odd", "refused", "unreadable", "misshapen"} :
        /\ request[c] = "received"
        /\ request' = [request EXCEPT ![c] = r] /\ answer' = [answer EXCEPT ![c] = a]
        /\ IF r = "refused" THEN a \in {"none", "refused"} ELSE a # "refused"
        /\ UNCHANGED <<pc, attempts, auth, issued, hello, result, dials, transmitted, stored, valid>>
  <2>1. CASE request' = [request EXCEPT ![c] = "delivered"]
    BY <2>1 DEF Gateway!Serve, Gateway!clientVars
  <2>2. CASE request' = [request EXCEPT ![c] = "refused"]
    BY <2>2 DEF Gateway!Serve, Gateway!clientVars
  <2> QED
    BY <2>1, <2>2 DEF Gateway!Serve
<1>1. GatewayTyped'
  BY <1>0 DEF GatewayTyped
<1>2. Authed' /\ Tried'
  BY <1>0 DEF Authed, Tried
<1>3. Written'
  BY <1>0 DEF Written, GatewayTyped
<1>4. Told'
  BY <1>0 DEF Told, GatewayTyped
<1>5. Gateway!ReportsAreTrue'
  BY <1>0 DEF Gateway!ReportsAreTrue, Told, Written, GatewayTyped
<1> QED
  BY <1>1, <1>2, <1>3, <1>4, <1>5

LEMMA GatewayWorld ==
  ASSUME GatewayParts,
         (\E c \in Calls : Gateway!Cancel(c)) \/ \E p \in Gateway!Profiles : Gateway!Rotate(p)
  PROVE  GatewayParts'
<1> USE GatewayConstants DEF GatewayParts
<1>0. /\ UNCHANGED <<pc, attempts, auth, hello, issued, result, request, answer, dials, transmitted, stored>>
      /\ valid' = valid \/ \E p \in Gateway!Profiles : valid' = [valid EXCEPT ![p] = valid[p] + 1]
  BY DEF Gateway!Cancel, Gateway!Rotate, Gateway!gatewayVars, Gateway!clientVars
<1>1. GatewayTyped' /\ Authed'
  <2>1. GatewayTyped'
    BY <1>0 DEF GatewayTyped
  <2>2. valid' \in [Gateway!Profiles -> Nat]
    BY <1>0 DEF Authed
  <2> QED
    BY <1>0, <2>1, <2>2 DEF Authed
<1> QED
  BY <1>0, <1>1 DEF Tried, Written, Told, Gateway!ReportsAreTrue

LEMMA GatewaySteps == GatewayParts /\ [Gateway!Next]_(Gateway!vars) => GatewayParts'
<1> SUFFICES ASSUME GatewayParts, [Gateway!Next]_(Gateway!vars) PROVE GatewayParts'
  OBVIOUS
<1>1. CASE UNCHANGED Gateway!vars
  BY <1>1 DEF Gateway!vars, GatewayParts, GatewayTyped, Authed, Tried, Written, Told, Gateway!ReportsAreTrue
<1>2. ASSUME NEW c \in Calls, Gateway!CallStep(c) PROVE GatewayParts'
  BY <1>2, GatewayBegin, GatewayDial, GatewayTokenRejected, GatewayHelloRefused, GatewayWelcomed,
     GatewayTransmit, GatewayReadAnswer, GatewayGivesUp DEF Gateway!CallStep
<1>3. ASSUME NEW c \in Calls, Gateway!Greet(c) \/ Gateway!Serve(c) PROVE GatewayParts'
  BY <1>3, GatewayGreet, GatewayServe
<1> QED
  BY <1>1, <1>2, <1>3, GatewayWorld DEF Gateway!Next

LEMMA GatewayInvariant == Spec => []GatewayInv
<1>1. Init => GatewayInv
  BY GatewayStart DEF Init, GatewayInv
<1>2. GatewayInv /\ [Next]_vars => GatewayInv'
  <2> SUFFICES ASSUME GatewayInv, [Next]_vars, part = "gateway" PROVE GatewayParts'
    BY PartIsKept DEF GatewayInv
  <2>1. CASE Next
    BY <2>1, GatewaySteps DEF Next, InGateway, InStore, InAlexa, InVoice, GatewayInv
  <2>2. CASE UNCHANGED vars
    <3>1. UNCHANGED Gateway!vars
      BY <2>2 DEF vars, gatewayOnly, Gateway!vars
    <3> QED
      BY <3>1, GatewaySteps DEF GatewayInv
  <2> QED
    BY <2>1, <2>2
<1> QED
  BY <1>1, <1>2, PTL DEF Spec

\* A call dials at most twice and writes its request at most once.
THEOREM OneTransmissionHolds == Spec => []OneTransmission
<1>1. GatewayInv => OneTransmission
  BY DEF GatewayInv, GatewayParts, Tried, Written, OneTransmission, Gateway!OneTransmission
<1> QED
  BY <1>1, GatewayInvariant, PTL

\* What send_message reports of a delivery is what became of it.
THEOREM ReportsAreTrueHolds == Spec => []ReportsAreTrue
<1>1. GatewayInv => ReportsAreTrue
  BY DEF GatewayInv, GatewayParts, ReportsAreTrue
<1> QED
  BY <1>1, GatewayInvariant, PTL


----------------------------------------------------------------------------
(* The Alexa bridge. *)

PostStates == {"new", "checked", "free", "running", "ended", "told", "over"}

AlexaTyped ==
  /\ at \in [Posts -> PostStates]
  /\ ended \in [Posts -> Nat]
  /\ runLock \in Posts \cup {Nobody} /\ saved \in Posts \cup {Nobody}

\* The run lock is kept from the start of a task to its record.
Locked == \A p \in Posts : at[p] \in {"running", "ended", "told"} => runLock = p

\* The tasks are numbered in the order of their ends, and the record is about one that ended.
Ends == {p \in Posts : ended[p] # 0}
Numbered ==
  /\ \A p \in Posts : ended[p] <= Cardinality(Ends)
  /\ \A p \in Posts : at[p] \in {"new", "checked", "free", "running"} => ended[p] = 0
  /\ \A p \in Posts : at[p] \in {"ended", "told"} => ended[p] # 0
  /\ saved # Nobody => ended[saved] # 0
  /\ \A p \in Posts : at[p] = "ended" => \A q \in Posts \ {p} : ended[q] < ended[p]

AlexaParts == AlexaTyped /\ Locked /\ Numbered
AlexaInv == part = "alexa" => AlexaParts

LEMMA AlexaConstants == IsFiniteSet(Posts) /\ Nobody \notin Posts
  BY ServicesAssumption DEF ServicesAssumption, Alexa!AlexaAssumption, Alexa!IsFiniteSet, IsFiniteSet

LEMMA SameCardinality == \A S : Alexa!Cardinality(S) = Cardinality(S)
  BY DEF Alexa!Cardinality, Cardinality

LEMMA EndsAreFinite == IsFiniteSet(Ends) /\ Cardinality(Ends) \in Nat
  BY AlexaConstants, FS_Subset, FS_CardinalityType DEF Ends

LEMMA AlexaStart == Alexa!Init => AlexaParts
<1> SUFFICES ASSUME Alexa!Init PROVE AlexaParts
  OBVIOUS
<1>1. AlexaTyped
  BY DEF Alexa!Init, AlexaTyped, PostStates
<1>2. Locked /\ Numbered
  BY EndsAreFinite, AlexaConstants DEF Alexa!Init, Locked, Numbered
<1> QED
  BY <1>1, <1>2 DEF AlexaParts

LEMMA AlexaRefuse ==
  ASSUME AlexaParts, NEW p \in Posts, NEW status \in {401, 404, 413, 400, 0}, Alexa!Refuse(p, status)
  PROVE  AlexaParts'
<1> USE AlexaConstants DEF AlexaParts
<1>1. AlexaTyped'
  BY DEF Alexa!Refuse, Alexa!GoTo, Alexa!Answer, AlexaTyped, PostStates
<1>2. Locked'
  BY DEF Alexa!Refuse, Alexa!GoTo, Alexa!Answer, Locked, AlexaTyped
<1>3. Numbered'
  <2>1. Ends' = Ends
    BY DEF Alexa!Refuse, Alexa!GoTo, Alexa!Answer, Ends
  <2> QED
    BY <2>1 DEF Alexa!Refuse, Alexa!GoTo, Alexa!Answer, Numbered, AlexaTyped
<1> QED
  BY <1>1, <1>2, <1>3

LEMMA AlexaAccept ==
  ASSUME AlexaParts, NEW p \in Posts, Alexa!Accept(p)
  PROVE  AlexaParts'
<1> USE AlexaConstants DEF AlexaParts
<1>1. AlexaTyped'
  BY DEF Alexa!Accept, Alexa!GoTo, AlexaTyped, PostStates
<1>2. Locked'
  BY DEF Alexa!Accept, Alexa!GoTo, Locked, AlexaTyped
<1>3. Numbered'
  <2>1. Ends' = Ends
    BY DEF Alexa!Accept, Alexa!GoTo, Ends
  <2> QED
    BY <2>1 DEF Alexa!Accept, Alexa!GoTo, Numbered, AlexaTyped
<1> QED
  BY <1>1, <1>2, <1>3

LEMMA AlexaTestBusy ==
  ASSUME AlexaParts, NEW p \in Posts, Alexa!TestBusy(p)
  PROVE  AlexaParts'
<1> USE AlexaConstants DEF AlexaParts
<1>1. AlexaTyped'
  BY DEF Alexa!TestBusy, Alexa!GoTo, Alexa!Answer, AlexaTyped, PostStates
<1>2. Locked'
  BY DEF Alexa!TestBusy, Alexa!GoTo, Alexa!Answer, Locked, AlexaTyped
<1>3. Numbered'
  <2>1. Ends' = Ends
    BY DEF Alexa!TestBusy, Alexa!GoTo, Alexa!Answer, Ends
  <2> QED
    BY <2>1 DEF Alexa!TestBusy, Alexa!GoTo, Alexa!Answer, Numbered, AlexaTyped
<1> QED
  BY <1>1, <1>2, <1>3

LEMMA AlexaStartTask ==
  ASSUME AlexaParts, NEW p \in Posts, Alexa!StartTask(p)
  PROVE  AlexaParts'
<1> USE AlexaConstants DEF AlexaParts
<1>1. AlexaTyped'
  BY DEF Alexa!StartTask, Alexa!GoTo, Alexa!Answer, Alexa!MayStart, AlexaTyped, PostStates
<1>2. Locked'
  BY DEF Alexa!StartTask, Alexa!GoTo, Alexa!Answer, Alexa!MayStart, Locked, AlexaTyped
<1>3. Numbered'
  <2>1. Ends' = Ends
    BY DEF Alexa!StartTask, Alexa!GoTo, Alexa!Answer, Alexa!MayStart, Ends
  <2> QED
    BY <2>1 DEF Alexa!StartTask, Alexa!GoTo, Alexa!Answer, Alexa!MayStart, Numbered, AlexaTyped
<1> QED
  BY <1>1, <1>2, <1>3

LEMMA AlexaSaveResult ==
  ASSUME AlexaParts, NEW p \in Posts, Alexa!SaveResult(p)
  PROVE  AlexaParts'
<1> USE AlexaConstants DEF AlexaParts
<1>1. AlexaTyped'
  BY DEF Alexa!SaveResult, Alexa!GoTo, AlexaTyped, PostStates
<1>2. Locked'
  BY DEF Alexa!SaveResult, Alexa!GoTo, Locked, AlexaTyped
<1>3. Numbered'
  <2>1. Ends' = Ends
    BY DEF Alexa!SaveResult, Alexa!GoTo, Ends
  <2> QED
    BY <2>1 DEF Alexa!SaveResult, Alexa!GoTo, Numbered, AlexaTyped
<1> QED
  BY <1>1, <1>2, <1>3

LEMMA AlexaDeliver ==
  ASSUME AlexaParts, NEW p \in Posts, Alexa!Deliver(p)
  PROVE  AlexaParts'
<1> USE AlexaConstants DEF AlexaParts
<1>1. AlexaTyped'
  BY DEF Alexa!Deliver, Alexa!GoTo, AlexaTyped, PostStates
<1>2. Locked'
  BY DEF Alexa!Deliver, Alexa!GoTo, Locked, AlexaTyped
<1>3. Numbered'
  <2>1. Ends' = Ends
    BY DEF Alexa!Deliver, Alexa!GoTo, Ends
  <2> QED
    BY <2>1 DEF Alexa!Deliver, Alexa!GoTo, Numbered, AlexaTyped
<1> QED
  BY <1>1, <1>2, <1>3

LEMMA AlexaTaskEnds ==
  ASSUME AlexaParts, NEW p \in Posts, Alexa!TaskEnds(p)
  PROVE  AlexaParts'
<1> USE AlexaConstants DEF AlexaParts
<1> DEFINE n == Cardinality(Ends)
<1>0. /\ at[p] = "running" /\ at' = [at EXCEPT ![p] = "ended"]
      /\ ended' = [ended EXCEPT ![p] = n + 1]
      /\ UNCHANGED <<runLock, saved>>
  BY SameCardinality DEF Alexa!TaskEnds, Alexa!GoTo, Ends
<1>1. n \in Nat
  BY EndsAreFinite
<1>2. Cardinality(Ends') = n + 1
  <2>1. Ends' = Ends \cup {p} /\ p \notin Ends
    BY <1>0, <1>1 DEF Ends, Numbered, AlexaTyped
  <2> QED
    BY <2>1, EndsAreFinite, FS_AddElement
<1>m. \A q \in Posts : ended[q] \in Nat /\ ended[q] <= n
  BY DEF Numbered, AlexaTyped
<1> HIDE DEF n
<1>3. AlexaTyped'
  BY <1>0, <1>1 DEF AlexaTyped, PostStates
<1>4. Locked'
  BY <1>0 DEF Locked, AlexaTyped
<1>5. Numbered'
  BY <1>0, <1>1, <1>2, <1>m DEF Numbered, AlexaTyped, Locked
<1> QED
  BY <1>3, <1>4, <1>5

LEMMA AlexaRestart ==
  ASSUME AlexaParts, Alexa!Restart
  PROVE  AlexaParts'
<1> USE AlexaConstants DEF AlexaParts
<1>1. AlexaTyped'
  BY DEF Alexa!Restart, AlexaTyped, PostStates
<1>2. Locked'
  BY DEF Alexa!Restart, Locked
<1>3. Numbered'
  <2>1. Ends' = Ends
    BY DEF Alexa!Restart, Ends
  <2> QED
    BY <2>1 DEF Alexa!Restart, Numbered, AlexaTyped
<1> QED
  BY <1>1, <1>2, <1>3

LEMMA AlexaSteps == AlexaParts /\ [Alexa!Next]_(Alexa!vars) => AlexaParts'
<1> SUFFICES ASSUME AlexaParts, [Alexa!Next]_(Alexa!vars) PROVE AlexaParts'
  OBVIOUS
<1>1. CASE UNCHANGED Alexa!vars
  BY <1>1 DEF Alexa!vars, AlexaParts, AlexaTyped, Locked, Numbered, Ends
<1>2. ASSUME NEW p \in Posts, Alexa!PostStep(p) PROVE AlexaParts'
  BY <1>2, AlexaRefuse, AlexaAccept, AlexaTestBusy, AlexaStartTask, AlexaTaskEnds,
     AlexaSaveResult, AlexaDeliver DEF Alexa!PostStep
<1> QED
  BY <1>1, <1>2, AlexaRestart DEF Alexa!Next

LEMMA AlexaInvariant == Spec => []AlexaInv
<1>1. Init => AlexaInv
  BY AlexaStart DEF Init, AlexaInv
<1>2. AlexaInv /\ [Next]_vars => AlexaInv'
  <2> SUFFICES ASSUME AlexaInv, [Next]_vars, part = "alexa" PROVE AlexaParts'
    BY PartIsKept DEF AlexaInv
  <2>1. CASE Next
    BY <2>1, AlexaSteps DEF Next, InGateway, InStore, InAlexa, InVoice, AlexaInv
  <2>2. CASE UNCHANGED vars
    <3>1. UNCHANGED Alexa!vars
      BY <2>2 DEF vars, alexaOnly, Alexa!vars
    <3> QED
      BY <3>1, AlexaSteps DEF AlexaInv
  <2> QED
    BY <2>1, <2>2
<1> QED
  BY <1>1, <1>2, PTL DEF Spec

\* Only SaveResult writes the record, of a task that ended after all others.
LEMMA RecordMoves ==
  ASSUME AlexaParts, Alexa!Next
  PROVE  Alexa!SavedGoesForward
<1> SUFFICES ASSUME saved' # saved PROVE saved = Nobody \/ ended[saved'] > ended[saved]
  BY DEF Alexa!SavedGoesForward
<1>1. PICK p \in Posts : Alexa!SaveResult(p)
  BY DEF Alexa!Next, Alexa!PostStep, Alexa!Refuse, Alexa!Accept, Alexa!TestBusy, Alexa!StartTask,
         Alexa!TaskEnds, Alexa!Deliver, Alexa!Restart
<1>2. saved' = p /\ at[p] = "ended"
  BY <1>1 DEF Alexa!SaveResult
<1> QED
  BY <1>2 DEF AlexaParts, AlexaTyped, Numbered

\* What /last tells never goes back to a task that ended earlier.
THEOREM LastIsTheNewestHolds == Spec => LastIsTheNewest
<1>1. AlexaInv /\ [Next]_vars => [(part = "alexa") => Alexa!SavedGoesForward]_vars
  BY RecordMoves DEF AlexaInv, Next, InGateway, InStore, InAlexa, InVoice
<1> QED
  BY <1>1, AlexaInvariant, PTL DEF Spec, LastIsTheNewest

----------------------------------------------------------------------------
(* The voice. *)

VoiceTyped ==
  /\ busy \in Spoken!Callers \cup {Nobody}
  /\ at \in [Spoken!Callers -> {"idle", "heard", "waiting", "timedOut", "speaking", "asking"}]
  /\ request \in [Spoken!Callers -> {"none", "active", "stopping", "answered", "question"}]
  /\ after \in [Spoken!Callers -> {"idle", "reply", "question", "end"}]

\* A caller waits for what runs, and has the busy lock from then on until its last word.
Waits == \A c \in Spoken!Callers : Spoken!Running(c) => at[c] \in {"waiting", "timedOut"}
Talks(c) ==
  \/ at[c] \in {"waiting", "timedOut", "asking"}
  \/ at[c] = "speaking" /\ after[c] \in {"reply", "question", "end"}
HasBusy == \A c \in Spoken!Callers : Talks(c) => busy = c

VoiceParts == VoiceTyped /\ Waits /\ HasBusy
VoiceInv == part = "voice" => VoiceParts

LEMMA VoiceConstants ==
  /\ Nobody \notin Spoken!Callers /\ Scheduler \in Spoken!Callers /\ Scheduler \notin People
  /\ People \subseteq Spoken!Callers
  BY ServicesAssumption DEF ServicesAssumption, Spoken!VoiceAssumption, Spoken!Callers

LEMMA VoiceStart == Spoken!Init => VoiceParts
<1> SUFFICES ASSUME Spoken!Init PROVE VoiceParts
  OBVIOUS
<1>1. VoiceTyped
  BY DEF Spoken!Init, VoiceTyped
<1> QED
  BY <1>1 DEF Spoken!Init, VoiceParts, Waits, HasBusy, Talks, Spoken!Running

LEMMA VoiceBeQuiet ==
  ASSUME VoiceParts, NEW c \in Spoken!Callers, Spoken!BeQuiet(c)
  PROVE  VoiceParts'
<1> USE VoiceConstants DEF VoiceParts
<1>1. VoiceTyped'
  BY DEF Spoken!BeQuiet, Spoken!core, Spoken!GoTo, VoiceTyped
<1>2. Waits'
  BY DEF Spoken!BeQuiet, Spoken!core, Spoken!GoTo, Waits, HasBusy, Talks, Spoken!Running,
         VoiceTyped
<1>3. HasBusy'
  BY DEF Spoken!BeQuiet, Spoken!core, Spoken!GoTo, HasBusy, Talks, VoiceTyped
<1> QED
  BY <1>1, <1>2, <1>3

LEMMA VoiceSleep ==
  ASSUME VoiceParts, NEW c \in Spoken!Callers, Spoken!Sleep(c)
  PROVE  VoiceParts'
<1> USE VoiceConstants DEF VoiceParts
<1>1. VoiceTyped'
  BY DEF Spoken!Sleep, Spoken!core, Spoken!Say, Spoken!BeginSpeech, Spoken!GoTo, VoiceTyped
<1>2. Waits'
  BY DEF Spoken!Sleep, Spoken!core, Spoken!Say, Spoken!BeginSpeech, Spoken!GoTo, Waits, HasBusy,
         Talks, Spoken!Running, VoiceTyped
<1>3. HasBusy'
  BY DEF Spoken!Sleep, Spoken!core, Spoken!Say, Spoken!BeginSpeech, Spoken!GoTo, HasBusy, Talks,
         VoiceTyped
<1> QED
  BY <1>1, <1>2, <1>3

LEMMA VoiceIgnore ==
  ASSUME VoiceParts, NEW c \in Spoken!Callers, Spoken!Ignore(c)
  PROVE  VoiceParts'
<1> USE VoiceConstants DEF VoiceParts
<1>1. VoiceTyped'
  BY DEF Spoken!Ignore, Spoken!core, Spoken!GoTo, VoiceTyped
<1>2. Waits'
  BY DEF Spoken!Ignore, Spoken!core, Spoken!GoTo, Waits, HasBusy, Talks, Spoken!Running,
         VoiceTyped
<1>3. HasBusy'
  BY DEF Spoken!Ignore, Spoken!core, Spoken!GoTo, HasBusy, Talks, VoiceTyped
<1> QED
  BY <1>1, <1>2, <1>3

LEMMA VoiceDecline ==
  ASSUME VoiceParts, NEW c \in Spoken!Callers, Spoken!Decline(c)
  PROVE  VoiceParts'
<1> USE VoiceConstants DEF VoiceParts
<1>1. VoiceTyped'
  BY DEF Spoken!Decline, Spoken!core, Spoken!Say, Spoken!BeginSpeech, Spoken!GoTo, VoiceTyped
<1>2. Waits'
  BY DEF Spoken!Decline, Spoken!core, Spoken!Say, Spoken!BeginSpeech, Spoken!GoTo, Waits,
         HasBusy, Talks, Spoken!Running, VoiceTyped
<1>3. HasBusy'
  BY DEF Spoken!Decline, Spoken!core, Spoken!Say, Spoken!BeginSpeech, Spoken!GoTo, HasBusy,
         Talks, VoiceTyped
<1> QED
  BY <1>1, <1>2, <1>3

LEMMA VoiceStarts ==
  ASSUME VoiceParts, NEW c \in Spoken!Callers, Spoken!Start(c)
  PROVE  VoiceParts'
<1> USE VoiceConstants DEF VoiceParts
<1>1. VoiceTyped'
  BY DEF Spoken!Start, Spoken!core, Spoken!Submit, Spoken!GoTo, VoiceTyped
<1>2. Waits'
  BY DEF Spoken!Start, Spoken!core, Spoken!Submit, Spoken!GoTo, Waits, HasBusy, Talks,
         Spoken!Running, VoiceTyped
<1>3. HasBusy'
  BY DEF Spoken!Start, Spoken!core, Spoken!Submit, Spoken!GoTo, HasBusy, Talks, VoiceTyped
<1> QED
  BY <1>1, <1>2, <1>3

LEMMA VoiceAnswered ==
  ASSUME VoiceParts, NEW c \in Spoken!Callers, Spoken!Answered(c)
  PROVE  VoiceParts'
<1> USE VoiceConstants DEF VoiceParts
<1>1. VoiceTyped'
  BY DEF Spoken!Answered, Spoken!core, Spoken!Say, Spoken!BeginSpeech, Spoken!GoTo,
         Spoken!Running, VoiceTyped
<1>2. Waits'
  BY DEF Spoken!Answered, Spoken!core, Spoken!Say, Spoken!BeginSpeech, Spoken!GoTo,
         Spoken!Running, Waits, HasBusy, Talks, VoiceTyped
<1>3. HasBusy'
  BY DEF Spoken!Answered, Spoken!core, Spoken!Say, Spoken!BeginSpeech, Spoken!GoTo,
         Spoken!Running, HasBusy, Talks, VoiceTyped
<1> QED
  BY <1>1, <1>2, <1>3

LEMMA VoiceGaveUp ==
  ASSUME VoiceParts, NEW c \in Spoken!Callers, Spoken!GaveUp(c)
  PROVE  VoiceParts'
<1> USE VoiceConstants DEF VoiceParts
<1>1. VoiceTyped'
  BY DEF Spoken!GaveUp, Spoken!core, Spoken!Say, Spoken!BeginSpeech, Spoken!GoTo, Spoken!MayGoOn,
         VoiceTyped
<1>2. Waits'
  BY DEF Spoken!GaveUp, Spoken!core, Spoken!Say, Spoken!BeginSpeech, Spoken!GoTo, Spoken!MayGoOn,
         Waits, HasBusy, Talks, Spoken!Running, VoiceTyped
<1>3. HasBusy'
  BY DEF Spoken!GaveUp, Spoken!core, Spoken!Say, Spoken!BeginSpeech, Spoken!GoTo, Spoken!MayGoOn,
         HasBusy, Talks, VoiceTyped
<1> QED
  BY <1>1, <1>2, <1>3

LEMMA VoiceSpoken ==
  ASSUME VoiceParts, NEW c \in Spoken!Callers, Spoken!Spoken(c)
  PROVE  VoiceParts'
<1> USE VoiceConstants DEF VoiceParts
<1>1. VoiceTyped'
  BY DEF Spoken!Spoken, Spoken!core, Spoken!GoTo, VoiceTyped
<1>2. Waits'
  BY DEF Spoken!Spoken, Spoken!core, Spoken!GoTo, Waits, HasBusy, Talks, Spoken!Running,
         VoiceTyped
<1>3. HasBusy'
  BY DEF Spoken!Spoken, Spoken!core, Spoken!GoTo, HasBusy, Talks, VoiceTyped
<1> QED
  BY <1>1, <1>2, <1>3

LEMMA VoiceLeaveIt ==
  ASSUME VoiceParts, NEW c \in Spoken!Callers, Spoken!LeaveIt(c)
  PROVE  VoiceParts'
<1> USE VoiceConstants DEF VoiceParts
<1>1. VoiceTyped'
  BY DEF Spoken!LeaveIt, Spoken!core, Spoken!Say, Spoken!BeginSpeech, Spoken!GoTo, VoiceTyped
<1>2. Waits'
  BY DEF Spoken!LeaveIt, Spoken!core, Spoken!Say, Spoken!BeginSpeech, Spoken!GoTo, Waits,
         HasBusy, Talks, Spoken!Running, VoiceTyped
<1>3. HasBusy'
  BY DEF Spoken!LeaveIt, Spoken!core, Spoken!Say, Spoken!BeginSpeech, Spoken!GoTo, HasBusy,
         Talks, VoiceTyped
<1> QED
  BY <1>1, <1>2, <1>3

LEMMA VoiceHear ==
  ASSUME VoiceParts, NEW c \in Spoken!Callers, Spoken!Hear(c)
  PROVE  VoiceParts'
<1> USE VoiceConstants DEF VoiceParts
<1>1. VoiceTyped'
  BY DEF Spoken!Hear, Spoken!core, Spoken!GoTo, VoiceTyped
<1>2. Waits'
  BY DEF Spoken!Hear, Spoken!core, Spoken!GoTo, Waits, HasBusy, Talks, Spoken!Running, VoiceTyped
<1>3. HasBusy'
  BY DEF Spoken!Hear, Spoken!core, Spoken!GoTo, HasBusy, Talks, VoiceTyped
<1> QED
  BY <1>1, <1>2, <1>3

LEMMA VoiceTimesOut ==
  ASSUME VoiceParts, NEW c \in Spoken!Callers, Spoken!TimesOut(c)
  PROVE  VoiceParts'
<1> USE VoiceConstants DEF VoiceParts
<1>1. VoiceTyped'
  BY DEF Spoken!TimesOut, Spoken!core, Spoken!GoTo, VoiceTyped
<1>2. Waits'
  BY DEF Spoken!TimesOut, Spoken!core, Spoken!GoTo, Waits, HasBusy, Talks, Spoken!Running,
         VoiceTyped
<1>3. HasBusy'
  BY DEF Spoken!TimesOut, Spoken!core, Spoken!GoTo, HasBusy, Talks, VoiceTyped
<1> QED
  BY <1>1, <1>2, <1>3

LEMMA VoiceResend ==
  ASSUME VoiceParts, NEW c \in Spoken!Callers, Spoken!Resend(c)
  PROVE  VoiceParts'
<1> USE VoiceConstants DEF VoiceParts
<1>1. VoiceTyped'
  BY DEF Spoken!Resend, Spoken!core, Spoken!Submit, Spoken!GoTo, VoiceTyped
<1>2. Waits'
  BY DEF Spoken!Resend, Spoken!core, Spoken!Submit, Spoken!GoTo, Waits, HasBusy, Talks,
         Spoken!Running, VoiceTyped
<1>3. HasBusy'
  BY DEF Spoken!Resend, Spoken!core, Spoken!Submit, Spoken!GoTo, HasBusy, Talks, VoiceTyped
<1> QED
  BY <1>1, <1>2, <1>3

LEMMA VoiceRunScheduled ==
  ASSUME VoiceParts, Spoken!RunScheduled
  PROVE  VoiceParts'
<1> USE VoiceConstants DEF VoiceParts
<1>1. VoiceTyped'
  BY DEF Spoken!RunScheduled, Spoken!core, Spoken!Submit, Spoken!GoTo, VoiceTyped
<1>2. Waits'
  BY DEF Spoken!RunScheduled, Spoken!core, Spoken!Submit, Spoken!GoTo, Waits, HasBusy, Talks,
         Spoken!Running, VoiceTyped
<1>3. HasBusy'
  BY DEF Spoken!RunScheduled, Spoken!core, Spoken!Submit, Spoken!GoTo, HasBusy, Talks, VoiceTyped
<1> QED
  BY <1>1, <1>2, <1>3

LEMMA VoiceScheduledEnds ==
  ASSUME VoiceParts, Spoken!ScheduledEnds
  PROVE  VoiceParts'
<1> USE VoiceConstants DEF VoiceParts
<1>1. VoiceTyped'
  BY DEF Spoken!ScheduledEnds, Spoken!core, Spoken!Say, Spoken!BeginSpeech, Spoken!GoTo,
         Spoken!Finish, VoiceTyped
<1>2. Waits'
  BY DEF Spoken!ScheduledEnds, Spoken!core, Spoken!Say, Spoken!BeginSpeech, Spoken!GoTo,
         Spoken!Finish, Waits, HasBusy, Talks, Spoken!Running, VoiceTyped
<1>3. HasBusy'
  BY DEF Spoken!ScheduledEnds, Spoken!core, Spoken!Say, Spoken!BeginSpeech, Spoken!GoTo,
         Spoken!Finish, HasBusy, Talks, VoiceTyped
<1> QED
  BY <1>1, <1>2, <1>3

\* The steps of requests and listeners: a request ends, or is asked to stop.
LEMMA VoiceRequests ==
  ASSUME VoiceParts,
         \/ \E c \in Spoken!Callers, r \in {"answered", "question"} : Spoken!RequestEnds(c, r)
         \/ \E c \in Spoken!Callers : Spoken!HearStop(c) \/ Spoken!StopHeard(c)
         \/ Spoken!LateStop
  PROVE  VoiceParts'
<1> USE VoiceConstants DEF VoiceParts
<1>1. /\ UNCHANGED <<busy, at, after>>
      /\ \/ \E c \in Spoken!Callers, r \in {"answered", "question"} : request' = [request EXCEPT ![c] = r]
         \/ Spoken!StopActive
         \/ UNCHANGED request
  BY DEF Spoken!RequestEnds, Spoken!HearStop, Spoken!StopHeard, Spoken!LateStop, Spoken!turn
<1>2. VoiceTyped'
  BY <1>1 DEF VoiceTyped, Spoken!StopActive
<1>3. Waits'
  BY <1>1 DEF Waits, Spoken!Running, VoiceTyped, Spoken!StopActive
<1>4. HasBusy'
  BY <1>1 DEF HasBusy, Talks
<1> QED
  BY <1>2, <1>3, <1>4

\* The steps of playbacks and wake listeners move no caller.
LEMMA VoiceSounds ==
  ASSUME VoiceParts,
         \/ \E c \in Spoken!Callers :
               \/ Spoken!Play(c) \/ Spoken!NextSentence(c) \/ Spoken!LastSentence(c)
               \/ Spoken!KilledEnds(c) \/ Spoken!HearWake(c) \/ Spoken!NotTheWakeWord(c)
               \/ Spoken!WakeHeard(c)
         \/ Spoken!LateWake \/ Spoken!OthersSpeak \/ Spoken!WakeByItself
         \/ UNCHANGED Spoken!vars
  PROVE  VoiceParts'
<1>1. UNCHANGED <<busy, at, after, request>>
  BY DEF Spoken!Play, Spoken!NextSentence, Spoken!LastSentence, Spoken!KilledEnds,
         Spoken!EndPlayback, Spoken!HearWake, Spoken!NotTheWakeWord, Spoken!WakeHeard,
         Spoken!LateWake, Spoken!OthersSpeak, Spoken!WakeByItself, Spoken!vars, Spoken!turn,
         Spoken!core
<1> QED
  BY <1>1 DEF VoiceParts, VoiceTyped, Waits, HasBusy, Talks, Spoken!Running

LEMMA VoiceSteps == VoiceParts /\ [Spoken!Next]_(Spoken!vars) => VoiceParts'
<1> SUFFICES ASSUME VoiceParts, [Spoken!Next]_(Spoken!vars) PROVE VoiceParts'
  OBVIOUS
<1>1. ASSUME NEW c \in Spoken!Callers,
             Spoken!Turn(c) \/ Spoken!Hear(c) \/ Spoken!TimesOut(c) \/ Spoken!Resend(c)
      PROVE  VoiceParts'
  BY <1>1, VoiceBeQuiet, VoiceSleep, VoiceIgnore, VoiceDecline, VoiceStarts, VoiceAnswered,
     VoiceGaveUp, VoiceSpoken, VoiceLeaveIt, VoiceHear, VoiceTimesOut, VoiceResend
     DEF Spoken!Turn
<1> QED
  BY <1>1, VoiceRequests, VoiceSounds, VoiceRunScheduled, VoiceScheduledEnds DEF Spoken!Next

LEMMA VoiceInvariant == Spec => []VoiceInv
<1>1. Init => VoiceInv
  BY VoiceStart DEF Init, VoiceInv
<1>2. VoiceInv /\ [Next]_vars => VoiceInv'
  <2> SUFFICES ASSUME VoiceInv, [Next]_vars, part = "voice" PROVE VoiceParts'
    BY PartIsKept DEF VoiceInv
  <2>1. CASE Next
    BY <2>1, VoiceSteps DEF Next, InGateway, InStore, InAlexa, InVoice, VoiceInv
  <2>2. CASE UNCHANGED vars
    <3>1. UNCHANGED Spoken!vars
      BY <2>2 DEF vars, voiceOnly, Spoken!vars, Spoken!turn, Spoken!sound, Spoken!core
    <3> QED
      BY <3>1, VoiceSteps DEF VoiceInv
  <2> QED
    BY <2>1, <2>2
<1> QED
  BY <1>1, <1>2, PTL DEF Spec

\* What runs has the busy lock, so no two requests of the menu-bar app run at once.
THEOREM OneRequestAtATimeHolds == Spec => []OneRequestAtATime
<1>1. VoiceInv => OneRequestAtATime
  BY DEF VoiceInv, VoiceParts, Waits, HasBusy, Talks, OneRequestAtATime, Spoken!OneRequestAtATime
<1> QED
  BY <1>1, VoiceInvariant, PTL

----------------------------------------------------------------------------
(* A store with a lock. *)

StoreTyped ==
  /\ temp = Nobody /\ file \in Store!Inodes \cup {Nobody}
  /\ DOMAIN data = Store!Inodes
  /\ at \in [Writers -> {"idle", "load", "open", "write", "finish", "rename"}]
  /\ \A w \in Writers : job[w] = "append"
  /\ DOMAIN job = Writers /\ DOMAIN fd = Writers /\ DOMAIN seen = Writers
  /\ saves \in Nat /\ kept \in Seq(Nat)

\* Whoever saves has the lock, and so nobody else saves.
Held == \A w \in Writers : at[w] # "idle" => lock = w

\* The file is whole and exact at all times: a save writes an inode of its own.
Exact == Store!Whole(file) /\ Store!Contents(file).entries = Store!Trim(kept)

Opened ==
  \A w \in Writers :
    IF at[w] \in {"write", "finish", "rename"} THEN fd[w] \in Store!Inodes /\ fd[w] # file
    ELSE fd[w] = Nobody

\* What a writer is going to write is the file as it will then still be, and its entry.
ReadExactly ==
  \A w \in Writers : at[w] \in {"open", "write", "finish", "rename"} =>
    /\ seen[w].text = "whole"
    /\ \E x \in Nat : seen[w].entries = Store!Trim(Append(kept, x))

Filled ==
  \A w \in Writers :
    /\ at[w] = "finish" => data[fd[w]] = Store!Half(w)
    /\ at[w] = "rename" => data[fd[w]] = seen[w]

StoreParts == StoreTyped /\ Held /\ Exact /\ Opened /\ ReadExactly /\ Filled
StoreInv == part = "store" /\ kind \in Store!Locked => StoreParts

LEMMA StoreConstants ==
  Limit \in Nat /\ Nobody \notin Nat \cup Writers /\ Store!Inodes \subseteq Nat
    /\ {0, 1} \subseteq Store!Inodes
<1>1. Limit \in Nat /\ Nobody \notin Nat \cup Writers /\ IsFiniteSet(Writers)
  BY ServicesAssumption
     DEF ServicesAssumption, Store!StoresAssumption, Store!IsFiniteSet, IsFiniteSet
<1>2. Store!Cardinality(Writers) = Cardinality(Writers)
  BY DEF Store!Cardinality, Cardinality
<1> QED
  BY <1>1, <1>2, FS_CardinalityType DEF Store!Inodes

\* The last Limit elements.
LEMMA LastOnes ==
  ASSUME NEW s \in Seq(Nat), Limit > 0, Len(s) >= Limit
  PROVE  LET t == SubSeq(s, Len(s) - Limit + 1, Len(s)) IN
         t \in Seq(Nat) /\ Len(t) = Limit /\ \A i \in 1 .. Limit : t[i] = s[Len(s) - Limit + i]
<1> DEFINE n == Len(s)
           t == SubSeq(s, n - Limit + 1, n)
<1>1. n \in Nat /\ \A i \in n - Limit + 1 .. n : s[i] \in Nat
  BY StoreConstants
<1> HIDE DEF n
<1>2. /\ t \in Seq(Nat)
      /\ Len(t) = Limit
      /\ \A i \in 1 .. n - (n - Limit + 1) + 1 : t[i] = s[(n - Limit + 1) + i - 1]
  BY <1>1, StoreConstants, SubSeqProperties
<1>3. t \in Seq(Nat) /\ Len(t) = Limit /\ \A i \in 1 .. Limit : t[i] = s[n - Limit + i]
  BY <1>1, <1>2, StoreConstants
<1> QED
  BY <1>3 DEF n

LEMMA SameLastOnes ==
  ASSUME Limit > 0, NEW s \in Seq(Nat), Len(s) >= Limit, NEW u \in Seq(Nat), Len(u) >= Limit,
         \A i \in 1 .. Limit : s[Len(s) - Limit + i] = u[Len(u) - Limit + i]
  PROVE  SubSeq(s, Len(s) - Limit + 1, Len(s)) = SubSeq(u, Len(u) - Limit + 1, Len(u))
<1> DEFINE left == SubSeq(s, Len(s) - Limit + 1, Len(s))
           right == SubSeq(u, Len(u) - Limit + 1, Len(u))
<1>1. /\ left \in Seq(Nat) /\ Len(left) = Limit
      /\ \A i \in 1 .. Limit : left[i] = s[Len(s) - Limit + i]
  BY LastOnes
<1>2. /\ right \in Seq(Nat) /\ Len(right) = Limit
      /\ \A i \in 1 .. Limit : right[i] = u[Len(u) - Limit + i]
  BY LastOnes
<1> HIDE DEF left, right
<1>3. left = right
  BY <1>1, <1>2, SeqEqual
<1> QED
  BY <1>3 DEF left, right

LEMMA TrimIsASeq ==
  ASSUME NEW s \in Seq(Nat)
  PROVE  Store!Trim(s) \in Seq(Nat)
<1>1. Len(s) \in Nat
  OBVIOUS
<1>2. Limit > 0 /\ Len(s) > Limit => SubSeq(s, Len(s) - Limit + 1, Len(s)) \in Seq(Nat)
  BY <1>1, LastOnes, StoreConstants
<1> QED
  BY <1>2 DEF Store!Trim

\* Its last entry is kept when a sequence is trimmed.
LEMMA LastOfTrim ==
  ASSUME NEW s \in Seq(Nat), NEW x \in Nat
  PROVE  Store!Last(Store!Trim(Append(s, x))) = x
<1> DEFINE a == Append(s, x)
<1>1. a \in Seq(Nat) /\ Len(a) \in Nat /\ a[Len(a)] = x
  OBVIOUS
<1>2. Store!Trim(a) = (IF kind \in Store!Trimmed /\ Limit > 0 /\ Len(a) > Limit
                         THEN SubSeq(a, Len(a) - Limit + 1, Len(a)) ELSE a)
  BY DEF Store!Trim
<1> HIDE DEF a
<1>3. ASSUME Limit > 0, Len(a) > Limit
      PROVE  Store!Last(SubSeq(a, Len(a) - Limit + 1, Len(a))) = x
  <2>1. /\ Len(SubSeq(a, Len(a) - Limit + 1, Len(a))) = Limit
        /\ SubSeq(a, Len(a) - Limit + 1, Len(a))[Limit] = a[Len(a) - Limit + Limit]
    BY <1>1, <1>3, LastOnes, StoreConstants
  <2>2. Len(a) - Limit + Limit = Len(a)
    BY <1>1, StoreConstants
  <2> QED
    BY <1>1, <2>1, <2>2 DEF Store!Last
<1>4. Store!Last(a) = x
  BY <1>1 DEF Store!Last
<1> QED
  BY <1>2, <1>3, <1>4 DEF a

\* To trim before an entry is added makes no difference.
LEMMA TrimTwice ==
  ASSUME NEW s \in Seq(Nat), NEW x \in Nat
  PROVE  Store!Trim(Append(Store!Trim(s), x)) = Store!Trim(Append(s, x))
<1>1. CASE ~(kind \in Store!Trimmed /\ Limit > 0 /\ Len(s) > Limit)
  BY <1>1 DEF Store!Trim
<1>2. CASE kind \in Store!Trimmed /\ Limit > 0 /\ Len(s) > Limit
  <2> DEFINE n == Len(s)
             t == SubSeq(s, n - Limit + 1, n)
             more == Append(t, x)
             whole == Append(s, x)
  <2>1. n \in Nat /\ n > Limit
    BY <1>2, StoreConstants
  <2>2. /\ t \in Seq(Nat) /\ Len(t) = Limit
        /\ \A i \in 1 .. Limit : t[i] = s[n - Limit + i]
    BY <1>2, <2>1, LastOnes, StoreConstants
  <2>3. Store!Trim(s) = t
    BY <1>2 DEF Store!Trim
  <2> HIDE DEF t
  <2>4. /\ more \in Seq(Nat) /\ Len(more) = Limit + 1 /\ more[Limit + 1] = x
        /\ \A i \in 1 .. Limit : more[i] = t[i]
    BY <2>2, StoreConstants
  <2>5. /\ whole \in Seq(Nat) /\ Len(whole) = n + 1 /\ whole[n + 1] = x
        /\ \A i \in 1 .. n : whole[i] = s[i]
    OBVIOUS
  <2> HIDE DEF n, more, whole
  <2>6. ASSUME NEW i \in 1 .. Limit
        PROVE  more[Len(more) - Limit + i] = whole[Len(whole) - Limit + i]
    <3>1. Len(more) - Limit + i = i + 1 /\ Len(whole) - Limit + i = n - Limit + (i + 1)
      BY <2>1, <2>4, <2>5, StoreConstants
    <3>2. CASE i = Limit
      <4>1. n - Limit + (i + 1) = n + 1
        BY <2>1, <3>2, StoreConstants
      <4> QED
        BY <2>4, <2>5, <3>1, <3>2, <4>1
    <3>3. CASE i # Limit
      <4>1. i + 1 \in 1 .. Limit /\ n - Limit + (i + 1) \in 1 .. n
        BY <2>1, <3>3, StoreConstants
      <4>2. more[i + 1] = s[n - Limit + (i + 1)]
        BY <2>2, <2>4, <4>1
      <4>3. whole[n - Limit + (i + 1)] = s[n - Limit + (i + 1)]
        BY <2>5, <4>1
      <4> QED
        BY <3>1, <4>2, <4>3
    <3> QED
      BY <3>2, <3>3
  <2>7. Len(more) > Limit /\ Len(whole) > Limit
    BY <2>1, <2>4, <2>5, StoreConstants
  <2>8. /\ Store!Trim(more) = SubSeq(more, Len(more) - Limit + 1, Len(more))
        /\ Store!Trim(whole) = SubSeq(whole, Len(whole) - Limit + 1, Len(whole))
    BY <1>2, <2>7 DEF Store!Trim
  <2>9. Limit > 0 /\ Len(more) >= Limit /\ Len(whole) >= Limit
    BY <1>2, <2>4, <2>5, <2>7, StoreConstants
  <2>10. Store!Trim(more) = Store!Trim(whole)
    BY <2>4, <2>5, <2>6, <2>8, <2>9, SameLastOnes
  <2> QED
    BY <2>3, <2>10 DEF more, whole
<1> QED
  BY <1>1, <1>2

LEMMA StoreStart == Store!Init /\ kind \in Store!Locked => StoreParts
<1> SUFFICES ASSUME Store!Init, kind \in Store!Locked PROVE StoreParts
  OBVIOUS
<1>1. file = Nobody /\ temp = Nobody /\ kept = <<>>
  BY DEF Store!Init, Store!Locked
<1>2. StoreTyped
  <2>1. kept \in Seq(Nat)
    BY <1>1
  <2> QED
    BY <1>1, <2>1 DEF Store!Init, StoreTyped
<1>3. Exact
  BY <1>1, StoreConstants
     DEF Exact, Store!Whole, Store!Contents, Store!Empty, Store!Trim
<1>4. \A w \in Writers : at[w] = "idle" /\ fd[w] = Nobody
  BY DEF Store!Init
<1>5. Held /\ Opened /\ ReadExactly /\ Filled
  BY <1>4 DEF Held, Opened, ReadExactly, Filled
<1> QED
  BY <1>2, <1>3, <1>5 DEF StoreParts

LEMMA StoreBegin ==
  ASSUME StoreParts, kind \in Store!Locked, NEW w \in Writers, Store!Begin(w)
  PROVE  StoreParts'
<1> USE StoreConstants DEF StoreParts
<1>a. /\ at[w] = "idle" /\ lock = Nobody /\ at' = [at EXCEPT ![w] = "load"] /\ lock' = w
      /\ UNCHANGED <<kind, file, temp, data, job, fd, seen, saves, kept>>
  BY DEF Store!Begin, Store!GoTo, Store!MayBegin
<1>1. StoreTyped'
  BY <1>a DEF StoreTyped, Store!Locked
<1>2. Held'
  BY <1>a DEF Held, StoreTyped
<1>3. Exact'
  BY <1>a DEF Exact, StoreTyped, Store!Whole, Store!Contents, Store!Trim, Store!Locked,
     Store!Trimmed
<1>4. Opened'
  BY <1>a DEF Opened, StoreTyped, Store!Locked
<1>5. ReadExactly'
  BY <1>a DEF ReadExactly, StoreTyped, Store!Trim, Store!Trimmed
<1>6. Filled'
  BY <1>a DEF Filled, StoreTyped, Opened, Held
<1> QED
  BY <1>1, <1>2, <1>3, <1>4, <1>5, <1>6

LEMMA StoreLoad ==
  ASSUME StoreParts, kind \in Store!Locked, NEW w \in Writers, Store!Load(w)
  PROVE  StoreParts'
<1> USE StoreConstants DEF StoreParts
<1>a. /\ at[w] = "load" /\ at' = [at EXCEPT ![w] = "open"]
      /\ saves' = saves + 1 /\ job' = [job EXCEPT ![w] = "append"]
      /\ seen' = [seen EXCEPT ![w] =
           [text |-> "whole", by |-> Nobody, migrated |-> Store!Contents(file).migrated,
            entries |-> Store!Trim(Append(Store!Contents(file).entries, saves + 1))]]
      /\ UNCHANGED <<kind, file, temp, data, lock, fd, kept>>
  BY DEF Store!Load, Store!GoTo, Store!Locked, Exact
<1>1. StoreTyped'
  BY <1>a DEF StoreTyped, Store!Locked
<1>2. Held'
  BY <1>a DEF Held, StoreTyped
<1>3. Exact'
  BY <1>a DEF Exact, StoreTyped, Store!Whole, Store!Contents, Store!Trim, Store!Locked,
     Store!Trimmed
<1>4. Opened'
  BY <1>a DEF Opened, StoreTyped, Store!Locked
<1>5. ReadExactly'
  <2>1. Store!Contents(file).entries = Store!Trim(kept) /\ kept \in Seq(Nat) /\ saves + 1 \in Nat
    BY DEF Exact, StoreTyped
  <2>2. seen'[w].entries = Store!Trim(Append(kept, saves + 1)) /\ seen'[w].text = "whole"
    <3>1. Store!Trim(Append(Store!Trim(kept), saves + 1)) = Store!Trim(Append(kept, saves + 1))
      BY <2>1, TrimTwice
    <3> QED
      BY <1>a, <2>1, <3>1 DEF StoreTyped
  <2> QED
    BY <1>a, <2>1, <2>2 DEF ReadExactly, StoreTyped, Store!Trim, Store!Trimmed
<1>6. Filled'
  BY <1>a DEF Filled, StoreTyped, Opened, Held
<1> QED
  BY <1>1, <1>2, <1>3, <1>4, <1>5, <1>6

LEMMA StoreCannotParse ==
  ASSUME StoreParts, kind \in Store!Locked, NEW w \in Writers, Store!CannotParse(w)
  PROVE  StoreParts'
<1> USE StoreConstants DEF StoreParts
<1>a. /\ at' = [at EXCEPT ![w] = "idle"] /\ at[w] = "load"
      /\ lock' = IF lock = w THEN Nobody ELSE lock
      /\ UNCHANGED <<kind, file, temp, data, job, fd, seen, saves, kept>>
  BY DEF Store!CannotParse, Store!GoTo, StoreTyped
<1>1. StoreTyped'
  BY <1>a DEF StoreTyped, Store!Locked
<1>2. Held'
  BY <1>a DEF Held, StoreTyped
<1>3. Exact'
  BY <1>a DEF Exact, StoreTyped, Store!Whole, Store!Contents, Store!Trim, Store!Locked,
     Store!Trimmed
<1>4. Opened'
  BY <1>a DEF Opened, StoreTyped, Store!Locked
<1>5. ReadExactly'
  BY <1>a DEF ReadExactly, StoreTyped, Store!Trim, Store!Trimmed
<1>6. Filled'
  BY <1>a DEF Filled, StoreTyped, Opened, Held
<1> QED
  BY <1>1, <1>2, <1>3, <1>4, <1>5, <1>6

LEMMA StoreOpen ==
  ASSUME StoreParts, kind \in Store!Locked, NEW w \in Writers, Store!Open(w)
  PROVE  StoreParts'
<1> USE StoreConstants DEF StoreParts
<1>a. /\ at[w] = "open" /\ at' = [at EXCEPT ![w] = "write"]
      /\ fd' = [fd EXCEPT ![w] = Store!Free]
      /\ data' = [data EXCEPT ![Store!Free] = Store!Torn]
      /\ UNCHANGED <<kind, file, temp, lock, job, seen, saves, kept>>
  BY DEF Store!Open, Store!GoTo, Store!SharesTemp, Store!Locked
<1>b. Store!Free \in Store!Inodes /\ Store!Free # file
  <2>1. \A v \in Writers : fd[v] = Nobody
    BY <1>a DEF Held, Opened, StoreTyped
  <2>2. \E i \in Store!Inodes : ~Store!InUse(i)
    BY <2>1, StoreConstants DEF Store!InUse, StoreTyped
  <2>3. Store!Free \in Store!Inodes /\ ~Store!InUse(Store!Free)
    BY <2>2 DEF Store!Free
  <2> QED
    BY <2>3 DEF Store!InUse
<1>1. StoreTyped'
  BY <1>a, <1>b DEF StoreTyped, Store!Locked
<1>2. Held'
  BY <1>a, <1>b DEF Held, StoreTyped
<1>3. Exact'
  BY <1>a, <1>b DEF Exact, StoreTyped, Store!Whole, Store!Contents, Store!Trim, Store!Locked,
     Store!Trimmed
<1>4. Opened'
  BY <1>a, <1>b DEF Opened, StoreTyped, Store!Locked
<1>5. ReadExactly'
  BY <1>a, <1>b DEF ReadExactly, StoreTyped, Store!Trim, Store!Trimmed
<1>6. Filled'
  BY <1>a, <1>b DEF Filled, StoreTyped, Opened, Held
<1> QED
  BY <1>1, <1>2, <1>3, <1>4, <1>5, <1>6

LEMMA StoreWriteHalf ==
  ASSUME StoreParts, kind \in Store!Locked, NEW w \in Writers, Store!WriteHalf(w)
  PROVE  StoreParts'
<1> USE StoreConstants DEF StoreParts
<1>a. /\ at[w] = "write" /\ at' = [at EXCEPT ![w] = "finish"]
      /\ data' = [data EXCEPT ![fd[w]] = Store!Half(w)]
      /\ UNCHANGED <<kind, file, temp, lock, job, fd, seen, saves, kept>>
  BY DEF Store!WriteHalf, Store!GoTo
<1>1. StoreTyped'
  BY <1>a DEF StoreTyped, Store!Locked
<1>2. Held'
  BY <1>a DEF Held, StoreTyped
<1>3. Exact'
  BY <1>a DEF Exact, Opened, StoreTyped, Store!Whole, Store!Contents, Store!Trim, Store!Locked,
     Store!Trimmed
<1>4. Opened'
  BY <1>a DEF Opened, StoreTyped, Store!Locked
<1>5. ReadExactly'
  BY <1>a DEF ReadExactly, StoreTyped, Store!Trim, Store!Trimmed
<1>6. Filled'
  BY <1>a DEF Filled, StoreTyped, Opened, Held
<1> QED
  BY <1>1, <1>2, <1>3, <1>4, <1>5, <1>6

LEMMA StoreWriteRest ==
  ASSUME StoreParts, kind \in Store!Locked, NEW w \in Writers, Store!WriteRest(w)
  PROVE  StoreParts'
<1> USE StoreConstants DEF StoreParts
<1>a. /\ at[w] = "finish" /\ at' = [at EXCEPT ![w] = "rename"]
      /\ data' = [data EXCEPT ![fd[w]] = seen[w]]
      /\ UNCHANGED <<kind, file, temp, lock, job, fd, seen, saves, kept>>
  <2>1. data[fd[w]] = Store!Half(w)
    BY DEF Store!WriteRest, Filled
  <2> QED
    BY <2>1 DEF Store!WriteRest, Store!GoTo, StoreTyped
<1>1. StoreTyped'
  BY <1>a DEF StoreTyped, Store!Locked
<1>2. Held'
  BY <1>a DEF Held, StoreTyped
<1>3. Exact'
  BY <1>a DEF Exact, Opened, StoreTyped, Store!Whole, Store!Contents, Store!Trim, Store!Locked,
     Store!Trimmed
<1>4. Opened'
  BY <1>a DEF Opened, StoreTyped, Store!Locked
<1>5. ReadExactly'
  BY <1>a DEF ReadExactly, StoreTyped, Store!Trim, Store!Trimmed
<1>6. Filled'
  BY <1>a DEF Filled, StoreTyped, Opened, Held
<1> QED
  BY <1>1, <1>2, <1>3, <1>4, <1>5, <1>6

LEMMA StoreRename ==
  ASSUME StoreParts, kind \in Store!Locked, NEW w \in Writers, Store!Rename(w)
  PROVE  StoreParts'
<1> USE StoreConstants DEF StoreParts
<1>a. /\ at[w] = "rename" /\ file' = fd[w] /\ fd[w] \in Store!Inodes /\ temp' = temp
      /\ kept' = Append(kept, Store!Last(seen[w].entries))
      /\ at' = [at EXCEPT ![w] = "idle"] /\ job' = [job EXCEPT ![w] = "append"]
      /\ fd' = [fd EXCEPT ![w] = Nobody] /\ seen' = [seen EXCEPT ![w] = Store!Empty]
      /\ lock' = IF lock = w THEN Nobody ELSE lock
      /\ data' = [i \in Store!Inodes |-> IF Store!InUse(i)' THEN data[i] ELSE Store!Torn]
      /\ UNCHANGED <<kind, saves>>
  <2>1. at[w] = "rename" /\ fd[w] \in Store!Inodes /\ fd[w] # Nobody /\ job[w] = "append"
    BY StoreConstants DEF Store!Rename, Opened, StoreTyped
  <2>2. ~Store!SharesTemp
    BY DEF Store!SharesTemp, Store!Locked
  <2> QED
    BY <2>1, <2>2 DEF Store!Rename, Store!GoTo, Store!OthersFreed, StoreTyped
<1>b. data'[file'] = seen[w] /\ Store!InUse(file)'
  BY <1>a DEF Store!InUse, Filled
<1>c. PICK x \in Nat : seen[w].text = "whole" /\ seen[w].entries = Store!Trim(Append(kept, x))
  BY <1>a DEF ReadExactly
<1>d. kept' = Append(kept, x) /\ kept' \in Seq(Nat)
  <2>1. Store!Last(Store!Trim(Append(kept, x))) = x
    BY LastOfTrim DEF StoreTyped
  <2> QED
    BY <1>a, <1>c, <2>1 DEF StoreTyped
<1>e. \A v \in Writers \ {w} : at[v] = "idle" /\ fd[v] = Nobody
  BY <1>a DEF Held, Opened, StoreTyped
<1>1. StoreTyped'
  BY <1>a, <1>b, <1>d, <1>e DEF StoreTyped, Store!Locked
<1>2. Held'
  BY <1>a, <1>b, <1>d, <1>e DEF Held, StoreTyped
<1>3. Exact'
  <2>1. Store!Contents(file)' = seen[w] /\ Store!Whole(file)'
    BY <1>a, <1>b, <1>c DEF Store!Contents, Store!Whole
  <2>2. Store!Trim(kept)' = Store!Trim(Append(kept, x))
    BY <1>a, <1>d DEF Store!Trim, Store!Trimmed
  <2> QED
    BY <1>c, <2>1, <2>2 DEF Exact
<1>4. Opened'
  BY <1>a, <1>b, <1>d, <1>e DEF Opened, StoreTyped, Store!Locked
<1>5. ReadExactly'
  BY <1>a, <1>b, <1>d, <1>e DEF ReadExactly, StoreTyped, Store!Trim, Store!Trimmed
<1>6. Filled'
  BY <1>a, <1>b, <1>d, <1>e DEF Filled, StoreTyped, Opened, Held
<1> QED
  BY <1>1, <1>2, <1>3, <1>4, <1>5, <1>6

LEMMA StoreCrash ==
  ASSUME StoreParts, kind \in Store!Locked, NEW w \in Writers, Store!Crash(w)
  PROVE  StoreParts'
<1> USE StoreConstants DEF StoreParts
<1>a. /\ at[w] # "idle" /\ at' = [at EXCEPT ![w] = "idle"] /\ job' = [job EXCEPT ![w] = "append"]
      /\ fd' = [fd EXCEPT ![w] = Nobody] /\ seen' = [seen EXCEPT ![w] = Store!Empty]
      /\ lock' = IF lock = w THEN Nobody ELSE lock
      /\ data' = [i \in Store!Inodes |-> IF Store!InUse(i)' THEN data[i] ELSE Store!Torn]
      /\ UNCHANGED <<kind, file, temp, saves, kept>>
  BY DEF Store!Crash, Store!GoTo, Store!OthersFreed
<1>b. file # Nobody => data'[file] = data[file]
  BY <1>a DEF Store!InUse, StoreTyped
<1>e. \A v \in Writers \ {w} : at[v] = "idle" /\ fd[v] = Nobody
  BY <1>a DEF Held, Opened, StoreTyped
<1>1. StoreTyped'
  BY <1>a, <1>b, <1>e DEF StoreTyped, Store!Locked
<1>2. Held'
  BY <1>a, <1>b, <1>e DEF Held, StoreTyped
<1>3. Exact'
  BY <1>a, <1>b, <1>e DEF Exact, StoreTyped, Store!Whole, Store!Contents, Store!Trim,
     Store!Locked, Store!Trimmed
<1>4. Opened'
  BY <1>a, <1>b, <1>e DEF Opened, StoreTyped, Store!Locked
<1>5. ReadExactly'
  BY <1>a, <1>b, <1>e DEF ReadExactly, StoreTyped, Store!Trim, Store!Trimmed
<1>6. Filled'
  BY <1>a, <1>b, <1>e DEF Filled, StoreTyped, Opened, Held
<1> QED
  BY <1>1, <1>2, <1>3, <1>4, <1>5, <1>6

LEMMA StoreSteps ==
  ASSUME StoreParts, kind \in Store!Locked, Store!Next
  PROVE  StoreParts' /\ kind' = kind
<1>1. PICK w \in Writers :
        \/ Store!Begin(w) \/ Store!Load(w) \/ Store!Reread(w) \/ Store!CannotParse(w)
        \/ Store!Open(w) \/ Store!WriteHalf(w) \/ Store!WriteRest(w) \/ Store!Rename(w)
        \/ Store!Crash(w)
  BY DEF Store!Next
<1>2. ~Store!Reread(w)
  BY DEF Store!Reread, StoreParts, StoreTyped
<1>3. kind' = kind
  BY <1>1 DEF Store!Begin, Store!Load, Store!Reread, Store!CannotParse, Store!Open,
     Store!WriteHalf, Store!WriteRest, Store!Rename, Store!Crash
<1> QED
  BY <1>1, <1>2, <1>3, StoreBegin, StoreLoad, StoreCannotParse, StoreOpen, StoreWriteHalf,
     StoreWriteRest, StoreRename, StoreCrash

LEMMA StoreInvariant == Spec => []StoreInv
<1>1. Init => StoreInv
  BY StoreStart DEF Init, StoreInv
<1>2. StoreInv /\ [Next]_vars => StoreInv'
  <2> SUFFICES ASSUME StoreInv, [Next]_vars, part' = "store", kind' \in Store!Locked
               PROVE  StoreParts'
    BY DEF StoreInv, Store!Locked
  <2>1. part = "store"
    BY PartIsKept
  <2>2. CASE Next
    <3>1. Store!Next
      BY <2>1, <2>2 DEF Next, InGateway, InAlexa, InVoice
    <3>2. kind' = kind
      BY <3>1 DEF Store!Next, Store!Begin, Store!Load, Store!Reread, Store!CannotParse,
         Store!Open, Store!WriteHalf, Store!WriteRest, Store!Rename, Store!Crash
    <3> QED
      BY <2>1, <3>1, <3>2, StoreSteps DEF StoreInv
  <2>3. CASE UNCHANGED vars
    BY <2>1, <2>3 DEF vars, storeOnly, StoreInv, StoreParts, StoreTyped, Held, Exact, Opened,
       ReadExactly, Filled, Store!Whole, Store!Contents, Store!Trim
  <2> QED
    BY <2>2, <2>3
<1> QED
  BY <1>1, <1>2, PTL DEF Spec

\* A file that is saved under its lock (execution_history.py, usage.py, access_log.py,
\* conversation_store.py) holds exactly the last entries whose saves returned, in their
\* order, however many writers there are and wherever one of them is killed.
THEOREM NothingIsLostHolds == Spec => []NothingIsLost
<1>1. StoreInv => NothingIsLost
  BY DEF StoreInv, StoreParts, Exact, NothingIsLost, Store!NothingIsLost
<1> QED
  BY <1>1, StoreInvariant, PTL

\* Such a file is whole whenever a reader, who takes no lock, opens it.
THEOREM FilesAreWholeHolds == Spec => []FilesAreWhole
<1>1. StoreInv => FilesAreWhole
  BY DEF StoreInv, StoreParts, Exact, FilesAreWhole, Store!FilesAreWhole
<1> QED
  BY <1>1, StoreInvariant, PTL

(* A save shows as one step of the abstract log. *)

\* What is going to be written ends with an entry newer than any that was saved.
Newer ==
  /\ Store!Newest \in Nat /\ Store!Newest <= saves
  /\ \A w \in Writers : at[w] \in {"open", "write", "finish", "rename"} =>
       \E x \in Nat : /\ Store!Newest < x /\ x <= saves
                      /\ seen[w].entries = Store!Trim(Append(kept, x))

NewerInv == Logged => Newer

LEMMA KindIsKept == part = "store" /\ [Next]_vars => kind' = kind
  BY DEF Next, InGateway, InStore, InAlexa, InVoice, vars, storeOnly, Store!Next, Store!Begin,
     Store!Load, Store!Reread, Store!CannotParse, Store!Open, Store!WriteHalf, Store!WriteRest,
     Store!Rename, Store!Crash

\* A save that is under way goes on with the entry it has; only Load gives it one.
LEMMA NewerIsKept ==
  ASSUME Newer, kind' = kind, kept' = kept, saves' = saves,
         \A v \in Writers : at'[v] \in {"open", "write", "finish", "rename"} =>
            at[v] \in {"open", "write", "finish", "rename"} /\ seen'[v] = seen[v]
  PROVE  Newer'
<1>1. Store!Newest' = Store!Newest
  BY DEF Store!Newest, Store!Last
<1>2. \A s : Store!Trim(s)' = Store!Trim(s)
  BY DEF Store!Trim, Store!Trimmed
<1>3. ASSUME NEW v \in Writers, at'[v] \in {"open", "write", "finish", "rename"}
      PROVE  \E x \in Nat : /\ Store!Newest' < x /\ x <= saves'
                            /\ seen'[v].entries = (Store!Trim(Append(kept, x)))'
  <2>1. PICK x \in Nat : /\ Store!Newest < x /\ x <= saves
                         /\ seen[v].entries = Store!Trim(Append(kept, x))
    BY <1>3 DEF Newer
  <2>2. (Store!Trim(Append(kept, x)))' = Store!Trim(Append(kept, x))
    BY DEF Store!Trim, Store!Trimmed
  <2> QED
    BY <1>1, <1>3, <2>1, <2>2
<1> QED
  BY <1>1, <1>3 DEF Newer

LEMMA NewerLoad ==
  ASSUME StoreParts, kind \in Store!Locked, Newer, NEW w \in Writers, Store!Load(w)
  PROVE  Newer'
<1>a. /\ at[w] = "load" /\ at' = [at EXCEPT ![w] = "open"] /\ saves' = saves + 1
      /\ seen' = [seen EXCEPT ![w] =
           [text |-> "whole", by |-> Nobody, migrated |-> Store!Contents(file).migrated,
            entries |-> Store!Trim(Append(Store!Contents(file).entries, saves + 1))]]
      /\ UNCHANGED <<kind, lock, kept>>
  BY DEF Store!Load, Store!GoTo, Store!Locked, StoreParts, Exact
<1>1. \A v \in Writers \ {w} : at'[v] = "idle"
  BY <1>a DEF StoreParts, Held, StoreTyped
<1>2. Store!Contents(file).entries = Store!Trim(kept) /\ kept \in Seq(Nat) /\ saves \in Nat
  BY DEF StoreParts, Exact, StoreTyped
<1>3. seen'[w].entries = Store!Trim(Append(Store!Trim(kept), saves + 1))
  BY <1>a, <1>2 DEF StoreParts, StoreTyped
<1>4. Store!Trim(Append(Store!Trim(kept), saves + 1)) = Store!Trim(Append(kept, saves + 1))
  BY <1>2, TrimTwice
<1>5. Store!Newest' = Store!Newest /\ Store!Newest \in Nat /\ Store!Newest <= saves
  BY <1>a DEF Newer, Store!Newest, Store!Last
<1>6. (Store!Trim(Append(kept, saves + 1)))' = Store!Trim(Append(kept, saves' + 1))
  BY <1>a DEF Store!Trim, Store!Trimmed
<1>7. \A x \in Nat : (Store!Trim(Append(kept, x)))' = Store!Trim(Append(kept, x))
  BY <1>a DEF Store!Trim, Store!Trimmed
<1>8. Store!Newest' < saves + 1 /\ saves + 1 <= saves' /\ saves + 1 \in Nat
      /\ Store!Newest' \in Nat /\ Store!Newest' <= saves'
  BY <1>a, <1>2, <1>5
<1>9. seen'[w].entries = Store!Trim(Append(kept, saves + 1))
  BY <1>3, <1>4
<1>10. \E x \in Nat : /\ Store!Newest' < x /\ x <= saves'
                      /\ seen'[w].entries = (Store!Trim(Append(kept, x)))'
  BY <1>7, <1>8, <1>9
<1> QED
  BY <1>1, <1>8, <1>10 DEF Newer

\* Rename is the step of the log.
LEMMA NewerRename ==
  ASSUME StoreParts, kind \in Store!Locked, Newer, NEW w \in Writers, Store!Rename(w)
  PROVE  /\ Newer'
         /\ Store!Newest' \in Nat /\ Store!Newest' > Store!Newest
         /\ kept' = Append(kept, Store!Newest')
<1>a. /\ at[w] = "rename" /\ kept' = Append(kept, Store!Last(seen[w].entries))
      /\ at' = [at EXCEPT ![w] = "idle"] /\ UNCHANGED <<kind, saves>>
  <2>1. at[w] = "rename" /\ fd[w] \in Store!Inodes /\ fd[w] # Nobody /\ job[w] = "append"
    BY StoreConstants DEF Store!Rename, StoreParts, Opened, StoreTyped
  <2>2. ~Store!SharesTemp
    BY DEF Store!SharesTemp, Store!Locked
  <2> QED
    BY <2>1, <2>2 DEF Store!Rename, Store!GoTo, StoreParts, StoreTyped
<1>1. PICK x \in Nat : /\ Store!Newest < x /\ x <= saves
                       /\ seen[w].entries = Store!Trim(Append(kept, x))
  BY <1>a DEF Newer
<1>2. kept \in Seq(Nat)
  BY DEF StoreParts, StoreTyped
<1>3. Store!Last(seen[w].entries) = x
  BY <1>1, <1>2, LastOfTrim
<1>4. kept' = Append(kept, x)
  BY <1>a, <1>3
<1>5. Store!Newest' = x
  <2>1. Append(kept, x) # <<>> /\ Append(kept, x)[Len(Append(kept, x))] = x
    BY <1>2
  <2> QED
    BY <1>4, <2>1 DEF Store!Newest, Store!Last
<1>6. \A v \in Writers : at'[v] = "idle"
  BY <1>a DEF StoreParts, Held, StoreTyped
<1> QED
  BY <1>a, <1>1, <1>4, <1>5, <1>6 DEF Newer

LEMMA NewerSteps ==
  ASSUME StoreParts, kind \in Store!Locked, Newer, Store!Next
  PROVE  /\ Newer'
         /\ \/ kept' = kept
            \/ /\ Store!Newest' \in Nat /\ Store!Newest' > Store!Newest
               /\ kept' = Append(kept, Store!Newest')
<1>1. PICK w \in Writers :
        \/ Store!Begin(w) \/ Store!Load(w) \/ Store!Reread(w) \/ Store!CannotParse(w)
        \/ Store!Open(w) \/ Store!WriteHalf(w) \/ Store!WriteRest(w) \/ Store!Rename(w)
        \/ Store!Crash(w)
  BY DEF Store!Next
<1> USE DEF StoreParts, StoreTyped
<1>2. CASE Store!Begin(w)
  BY <1>2, NewerIsKept DEF Store!Begin, Store!GoTo
<1>3. CASE Store!Load(w)
  BY <1>3, NewerLoad DEF Store!Load
<1>4. CASE Store!Reread(w)
  BY <1>4 DEF Store!Reread
<1>5. CASE Store!CannotParse(w)
  BY <1>5, NewerIsKept DEF Store!CannotParse, Store!GoTo
<1>6. CASE Store!Open(w)
  BY <1>6, NewerIsKept DEF Store!Open, Store!GoTo
<1>7. CASE Store!WriteHalf(w)
  BY <1>7, NewerIsKept DEF Store!WriteHalf, Store!GoTo
<1>8. CASE Store!WriteRest(w)
  BY <1>8, NewerIsKept DEF Store!WriteRest, Store!GoTo
<1>9. CASE Store!Rename(w)
  BY <1>9, NewerRename
<1>10. CASE Store!Crash(w)
  BY <1>10, NewerIsKept DEF Store!Crash, Store!GoTo
<1> QED
  BY <1>1, <1>2, <1>3, <1>4, <1>5, <1>6, <1>7, <1>8, <1>9, <1>10

LEMMA NewerInvariant == Spec => []NewerInv
<1>1. Init => NewerInv
  <2> SUFFICES ASSUME Init, Logged PROVE Newer
    BY DEF NewerInv
  <2>1. kept = <<>> /\ saves = 0 /\ \A w \in Writers : at[w] = "idle"
    BY DEF Init, Logged, Store!Init
  <2> QED
    BY <2>1 DEF Newer, Store!Newest
<1>2. StoreInv /\ NewerInv /\ [Next]_vars => NewerInv'
  <2> SUFFICES ASSUME StoreInv, NewerInv, [Next]_vars, Logged' PROVE Newer'
    BY DEF NewerInv
  <2>1. part = "store" /\ kind' = kind /\ kind \in Store!Locked
    BY PartIsKept, KindIsKept DEF Logged, Store!Locked
  <2>2. StoreParts /\ Newer
    BY <2>1 DEF StoreInv, NewerInv, Logged
  <2>3. CASE Next
    <3>1. Store!Next
      BY <2>1, <2>3 DEF Next, InGateway, InAlexa, InVoice
    <3> QED
      BY <2>1, <2>2, <3>1, NewerSteps
  <2>4. CASE UNCHANGED vars
    BY <2>1, <2>2, <2>4, NewerIsKept DEF vars, storeOnly
  <2> QED
    BY <2>3, <2>4
<1> QED
  BY <1>1, <1>2, StoreInvariant, PTL DEF Spec

\* The log's own way to cut is the store's.
LEMMA CutAlike == \A s : Len(s) \in Nat /\ Logged => Log!Kept(s) = Store!Trim(s)
  BY StoreConstants DEF Log!Kept, Store!Trim

LEMMA LogStart == Init => Log!Init
<1>1. Limit \in Nat
  BY StoreConstants
<1>2. Init /\ Logged => Store!Shown = <<>> /\ Store!Newest = 0
  BY DEF Init, Logged, Store!Init, Store!Locked, Store!Shown, Store!Newest, Store!Whole,
     Store!Contents, Store!Empty
<1> QED
  BY <1>1, <1>2 DEF Log!Init

LEMMA LogStep ==
  ASSUME StoreInv, StoreInv', NewerInv, [Next]_vars
  PROVE  [Log!Save]_(Log!vars)
<1>1. CASE ~Logged
  <2>1. ~Logged'
    BY <1>1, PartIsKept, KindIsKept DEF Logged, Store!Locked
  <2> QED
    BY <1>1, <2>1 DEF Log!vars
<1>2. CASE Logged
  <2>1. part = "store" /\ kind \in Store!Locked /\ kind' = kind /\ Logged'
    BY <1>2, PartIsKept, KindIsKept DEF Logged, Store!Locked
  <2>2. StoreParts /\ StoreParts' /\ Newer
    BY <2>1 DEF StoreInv, NewerInv, Logged, Store!Locked
  <2>3. /\ Store!Shown = Store!Trim(kept) /\ Store!Shown' = (Store!Trim(kept))'
        /\ kept \in Seq(Nat)
    BY <2>2 DEF StoreParts, Exact, StoreTyped, Store!Shown
  <2>4. (Store!Trim(kept))' = Store!Trim(kept')
    BY <2>1 DEF Store!Trim, Store!Trimmed
  <2>5. (IF Logged /\ kind \in Store!Trimmed THEN Limit ELSE 0)'
          = (IF Logged /\ kind \in Store!Trimmed THEN Limit ELSE 0)
    BY <1>2, <2>1 DEF Store!Trimmed
  <2>6. CASE kept' = kept
    <3>1. Store!Shown' = Store!Shown /\ Store!Newest' = Store!Newest
      BY <2>3, <2>4, <2>6 DEF Store!Newest, Store!Last
    <3> QED
      BY <1>2, <2>1, <2>5, <3>1 DEF Log!vars
  <2>7. CASE /\ Store!Newest' \in Nat /\ Store!Newest' > Store!Newest
             /\ kept' = Append(kept, Store!Newest')
    <3> DEFINE x == Store!Newest'
               s == Store!Trim(kept)
    <3>1. s \in Seq(Nat)
      BY <2>3, TrimIsASeq
    <3>2. Store!Trim(Append(s, x)) = Store!Trim(Append(kept, x))
      BY <2>3, <2>7, TrimTwice
    <3>3. Len(Append(s, x)) \in Nat
      BY <2>7, <3>1
    <3>4. Log!Kept(Append(s, x)) = Store!Trim(Append(s, x))
      BY <1>2, <3>3, CutAlike
    <3>5. Store!Shown' = Log!Kept(Append(Store!Shown, x))
      BY <2>3, <2>4, <2>7, <3>2, <3>4
    <3> QED
      BY <1>2, <2>1, <2>5, <2>7, <3>5 DEF Log!Save
  <2>8. CASE Next
    <3>1. Store!Next
      BY <2>1, <2>8 DEF Next, InGateway, InAlexa, InVoice
    <3> QED
      BY <2>1, <2>2, <2>6, <2>7, <3>1, NewerSteps
  <2>9. CASE UNCHANGED vars
    BY <2>6, <2>9 DEF vars, storeOnly
  <2> QED
    BY <2>8, <2>9
<1> QED
  BY <1>1, <1>2

\* A store that is saved under its lock implements the abstract log: whatever writers do at
\* once and wherever one is killed, a reader sees whole saves, one at a time, each of an
\* entry newer than all before it.
THEOREM StoreImplementsLog == Spec => ImplementsLog
<1>1. StoreInv /\ StoreInv' /\ NewerInv /\ [Next]_vars => [Log!Save]_(Log!vars)
  BY LogStep
<1> QED
  BY <1>1, LogStart, StoreInvariant, NewerInvariant, PTL DEF Spec, ImplementsLog, Log!Spec

----------------------------------------------------------------------------
(* Types: what the invariants above leave open. *)

GatewayRest ==
  /\ attempts \in [Calls -> {<<>>, <<"shared">>, <<"device", "shared">>}]
  /\ auth \in [Calls -> Gateway!Tokens] /\ issued \in [Calls -> Gateway!Tokens]
  /\ stored \in [Gateway!Profiles -> Gateway!Tokens]
  /\ valid \in [Gateway!Profiles -> Gateway!Tokens]
  /\ cancelled \in SUBSET Calls

LEMMA GatewayRestStart == Gateway!Init => GatewayRest
<1>1. {0, 1} \subseteq Gateway!Tokens
  BY GatewayConstants DEF Gateway!Tokens, Gateway!NoToken
<1> QED
  BY <1>1 DEF Gateway!Init, GatewayRest, Gateway!NoToken

LEMMA GatewayRestOfCall ==
  ASSUME GatewayParts, GatewayRest, NEW c \in Calls, Gateway!CallStep(c)
  PROVE  GatewayRest'
<1> USE ProfileTyped DEF GatewayRest, Gateway!gatewayVars, Gateway!clientVars
<1>t. Gateway!NoToken \in Gateway!Tokens
  BY GatewayConstants DEF Gateway!Tokens, Gateway!NoToken
<1>1. CASE Gateway!Begin(c)
  BY <1>1, <1>t DEF Gateway!Begin, Gateway!Fail, Gateway!End, Gateway!Disconnect
<1>2. CASE Gateway!Dial(c)
  BY <1>2, <1>t DEF Gateway!Dial
<1>3. CASE Gateway!TokenRejected(c)
  <2>1. Tail(attempts[c]) \in {<<>>, <<"shared">>}
    BY <1>3, Attempts DEF Gateway!TokenRejected, GatewayParts, Tried
  <2> QED
    BY <1>3, <1>t, <2>1 DEF Gateway!TokenRejected, Gateway!Disconnect
<1>4. CASE Gateway!HelloRefused(c)
  BY <1>4, <1>t DEF Gateway!HelloRefused, Gateway!Fail, Gateway!End, Gateway!Disconnect
<1>5. CASE Gateway!Welcomed(c)
  BY <1>5, <1>t DEF Gateway!Welcomed, Gateway!Fail, Gateway!End, Gateway!Disconnect
<1>6. CASE Gateway!Transmit(c)
  BY <1>6 DEF Gateway!Transmit
<1>7. CASE Gateway!ReadAnswer(c)
  BY <1>7, <1>t DEF Gateway!ReadAnswer, Gateway!End, Gateway!Disconnect
<1>8. CASE Gateway!GivesUp(c)
  BY <1>8, <1>t DEF Gateway!GivesUp, Gateway!WaitFails, Gateway!Fail, Gateway!End, Gateway!Disconnect
<1> QED
  BY <1>1, <1>2, <1>3, <1>4, <1>5, <1>6, <1>7, <1>8 DEF Gateway!CallStep

LEMMA GatewayRestSteps ==
  ASSUME GatewayParts, GatewayRest, [Gateway!Next]_(Gateway!vars)
  PROVE  GatewayRest'
<1> USE ProfileTyped DEF GatewayRest, Gateway!gatewayVars, Gateway!clientVars
<1>1. ASSUME NEW c \in Calls, Gateway!Greet(c) PROVE GatewayRest'
  BY <1>1 DEF Gateway!Greet
<1>2. ASSUME NEW c \in Calls, Gateway!Serve(c) PROVE GatewayRest'
  BY <1>2 DEF Gateway!Serve
<1>3. ASSUME NEW c \in Calls, Gateway!Cancel(c) PROVE GatewayRest'
  BY <1>3 DEF Gateway!Cancel
<1>4. ASSUME NEW p \in Gateway!Profiles, Gateway!Rotate(p) PROVE GatewayRest'
  <2>1. valid[p] + 1 \in Gateway!Tokens
    BY <1>4, GatewayConstants DEF Gateway!Rotate, Gateway!Tokens, Gateway!NoToken
  <2> QED
    BY <1>4, <2>1 DEF Gateway!Rotate
<1>5. CASE UNCHANGED Gateway!vars
  BY <1>5 DEF Gateway!vars
<1> QED
  BY <1>1, <1>2, <1>3, <1>4, <1>5, GatewayRestOfCall DEF Gateway!Next

LEMMA GatewayTypes == GatewayParts /\ GatewayRest => Gateway!TypeOK
<1> SUFFICES ASSUME GatewayParts, GatewayRest PROVE Gateway!TypeOK
  OBVIOUS
<1>1. dials \in [Calls -> 0 .. 2]
  <2>1. \A c \in Calls : dials[c] \in Nat /\ dials[c] <= 2
    BY DEF GatewayParts, GatewayTyped, Tried
  <2>2. \A c \in Calls : dials[c] \in 0 .. 2
    BY <2>1
  <2> QED
    BY <2>2 DEF GatewayParts, GatewayTyped
<1>2. transmitted \in [Calls -> 0 .. 1]
  <2>1. \A c \in Calls : transmitted[c] \in Nat /\ transmitted[c] <= 1
    BY DEF GatewayParts, GatewayTyped, Written
  <2>2. \A c \in Calls : transmitted[c] \in 0 .. 1
    BY <2>1
  <2> QED
    BY <2>2 DEF GatewayParts, GatewayTyped
<1> QED
  BY <1>1, <1>2 DEF Gateway!TypeOK, GatewayRest, GatewayParts, GatewayTyped

AlexaRest ==
  /\ configured \in BOOLEAN
  /\ reply \in [Posts -> Alexa!Statuses]
  /\ delivered \subseteq Posts
  /\ restarts \in 0 .. MaxRestarts

LEMMA AlexaRestStart == Alexa!Init => AlexaRest
<1>1. 0 \in 0 .. MaxRestarts
  BY ServicesAssumption DEF ServicesAssumption, Alexa!AlexaAssumption
<1> QED
  BY <1>1 DEF Alexa!Init, AlexaRest, Alexa!Statuses

LEMMA AlexaRestSteps ==
  ASSUME AlexaRest, [Alexa!Next]_(Alexa!vars)
  PROVE  AlexaRest'
<1> USE DEF AlexaRest, Alexa!Statuses
<1>1. ASSUME NEW p \in Posts, Alexa!PostStep(p) PROVE AlexaRest'
  <2>1. /\ UNCHANGED <<configured, restarts>>
        /\ \/ UNCHANGED reply
           \/ \E status \in Alexa!Statuses : reply' = [reply EXCEPT ![p] = status]
        /\ delivered' \in {delivered, delivered \cup {p}}
    BY <1>1 DEF Alexa!PostStep, Alexa!Refuse, Alexa!Accept, Alexa!TestBusy, Alexa!StartTask,
       Alexa!TaskEnds, Alexa!SaveResult, Alexa!Deliver, Alexa!Answer
  <2> QED
    BY <2>1
<1>2. CASE Alexa!Restart
  <2>1. restarts' \in 0 .. MaxRestarts
    BY <1>2, ServicesAssumption DEF Alexa!Restart, ServicesAssumption, Alexa!AlexaAssumption
  <2> QED
    BY <1>2, <2>1 DEF Alexa!Restart
<1>3. CASE UNCHANGED Alexa!vars
  BY <1>3 DEF Alexa!vars
<1> QED
  BY <1>1, <1>2, <1>3 DEF Alexa!Next

LEMMA AlexaTypes == AlexaParts /\ AlexaRest => Alexa!TypeOK
<1> SUFFICES ASSUME AlexaParts, AlexaRest PROVE Alexa!TypeOK
  OBVIOUS
<1>1. Cardinality(Ends) \in Nat /\ Cardinality(Posts) \in Nat
      /\ Cardinality(Ends) <= Cardinality(Posts)
  BY EndsAreFinite, AlexaConstants, FS_Subset, FS_CardinalityType DEF Ends
<1>2. ended \in [Posts -> 0 .. Cardinality(Posts)]
  BY <1>1 DEF AlexaParts, AlexaTyped, Numbered
<1> QED
  BY <1>2, SameCardinality DEF Alexa!TypeOK, AlexaParts, AlexaTyped, AlexaRest, PostStates

VoiceRest ==
  /\ quiet \in {"no", "quiet", "timed"}
  /\ round \in [Spoken!Callers -> 0 .. 2]
  /\ stopListener \in [Spoken!Callers -> Spoken!Listening]
  /\ speech \in [Spoken!Callers -> {"silent", "synthesizing", "playing", "saying", "killed"}]
  /\ wakeListener \in [Spoken!Callers -> Spoken!Listening]
  /\ command \in [Spoken!Callers -> BOOLEAN]
  /\ pid \in Spoken!Callers \cup {Nobody}
  /\ late \in [{"stop", "wake"} -> 0 .. MaxLate]

LEMMA VoiceRestStart == Spoken!Init => VoiceRest
<1>1. 0 \in 0 .. MaxLate
  BY ServicesAssumption DEF ServicesAssumption, Spoken!VoiceAssumption
<1> QED
  BY <1>1 DEF Spoken!Init, VoiceRest, Spoken!Listening

\* What the turns of a caller do to the sound.
LEMMA VoiceRestOfTurn ==
  ASSUME VoiceRest, NEW c \in Spoken!Callers,
         Spoken!Turn(c) \/ Spoken!Hear(c) \/ Spoken!TimesOut(c) \/ Spoken!Resend(c)
  PROVE  VoiceRest'
<1> USE VoiceConstants
    DEF VoiceRest, Spoken!Listening, Spoken!GoTo, Spoken!Silence, Spoken!Say, Spoken!BeginSpeech,
        Spoken!Stopped, Spoken!StopSpeaking, Spoken!Submit, Spoken!core, Spoken!sound, Spoken!turn
<1>1. CASE Spoken!BeQuiet(c)
  BY <1>1 DEF Spoken!BeQuiet
<1>2. CASE Spoken!Sleep(c)
  BY <1>2 DEF Spoken!Sleep
<1>3. CASE Spoken!Ignore(c) \/ Spoken!Hear(c) \/ Spoken!TimesOut(c)
  BY <1>3 DEF Spoken!Ignore, Spoken!Hear, Spoken!TimesOut
<1>4. CASE Spoken!Decline(c) \/ Spoken!LeaveIt(c)
  BY <1>4 DEF Spoken!Decline, Spoken!LeaveIt
<1>5. CASE Spoken!Start(c)
  BY <1>5 DEF Spoken!Start
<1>6. CASE Spoken!Answered(c) \/ Spoken!GaveUp(c)
  BY <1>6 DEF Spoken!Answered, Spoken!GaveUp
<1>7. CASE Spoken!Spoken(c)
  <2>1. /\ UNCHANGED <<quiet, stopListener, speech, pid>>
        /\ wakeListener' = [wakeListener EXCEPT ![c] = "none"]
        /\ command' = [command EXCEPT ![c] = FALSE]
        /\ \/ UNCHANGED late
           \/ late["wake"] < MaxLate /\ late' = [late EXCEPT !["wake"] = @ + 1]
    BY <1>7, Zenon DEF Spoken!Spoken
  <2>2. late' \in [{"stop", "wake"} -> 0 .. MaxLate]
    BY <2>1, ServicesAssumption DEF ServicesAssumption, Spoken!VoiceAssumption
  <2>3. round' \in [Spoken!Callers -> 0 .. 2]
    <3>1. \E b \in {TRUE, FALSE} : round' = [round EXCEPT ![c] = IF b THEN 0 ELSE @]
      BY <1>7, Zenon DEF Spoken!Spoken
    <3> QED
      BY <3>1
  <2> QED
    BY <2>1, <2>2, <2>3
<1>8. CASE Spoken!Resend(c)
  BY <1>8 DEF Spoken!Resend
<1> QED
  BY <1>1, <1>2, <1>3, <1>4, <1>5, <1>6, <1>7, <1>8 DEF Spoken!Turn

LEMMA VoiceRestOfRequests ==
  ASSUME VoiceRest,
         \/ \E c \in Spoken!Callers, r \in {"answered", "question"} : Spoken!RequestEnds(c, r)
         \/ \E c \in Spoken!Callers : Spoken!HearStop(c) \/ Spoken!StopHeard(c)
         \/ Spoken!LateStop \/ Spoken!RunScheduled \/ Spoken!ScheduledEnds
  PROVE  VoiceRest'
<1> USE VoiceConstants
    DEF VoiceRest, Spoken!Listening, Spoken!GoTo, Spoken!Silence, Spoken!Say, Spoken!BeginSpeech,
        Spoken!Submit, Spoken!core, Spoken!sound, Spoken!turn, Spoken!Finish
<1>m. MaxLate \in Nat
  BY ServicesAssumption DEF ServicesAssumption, Spoken!VoiceAssumption
<1>1. ASSUME NEW c \in Spoken!Callers, NEW r \in {"answered", "question"},
             Spoken!RequestEnds(c, r)
      PROVE  VoiceRest'
  <2>1. late' \in [{"stop", "wake"} -> 0 .. MaxLate]
    BY <1>1, <1>m DEF Spoken!RequestEnds
  <2> QED
    BY <1>1, <2>1 DEF Spoken!RequestEnds
<1>2. ASSUME NEW c \in Spoken!Callers, Spoken!HearStop(c) \/ Spoken!StopHeard(c)
      PROVE  VoiceRest'
  BY <1>2 DEF Spoken!HearStop, Spoken!StopHeard
<1>3. CASE Spoken!LateStop
  <2>1. late' \in [{"stop", "wake"} -> 0 .. MaxLate]
    BY <1>3, <1>m DEF Spoken!LateStop
  <2> QED
    BY <1>3, <2>1 DEF Spoken!LateStop
<1>4. CASE Spoken!RunScheduled
  BY <1>4 DEF Spoken!RunScheduled
<1>5. CASE Spoken!ScheduledEnds
  BY <1>5 DEF Spoken!ScheduledEnds
<1> QED
  BY <1>1, <1>2, <1>3, <1>4, <1>5

LEMMA VoiceRestOfSounds ==
  ASSUME VoiceRest,
         \/ \E c \in Spoken!Callers :
               \/ Spoken!Play(c) \/ Spoken!NextSentence(c) \/ Spoken!LastSentence(c)
               \/ Spoken!KilledEnds(c) \/ Spoken!HearWake(c) \/ Spoken!NotTheWakeWord(c)
               \/ Spoken!WakeHeard(c)
         \/ Spoken!LateWake \/ Spoken!OthersSpeak \/ Spoken!WakeByItself
         \/ UNCHANGED Spoken!vars
  PROVE  VoiceRest'
<1> USE VoiceConstants
    DEF VoiceRest, Spoken!Listening, Spoken!Stopped, Spoken!StopSpeaking, Spoken!EndPlayback,
        Spoken!core, Spoken!sound, Spoken!turn, Spoken!vars
<1>1. ASSUME NEW c \in Spoken!Callers,
             \/ Spoken!Play(c) \/ Spoken!NextSentence(c) \/ Spoken!LastSentence(c)
             \/ Spoken!KilledEnds(c)
      PROVE  VoiceRest'
  BY <1>1 DEF Spoken!Play, Spoken!NextSentence, Spoken!LastSentence, Spoken!KilledEnds
<1>2. ASSUME NEW c \in Spoken!Callers, Spoken!HearWake(c) \/ Spoken!NotTheWakeWord(c)
      PROVE  VoiceRest'
  BY <1>2 DEF Spoken!HearWake, Spoken!NotTheWakeWord
<1>3. ASSUME NEW c \in Spoken!Callers, Spoken!WakeHeard(c) PROVE VoiceRest'
  BY <1>3 DEF Spoken!WakeHeard
<1>4. CASE Spoken!LateWake
  <2>1. late' \in [{"stop", "wake"} -> 0 .. MaxLate]
    BY <1>4, ServicesAssumption DEF Spoken!LateWake, ServicesAssumption, Spoken!VoiceAssumption
  <2> QED
    BY <1>4, <2>1 DEF Spoken!LateWake
<1>5. CASE Spoken!OthersSpeak \/ Spoken!WakeByItself \/ UNCHANGED Spoken!vars
  BY <1>5 DEF Spoken!OthersSpeak, Spoken!WakeByItself
<1> QED
  BY <1>1, <1>2, <1>3, <1>4, <1>5

LEMMA VoiceRestSteps == VoiceRest /\ [Spoken!Next]_(Spoken!vars) => VoiceRest'
  BY VoiceRestOfTurn, VoiceRestOfRequests, VoiceRestOfSounds DEF Spoken!Next

LEMMA VoiceTypes == VoiceParts /\ VoiceRest => Spoken!TypeOK
  BY DEF VoiceParts, VoiceTyped, VoiceRest, Spoken!TypeOK

\* A store of any kind, the memories included, which have no lock.
Documents ==
  [text : {"whole", "cut off"}, by : Writers \cup {Nobody}, entries : Seq(Store!Entries),
   migrated : BOOLEAN]

AnyTyped ==
  /\ kind \in Kinds
  /\ file \in Store!Inodes \cup {Nobody} /\ temp \in Store!Inodes \cup {Nobody}
  /\ data \in [Store!Inodes -> Documents]
  /\ lock \in Writers \cup {Nobody}
  /\ at \in [Writers -> {"idle", "load", "reread", "open", "write", "finish", "rename"}]
  /\ job \in [Writers -> {"append", "migrate", "mark"}]
  /\ fd \in [Writers -> Store!Inodes \cup {Nobody}]
  /\ seen \in [Writers -> Documents]
  /\ saves \in 0 .. MaxSaves /\ crashes \in 0 .. MaxCrashes
  /\ kept \in Seq(1 .. MaxSaves)

\* Only a writer that writes has a file open; so one is free for the next.
HasOpened ==
  \A w \in Writers :
    IF at[w] \in {"write", "finish", "rename"} THEN fd[w] \in Store!Inodes ELSE fd[w] = Nobody

\* What is going to be written is whole, and ends with a numbered entry if it is an append.
HasEntry ==
  \A w \in Writers :
    /\ seen[w].text = "whole"
    /\ at[w] \in {"reread", "open", "write", "finish", "rename"} /\ job[w] = "append" =>
         Store!Last(seen[w].entries) \in 1 .. MaxSaves

StoreRest == AnyTyped /\ HasOpened /\ HasEntry

LEMMA StoreBounds ==
  /\ MaxSaves \in Nat /\ MaxCrashes \in Nat /\ IsFiniteSet(Writers)
  /\ Store!Entries = 0 .. MaxSaves /\ Store!Entries \subseteq Nat
  /\ Store!Empty \in Documents /\ Store!Torn \in Documents
  /\ \A w \in Writers : Store!Half(w) \in Documents
<1>1. MaxSaves \in Nat /\ MaxCrashes \in Nat /\ IsFiniteSet(Writers)
  BY ServicesAssumption
     DEF ServicesAssumption, Store!StoresAssumption, Store!IsFiniteSet, IsFiniteSet
<1>2. Store!Empty \in Documents /\ Store!Empty.entries = <<>>
  BY DEF Store!Empty, Documents
<1>3. Store!Torn \in Documents
  BY <1>2 DEF Store!Torn, Store!Empty, Documents
<1>4. \A w \in Writers : Store!Half(w) \in Documents
  BY <1>3 DEF Store!Half, Store!Torn, Store!Empty, Documents
<1> QED
  BY <1>1, <1>2, <1>3, <1>4 DEF Store!Entries

\* Fewer inodes are in use than there are, while a writer has none open.
LEMMA OneIsFree ==
  ASSUME AnyTyped, NEW w \in Writers, fd[w] = Nobody
  PROVE  Store!Free \in Store!Inodes
<1> DEFINE others == Writers \ {w}
           f == [v \in others |-> fd[v]]
           opened == {f[v] : v \in others}
           taken == opened \cup {file, temp}
           n == Cardinality(Writers)
<1>1. IsFiniteSet(others) /\ Cardinality(others) = n - 1 /\ n \in Nat
  BY StoreBounds, FS_RemoveElement, FS_CardinalityType
<1>2. IsFiniteSet(opened) /\ Cardinality(opened) <= n - 1
  <2>1. f \in Surjection(others, opened)
    BY DEF Surjection
  <2> HIDE DEF f, opened, others
  <2> QED
    BY <1>1, <2>1, FS_Surjection
<1>3. IsFiniteSet(taken) /\ Cardinality(taken) <= n + 1
  <2> HIDE DEF opened, n
  <2> DEFINE more == opened \cup {file}
  <2>a. Cardinality(opened) \in Nat
    BY <1>2, FS_CardinalityType
  <2>b. IsFiniteSet(more) /\ Cardinality(more) \in {Cardinality(opened), Cardinality(opened) + 1}
    BY <1>2, FS_AddElement
  <2>1. IsFiniteSet(more) /\ Cardinality(more) <= n /\ Cardinality(more) \in Nat
    BY <1>1, <1>2, <2>a, <2>b
  <2> HIDE DEF more
  <2>c. /\ IsFiniteSet(more \cup {temp})
        /\ Cardinality(more \cup {temp}) \in {Cardinality(more), Cardinality(more) + 1}
    BY <2>1, FS_AddElement
  <2>d. IsFiniteSet(more \cup {temp}) /\ Cardinality(more \cup {temp}) <= n + 1
    BY <1>1, <2>1, <2>c
  <2>2. /\ IsFiniteSet((opened \cup {file}) \cup {temp})
        /\ Cardinality((opened \cup {file}) \cup {temp}) <= n + 1
    BY <2>d DEF more
  <2>3. taken = (opened \cup {file}) \cup {temp}
    OBVIOUS
  <2> QED
    BY <2>2, <2>3
<1>4. Cardinality(Store!Inodes) = n + 2
  <2>1. Store!Cardinality(Writers) = n
    BY DEF Store!Cardinality, Cardinality
  <2>2. Store!Inodes = 0 .. n + 1
    BY <2>1 DEF Store!Inodes
  <2> HIDE DEF n
  <2> QED
    BY <1>1, <2>2, FS_Interval
<1>5. \E i \in Store!Inodes : i \notin taken
  <2>1. SUFFICES ASSUME Store!Inodes \subseteq taken PROVE FALSE
    OBVIOUS
  <2> HIDE DEF taken, n
  <2>2. Cardinality(Store!Inodes) <= Cardinality(taken)
    BY <1>3, <2>1, FS_Subset
  <2>3. Cardinality(taken) \in Nat
    BY <1>3, FS_CardinalityType
  <2> QED
    BY <1>1, <1>3, <1>4, <2>2, <2>3
<1>6. \A i \in Store!Inodes : i \notin taken => ~Store!InUse(i)
  <2>1. Nobody \notin Store!Inodes
    BY StoreConstants
  <2> QED
    BY <2>1 DEF Store!InUse
<1>7. \E i \in Store!Inodes : ~Store!InUse(i)
  BY <1>5, <1>6
<1> QED
  BY <1>7 DEF Store!Free

\* An entry that is added and what is kept of the rest.
LEMMA TrimTyped ==
  ASSUME NEW s \in Seq(Store!Entries), NEW x \in Store!Entries
  PROVE  /\ Store!Trim(Append(s, x)) \in Seq(Store!Entries)
         /\ Store!Last(Store!Trim(Append(s, x))) = x
<1> DEFINE a == Append(s, x)
           t == SubSeq(a, Len(a) - Limit + 1, Len(a))
<1>1. a \in Seq(Store!Entries) /\ s \in Seq(Nat) /\ x \in Nat /\ a \in Seq(Nat) /\ Len(a) \in Nat
  BY StoreBounds
<1>2. Store!Last(Store!Trim(a)) = x
  BY <1>1, LastOfTrim
<1> HIDE DEF a
<1>3. ASSUME Limit > 0, Len(a) > Limit PROVE Store!Trim(a) \in Seq(Store!Entries)
  <2>1. /\ t \in Seq(Nat) /\ Len(t) = Limit
        /\ \A i \in 1 .. Limit : t[i] = a[Len(a) - Limit + i]
    BY <1>1, <1>3, LastOnes, StoreConstants
  <2>2. \A i \in 1 .. Limit : Len(a) - Limit + i \in 1 .. Len(a)
    BY <1>1, <1>3, StoreConstants
  <2> HIDE DEF t
  <2>a. \A j \in 1 .. Len(a) : a[j] \in Store!Entries
    BY <1>1
  <2>3. \A i \in 1 .. Len(t) : t[i] \in Store!Entries
    BY <2>1, <2>2, <2>a
  <2>4. t \in Seq(Store!Entries)
    <3>1. t \in [1 .. Len(t) -> Store!Entries] /\ Len(t) \in Nat
      BY <2>1, <2>3
    <3> QED
      BY <3>1, SeqDef
  <2>5. Store!Trim(a) \in {t, a}
    BY DEF Store!Trim, t
  <2> QED
    BY <1>1, <2>4, <2>5
<1>4. ASSUME ~(Limit > 0 /\ Len(a) > Limit) PROVE Store!Trim(a) \in Seq(Store!Entries)
  <2>1. Store!Trim(a) = a
    BY <1>4 DEF Store!Trim
  <2> QED
    BY <1>1, <2>1
<1>5. Store!Trim(a) \in Seq(Store!Entries)
  BY <1>3, <1>4
<1> QED
  BY <1>2, <1>5 DEF a

LEMMA ContentsTyped ==
  ASSUME AnyTyped, NEW i \in Store!Inodes \cup {Nobody}
  PROVE  Store!Contents(i) \in Documents
  BY StoreBounds DEF Store!Contents, AnyTyped

LEMMA AnyStart == Store!Init => StoreRest
<1> SUFFICES ASSUME Store!Init PROVE StoreRest
  OBVIOUS
<1>1. file \in Store!Inodes \cup {Nobody} /\ temp = Nobody
  BY StoreConstants DEF Store!Init
<1>2. data \in [Store!Inodes -> Documents] /\ seen \in [Writers -> Documents]
  BY StoreBounds DEF Store!Init
<1>3. AnyTyped
  <2>1. kept \in Seq(1 .. MaxSaves) /\ 0 \in 0 .. MaxSaves /\ 0 \in 0 .. MaxCrashes
    BY StoreBounds DEF Store!Init
  <2> QED
    BY <1>1, <1>2, <2>1 DEF Store!Init, AnyTyped
<1>4. HasOpened
  BY DEF Store!Init, HasOpened
<1>5. HasEntry
  BY DEF Store!Init, HasEntry, Store!Empty
<1> QED
  BY <1>3, <1>4, <1>5 DEF StoreRest

LEMMA AnyBegin ==
  ASSUME StoreRest, NEW w \in Writers, Store!Begin(w)
  PROVE  StoreRest'
<1>a. /\ at[w] = "idle" /\ at' = [at EXCEPT ![w] = "load"] /\ lock' \in {w, lock}
      /\ UNCHANGED <<kind, file, temp, data, job, fd, seen, saves, crashes, kept>>
  BY DEF Store!Begin, Store!GoTo
<1>1. AnyTyped'
  BY <1>a DEF StoreRest, AnyTyped
<1>2. HasOpened'
  BY <1>a DEF StoreRest, AnyTyped, HasOpened
<1>3. HasEntry'
  BY <1>a DEF StoreRest, AnyTyped, HasEntry
<1> QED
  BY <1>1, <1>2, <1>3 DEF StoreRest

LEMMA AnyLoad ==
  ASSUME StoreRest, NEW w \in Writers, Store!Load(w)
  PROVE  StoreRest'
<1> DEFINE found == IF Store!Whole(file) THEN Store!Contents(file) ELSE Store!Empty
           old == kind = "memory" /\ ~found.migrated
           entry == IF old THEN Store!Legacy ELSE saves + 1
           entries == Store!Trim(Append(found.entries, entry))
<1>a. /\ at[w] = "load" /\ saves < MaxSaves /\ saves' = saves + 1
      /\ job' = [job EXCEPT ![w] = IF old THEN "migrate" ELSE "append"]
      /\ seen' = [seen EXCEPT ![w] =
           [text |-> "whole", by |-> Nobody, migrated |-> found.migrated, entries |-> entries]]
      /\ at' = [at EXCEPT ![w] = IF kind = "memory" THEN "reread" ELSE "open"]
      /\ UNCHANGED <<kind, file, temp, data, lock, fd, crashes, kept>>
  BY DEF Store!Load, Store!GoTo
<1>b. found \in Documents
  BY StoreBounds, ContentsTyped DEF StoreRest, AnyTyped
<1>c. /\ found.entries \in Seq(Store!Entries) /\ found.migrated \in BOOLEAN
      /\ entry \in Store!Entries /\ saves + 1 \in 1 .. MaxSaves
  <2> HIDE DEF found
  <2>1. saves + 1 \in 1 .. MaxSaves /\ 0 \in 0 .. MaxSaves /\ saves + 1 \in 0 .. MaxSaves
    BY <1>a, StoreBounds DEF StoreRest, AnyTyped
  <2>2. entry \in {Store!Legacy, saves + 1} /\ Store!Legacy = 0
    BY DEF Store!Legacy
  <2>3. entry \in Store!Entries
    BY <2>1, <2>2, StoreBounds
  <2>4. found.entries \in Seq(Store!Entries) /\ found.migrated \in BOOLEAN
    BY <1>b DEF Documents
  <2> QED
    BY <2>1, <2>3, <2>4
<1> HIDE DEF found, entry
<1>d. entries \in Seq(Store!Entries) /\ Store!Last(entries) = entry
  BY <1>c, TrimTyped
<1> HIDE DEF entries
<1>e. [text |-> "whole", by |-> Nobody, migrated |-> found.migrated, entries |-> entries] \in Documents
  BY <1>c, <1>d DEF Documents
<1>1. AnyTyped'
  <2>1. saves' \in 0 .. MaxSaves
    BY <1>a, <1>c
  <2>2. seen' \in [Writers -> Documents]
    BY <1>a, <1>e DEF StoreRest, AnyTyped
  <2>3. job' \in [Writers -> {"append", "migrate", "mark"}]
    BY <1>a DEF StoreRest, AnyTyped
  <2> QED
    BY <1>a, <2>1, <2>2, <2>3 DEF StoreRest, AnyTyped
<1>2. HasOpened'
  BY <1>a DEF StoreRest, AnyTyped, HasOpened
<1>3. HasEntry'
  <2>1. seen'[w].text = "whole" /\ seen'[w].entries = entries
    BY <1>a DEF StoreRest, AnyTyped
  <2>2. job'[w] = "append" => ~old
    BY <1>a DEF StoreRest, AnyTyped
  <2>3. ~old => entry = saves + 1
    BY DEF entry
  <2>4. job'[w] = "append" => Store!Last(seen'[w].entries) \in 1 .. MaxSaves
    BY <1>c, <1>d, <2>1, <2>2, <2>3
  <2>5. \A v \in Writers \ {w} : at'[v] = at[v] /\ job'[v] = job[v] /\ seen'[v] = seen[v]
    BY <1>a DEF StoreRest, AnyTyped
  <2> QED
    BY <2>1, <2>4, <2>5 DEF StoreRest, HasEntry
<1> QED
  BY <1>1, <1>2, <1>3 DEF StoreRest

LEMMA AnyReread ==
  ASSUME StoreRest, NEW w \in Writers, Store!Reread(w)
  PROVE  StoreRest'
<1>a. /\ at[w] = "reread" /\ Store!Whole(file) /\ at' = [at EXCEPT ![w] = "open"]
      /\ seen' = [seen EXCEPT ![w] =
           IF job[w] = "mark" THEN [Store!Contents(file) EXCEPT !.migrated = TRUE]
           ELSE [seen[w] EXCEPT !.migrated = Store!Contents(file).migrated]]
      /\ UNCHANGED <<kind, file, temp, data, lock, job, fd, saves, crashes, kept>>
  BY DEF Store!Reread, Store!GoTo
<1>b. /\ Store!Contents(file) \in Documents /\ Store!Contents(file).text = "whole"
      /\ seen[w] \in Documents /\ seen[w].text = "whole"
  <2>1. Store!Contents(file).text = "whole"
    BY <1>a DEF Store!Whole, Store!Contents, Store!Empty
  <2> QED
    BY <2>1, ContentsTyped DEF StoreRest, AnyTyped, HasEntry
<1>c. seen'[w] = IF job[w] = "mark" THEN [Store!Contents(file) EXCEPT !.migrated = TRUE]
                 ELSE [seen[w] EXCEPT !.migrated = Store!Contents(file).migrated]
  BY <1>a DEF StoreRest, AnyTyped
<1>d. seen'[w] \in Documents /\ seen'[w].text = "whole"
      /\ (job[w] # "mark" => seen'[w].entries = seen[w].entries)
  BY <1>b, <1>c DEF Documents
<1>e. \A v \in Writers \ {w} : at'[v] = at[v] /\ seen'[v] = seen[v]
  BY <1>a DEF StoreRest, AnyTyped
<1>1. AnyTyped'
  <2>1. seen' \in [Writers -> Documents]
    BY <1>a, <1>d, <1>e DEF StoreRest, AnyTyped
  <2> QED
    BY <1>a, <2>1 DEF StoreRest, AnyTyped
<1>2. HasOpened'
  BY <1>a DEF StoreRest, AnyTyped, HasOpened
<1>3. HasEntry'
  BY <1>a, <1>d, <1>e DEF StoreRest, HasEntry
<1> QED
  BY <1>1, <1>2, <1>3 DEF StoreRest

LEMMA AnyCannotParse ==
  ASSUME StoreRest, NEW w \in Writers, Store!CannotParse(w)
  PROVE  StoreRest'
<1>a. /\ at[w] \in {"load", "reread"} /\ at' = [at EXCEPT ![w] = "idle"]
      /\ lock' \in {Nobody, lock}
      /\ UNCHANGED <<kind, file, temp, data, job, fd, seen, saves, crashes, kept>>
  BY DEF Store!CannotParse, Store!GoTo
<1>1. AnyTyped'
  BY <1>a DEF StoreRest, AnyTyped
<1>2. HasOpened'
  BY <1>a DEF StoreRest, AnyTyped, HasOpened
<1>3. HasEntry'
  BY <1>a DEF StoreRest, AnyTyped, HasEntry
<1> QED
  BY <1>1, <1>2, <1>3 DEF StoreRest

LEMMA AnyOpen ==
  ASSUME StoreRest, NEW w \in Writers, Store!Open(w)
  PROVE  StoreRest'
<1>1. at[w] = "open" /\ Store!Free \in Store!Inodes
  BY OneIsFree DEF Store!Open, StoreRest, HasOpened
<1>a. PICK i \in Store!Inodes :
        /\ fd' = [fd EXCEPT ![w] = i] /\ data' = [data EXCEPT ![i] = Store!Torn]
        /\ temp' \in {i, temp} /\ at' = [at EXCEPT ![w] = "write"]
        /\ UNCHANGED <<kind, file, lock, job, seen, saves, crashes, kept>>
  BY <1>1 DEF Store!Open, Store!GoTo, StoreRest, AnyTyped
<1>2. AnyTyped'
  BY <1>a, StoreBounds DEF StoreRest, AnyTyped
<1>3. HasOpened'
  BY <1>a DEF StoreRest, AnyTyped, HasOpened
<1>4. HasEntry'
  BY <1>1, <1>a DEF StoreRest, AnyTyped, HasEntry
<1> QED
  BY <1>2, <1>3, <1>4 DEF StoreRest

LEMMA AnyWrite ==
  ASSUME StoreRest, NEW w \in Writers, Store!WriteHalf(w) \/ Store!WriteRest(w)
  PROVE  StoreRest'
<1>a. PICK d \in Documents, s \in {"finish", "rename"} :
        /\ at[w] \in {"write", "finish"} /\ at' = [at EXCEPT ![w] = s]
        /\ data' = [data EXCEPT ![fd[w]] = d]
        /\ UNCHANGED <<kind, file, temp, lock, job, fd, seen, saves, crashes, kept>>
  <2>1. CASE Store!WriteHalf(w)
    BY <2>1, StoreBounds DEF Store!WriteHalf, Store!GoTo
  <2>2. CASE Store!WriteRest(w)
    <3>1. seen[w] \in Documents
      BY DEF StoreRest, AnyTyped
    <3>2. \E d \in {seen[w], Store!Torn} : data' = [data EXCEPT ![fd[w]] = d]
      <4>1. fd[w] \in Store!Inodes
        BY <2>2 DEF Store!WriteRest, StoreRest, HasOpened
      <4> QED
        BY <2>2, <4>1 DEF Store!WriteRest, StoreRest, AnyTyped
    <3> QED
      BY <2>2, <3>1, <3>2, StoreBounds DEF Store!WriteRest, Store!GoTo
  <2> QED
    BY <2>1, <2>2
<1>1. AnyTyped'
  BY <1>a DEF StoreRest, AnyTyped
<1>2. HasOpened'
  BY <1>a DEF StoreRest, AnyTyped, HasOpened
<1>3. HasEntry'
  BY <1>a DEF StoreRest, AnyTyped, HasEntry
<1> QED
  BY <1>1, <1>2, <1>3 DEF StoreRest

LEMMA FreedTyped ==
  ASSUME AnyTyped, Store!OthersFreed
  PROVE  data' \in [Store!Inodes -> Documents]
  BY StoreBounds DEF Store!OthersFreed, AnyTyped

LEMMA AnyRename ==
  ASSUME StoreRest, NEW w \in Writers, Store!Rename(w)
  PROVE  StoreRest'
<1>a. /\ at[w] = "rename" /\ file' \in {file, temp, fd[w]} /\ temp' \in {Nobody, temp}
      /\ kept' \in {kept, Append(kept, Store!Last(seen[w].entries))}
      /\ job[w] # "append" => kept' = kept
      /\ \E t \in {"idle", "reread", "load"} :
            at' = [at EXCEPT ![w] = t] /\ (t = "reread" => job[w] = "migrate")
      /\ job' = [job EXCEPT ![w] = IF job[w] = "migrate" THEN "mark" ELSE "append"]
      /\ fd' = [fd EXCEPT ![w] = Nobody]
      /\ seen' = [seen EXCEPT ![w] = Store!Empty]
      /\ lock' \in {Nobody, lock}
      /\ UNCHANGED <<kind, saves, crashes>>
  <2>1. /\ at[w] = "rename" /\ file' \in {file, temp, fd[w]} /\ temp' \in {Nobody, temp}
        /\ job[w] # "append" => kept' = kept
        /\ fd' = [fd EXCEPT ![w] = Nobody]
        /\ seen' = [seen EXCEPT ![w] = Store!Empty]
        /\ lock' \in {Nobody, lock}
        /\ UNCHANGED <<kind, saves, crashes>>
    BY DEF Store!Rename
  <2>2. kept' \in {kept, Append(kept, Store!Last(seen[w].entries))}
    BY DEF Store!Rename
  <2>3. job' = [job EXCEPT ![w] = IF job[w] = "migrate" THEN "mark" ELSE "append"]
    BY DEF Store!Rename, StoreRest, AnyTyped
  <2>4. CASE at' = [at EXCEPT ![w] = "idle"]
    BY <2>1, <2>2, <2>3, <2>4
  <2>5. CASE at' = [at EXCEPT ![w] = "reread"] /\ job[w] = "migrate"
    BY <2>1, <2>2, <2>3, <2>5
  <2>6. CASE at' = [at EXCEPT ![w] = "load"]
    BY <2>1, <2>2, <2>3, <2>6
  <2>7. job[w] \in {"append", "migrate", "mark"}
    BY DEF StoreRest, AnyTyped
  <2>8. \/ at' = [at EXCEPT ![w] = "idle"]
        \/ at' = [at EXCEPT ![w] = "reread"] /\ job[w] = "migrate"
        \/ at' = [at EXCEPT ![w] = "load"]
    <3> DEFINE source == IF Store!SharesTemp THEN temp ELSE fd[w]
    <3>1. at' = [at EXCEPT ![w] = IF source = Nobody \/ job[w] = "append" THEN "idle"
                                  ELSE IF job[w] = "migrate" THEN "reread" ELSE "load"]
      BY DEF Store!Rename, Store!GoTo
    <3> HIDE DEF source
    <3> QED
      BY <2>7, <3>1
  <2> QED
    BY <2>4, <2>5, <2>6, <2>8
<1>b. data' \in [Store!Inodes -> Documents]
  BY FreedTyped DEF Store!Rename, StoreRest
<1>c. kept' \in Seq(1 .. MaxSaves)
  <2>1. job[w] = "append" => Store!Last(seen[w].entries) \in 1 .. MaxSaves
    BY <1>a DEF StoreRest, HasEntry
  <2>2. kept \in Seq(1 .. MaxSaves)
    BY DEF StoreRest, AnyTyped
  <2>3. CASE kept' = kept
    BY <2>2, <2>3
  <2>4. CASE kept' # kept
    <3>1. kept' = Append(kept, Store!Last(seen[w].entries)) /\ job[w] = "append"
      BY <1>a, <2>4
    <3> HIDE DEF Store!Last
    <3> QED
      BY <2>1, <2>2, <3>1
  <2> QED
    BY <2>3, <2>4
<1>d. job' \in [Writers -> {"append", "migrate", "mark"}]
  BY <1>a DEF StoreRest, AnyTyped
<1>1. AnyTyped'
  BY <1>a, <1>b, <1>c, <1>d, StoreBounds DEF StoreRest, AnyTyped
<1>2. HasOpened'
  BY <1>a DEF StoreRest, AnyTyped, HasOpened
<1>3. HasEntry'
  BY <1>a DEF StoreRest, AnyTyped, HasEntry, Store!Empty
<1> QED
  BY <1>1, <1>2, <1>3 DEF StoreRest

LEMMA AnyCrash ==
  ASSUME StoreRest, NEW w \in Writers, Store!Crash(w)
  PROVE  StoreRest'
<1>a. /\ crashes < MaxCrashes /\ crashes' = crashes + 1 /\ lock' \in {Nobody, lock}
      /\ at' = [at EXCEPT ![w] = "idle"] /\ job' = [job EXCEPT ![w] = "append"]
      /\ fd' = [fd EXCEPT ![w] = Nobody] /\ seen' = [seen EXCEPT ![w] = Store!Empty]
      /\ UNCHANGED <<kind, file, temp, saves, kept>>
  BY DEF Store!Crash, Store!GoTo
<1>b. data' \in [Store!Inodes -> Documents]
  BY FreedTyped DEF Store!Crash, StoreRest
<1>1. AnyTyped'
  BY <1>a, <1>b, StoreBounds DEF StoreRest, AnyTyped
<1>2. HasOpened'
  BY <1>a DEF StoreRest, AnyTyped, HasOpened
<1>3. HasEntry'
  BY <1>a DEF StoreRest, AnyTyped, HasEntry, Store!Empty
<1> QED
  BY <1>1, <1>2, <1>3 DEF StoreRest

LEMMA AnySteps == StoreRest /\ [Store!Next]_(Store!vars) => StoreRest'
<1>1. StoreRest /\ UNCHANGED Store!vars => StoreRest'
  BY DEF Store!vars, StoreRest, AnyTyped, HasOpened, HasEntry
<1> QED
  BY <1>1, AnyBegin, AnyLoad, AnyReread, AnyCannotParse, AnyOpen, AnyWrite, AnyRename, AnyCrash
     DEF Store!Next

LEMMA StoreTypes == StoreRest => Store!TypeOK
<1> SUFFICES ASSUME StoreRest PROVE Store!TypeOK
  OBVIOUS
<1>1. \A S : \A s \in Seq(S) : Store!ToSet(s) \subseteq S
  BY DEF Store!ToSet
<1>2. \A d \in Documents : d.by \in Writers \cup {Nobody} /\ Store!ToSet(d.entries) \subseteq Store!Entries
  BY <1>1 DEF Documents
<1> QED
  BY <1>1, <1>2 DEF Store!TypeOK, StoreRest, AnyTyped, HasEntry

\* The invariant of all parts, besides their own.
RestInv ==
  /\ part \in {"gateway", "store", "alexa", "voice"}
  /\ part = "gateway" => GatewayRest
  /\ part = "store" => StoreRest
  /\ part = "alexa" => AlexaRest
  /\ part = "voice" => VoiceRest

LEMMA RestInvariant == Spec => []RestInv
<1>1. Init => RestInv
  BY GatewayRestStart, AnyStart, AlexaRestStart, VoiceRestStart DEF Init, RestInv
<1>2. RestInv /\ GatewayInv /\ [Next]_vars => RestInv'
  <2> SUFFICES ASSUME RestInv, GatewayInv, [Next]_vars PROVE RestInv'
    OBVIOUS
  <2>1. CASE part = "gateway"
    <3>1. [Gateway!Next]_(Gateway!vars)
      BY <2>1 DEF Next, InGateway, InStore, InAlexa, InVoice, vars, gatewayOnly, Gateway!vars
    <3> QED
      BY <2>1, <3>1, PartIsKept, GatewayRestSteps DEF RestInv, GatewayInv
  <2>2. CASE part = "store"
    <3>1. [Store!Next]_(Store!vars)
      BY <2>2 DEF Next, InGateway, InStore, InAlexa, InVoice, vars, storeOnly, Store!vars
    <3> QED
      BY <2>2, <3>1, PartIsKept, AnySteps DEF RestInv
  <2>3. CASE part = "alexa"
    <3>1. [Alexa!Next]_(Alexa!vars)
      BY <2>3 DEF Next, InGateway, InStore, InAlexa, InVoice, vars, alexaOnly, Alexa!vars
    <3> QED
      BY <2>3, <3>1, PartIsKept, AlexaRestSteps DEF RestInv
  <2>4. CASE part = "voice"
    <3>1. [Spoken!Next]_(Spoken!vars)
      BY <2>4 DEF Next, InGateway, InStore, InAlexa, InVoice, vars, voiceOnly, Spoken!vars,
         Spoken!turn, Spoken!sound, Spoken!core
    <3> QED
      BY <2>4, <3>1, PartIsKept, VoiceRestSteps DEF RestInv
  <2> QED
    BY <2>1, <2>2, <2>3, <2>4 DEF RestInv
<1> QED
  BY <1>1, <1>2, GatewayInvariant, PTL DEF Spec

\* Every variable of the bridge, the stores, the Alexa daemon and the voice keeps its type
\* and its bound, for any calls, tokens, writers, posts and callers.
THEOREM TypeCorrect == Spec => []TypeOK
<1>1. RestInv /\ GatewayInv /\ AlexaInv /\ VoiceInv => TypeOK
  BY GatewayTypes, StoreTypes, AlexaTypes, VoiceTypes
     DEF RestInv, GatewayInv, AlexaInv, VoiceInv, TypeOK
<1> QED
  BY <1>1, RestInvariant, GatewayInvariant, AlexaInvariant, VoiceInvariant, PTL
=============================================================================
