------------------------ MODULE TelegramDaemonProofs ------------------------
(* Theorems of TelegramDaemon, for any daemons, timeouts and bounds.  The     *)
(* argument is about what each offset says: below the server's and the saved  *)
(* one everything is finished, below the one in memory everything but the     *)
(* update at hand.  At and above the offset in memory nothing was begun since *)
(* the last crash.                                                            *)
EXTENDS TelegramDaemon, SequenceTheorems, TLAPS

AtWork == {"running", "replying", "saving"}

\* The lock is with the daemon that is up, and a daemon holds an update, or a
\* batch, only where its code has one.
Alone == \A d \in Daemons : pc[d] # "down" <=> lock = d
AtHand ==
    \A d \in Daemons :
        /\ current[d] # NoUpdate <=> pc[d] \in AtWork
        /\ batch[d] # {} => pc[d] \in AtWork \cup {"working"}
        /\ pc[d] = "down" => offset[d] = 0 /\ history[d] = <<>>

\* What the offsets and the batch say of the updates.
Below ==
    /\ \A u \in Updates : u < kept => u \in finished
    /\ \A u \in Updates : u < disk => u \in finished
    /\ \A d \in Daemons, u \in Updates : u < offset[d] => u \in finished \/ u = current[d]
InOrder ==
    \A d \in Daemons :
        /\ \A b \in batch[d] : offset[d] <= b
        /\ \A b \in batch[d], u \in Updates :
               u < b => u \in batch[d] \/ u \in finished \/ u = current[d]

\* At and above the offset in memory, only earlier lives began anything.
Fresh ==
    \A u \in Updates :
        /\ started[u] <= 1 + crashes
        /\ (\A d \in Daemons : pc[d] # "down" => offset[d] <= u) => started[u] <= crashes

\* Every turn of the conversation was answered, but for the one the agent runs.
AnsweredBy(d) ==
    /\ pc[d] = "running" => history[d] # <<>>
    /\ pc[d] = "running" => history[d][Len(history[d])] = current[d]
    /\ pc[d] # "running" => Len(history[d]) <= MaxTurns
    /\ \A i \in 1 .. Len(history[d]) :
           \/ pc[d] = "running" /\ i = Len(history[d])
           \/ history[d][i] \in answered
Answered == \A d \in Daemons : AnsweredBy(d)

TelegramInv == TypeOK /\ Alone /\ AtHand /\ Below /\ InOrder /\ Fresh /\ Answered

-----------------------------------------------------------------------------

\* What the conversation is after one more turn, one less, or the oldest dropped.
LEMMA AppendFacts ==
  ASSUME NEW S, NEW h \in Seq(S), NEW u \in S
  PROVE  /\ Append(h, u) \in Seq(S)
         /\ Append(h, u) # <<>>
         /\ Len(Append(h, u)) = Len(h) + 1
         /\ Append(h, u)[Len(h) + 1] = u
         /\ \A i \in 1 .. Len(h) : Append(h, u)[i] = h[i]
  OBVIOUS

LEMMA TailFacts ==
  ASSUME NEW S, NEW h \in Seq(S), h # <<>>
  PROVE  /\ Tail(h) \in Seq(S)
         /\ Len(Tail(h)) = Len(h) - 1
         /\ \A i \in 1 .. Len(h) - 1 : Tail(h)[i] = h[i + 1]
  OBVIOUS

LEMMA FrontFacts ==
  ASSUME NEW S, NEW h \in Seq(S), h # <<>>
  PROVE  /\ Front(h) \in Seq(S)
         /\ Len(Front(h)) = Len(h) - 1
         /\ \A i \in 1 .. Len(h) - 1 : Front(h)[i] = h[i]
<1>1. Len(h) \in Nat \ {0} /\ \A i \in 1 .. Len(h) - 1 : h[i] \in S
  OBVIOUS
<1>2. /\ SubSeq(h, 1, Len(h) - 1) \in Seq(S)
      /\ Len(SubSeq(h, 1, Len(h) - 1)) = IF 1 <= Len(h) - 1 THEN Len(h) - 1 - 1 + 1 ELSE 0
      /\ \A i \in 1 .. Len(h) - 1 - 1 + 1 : SubSeq(h, 1, Len(h) - 1)[i] = h[1 + i - 1]
  BY <1>1, SubSeqProperties
<1>3. Front(h) = SubSeq(h, 1, Len(h) - 1)
  BY DEF Front
<1> DEFINE n == Len(h) - 1
<1>4. n \in Nat /\ n - 1 + 1 = n /\ \A i \in 1 .. n : 1 + i - 1 = i
  BY <1>1
<1> HIDE DEF n
<1>5. Len(Front(h)) = n
  BY <1>2, <1>3, <1>4 DEF n
<1>6. \A i \in 1 .. n : Front(h)[i] = h[i]
  <2>1. \A i \in 1 .. n : Front(h)[i] = h[1 + i - 1]
    BY <1>2, <1>3, <1>4 DEF n
  <2> QED
    BY <1>4, <2>1
<1> QED
  BY <1>2, <1>3, <1>5, <1>6 DEF n

LEMMA LenIsNat ==
  ASSUME NEW S, NEW h \in Seq(S)
  PROVE  Len(h) \in Nat
  OBVIOUS

\* A conversation that is bounded and was answered stays so with one turn changed.
LEMMA HistoryStep ==
  ASSUME TypeOK, NEW d \in Daemons, NEW h \in Seq(Updates), Len(h) <= MaxTurns + 1,
         history' = [history EXCEPT ![d] = h]
  PROVE  /\ history' \in [Daemons -> Seq(Updates)]
         /\ \A e \in Daemons : Len(history'[e]) <= MaxTurns + 1
         /\ history'[d] = h
         /\ \A e \in Daemons : e # d => history'[e] = history[e]
<1>1. /\ history' \in [Daemons -> Seq(Updates)]
      /\ history'[d] = h
      /\ \A e \in Daemons : e # d => history'[e] = history[e]
  BY DEF TypeOK
<1>2. \A e \in Daemons : Len(history[e]) <= MaxTurns + 1
  BY DEF TypeOK
<1> QED
  BY <1>1, <1>2

\* Answered is kept by a step of one daemon that keeps it for that daemon.
LEMMA AnsweredStep ==
  ASSUME Answered, NEW d \in Daemons, AnsweredBy(d)', answered \subseteq answered',
         \A e \in Daemons :
             e # d => pc'[e] = pc[e] /\ history'[e] = history[e] /\ current'[e] = current[e]
  PROVE  Answered'
<1>1. ASSUME NEW e \in Daemons, e # d
      PROVE  AnsweredBy(e)'
  <2>1. pc'[e] = pc[e] /\ history'[e] = history[e] /\ current'[e] = current[e] /\ AnsweredBy(e)
    BY <1>1 DEF Answered
  <2> QED
    BY <2>1 DEF AnsweredBy
<1> QED
  BY <1>1 DEF Answered

LEMMA TelegramInit == Init => TelegramInv
  BY TelegramAssumption
     DEF Init, TelegramInv, TypeOK, Alone, AtHand, Below, InOrder, Fresh, Answered, AnsweredBy, AtWork,
         Updates, Offsets, Kinds, States, NoUpdate, Nobody

\* The invariant is kept by the start, the poll and the end of a daemon.
LEMMA PollStep ==
  ASSUME TelegramInv, NEW d \in Daemons,
         \/ Start(d) \/ Request(d) \/ Answer(d) \/ IdlePoll(d) \/ PollFails(d)
         \/ Retry(d) \/ Crash(d)
  PROVE  TelegramInv'
<1> USE TelegramAssumption DEF TelegramInv, Goto, server, memory, record, Updates, NoUpdate, AtWork
<1>1. CASE Start(d)
  <2>1. TypeOK'
    BY <1>1 DEF Start, TypeOK, States, Offsets
  <2>2. Alone' /\ AtHand'
    BY <1>1 DEF Start, TypeOK, Alone, AtHand
  <2>3. Below'
    BY <1>1 DEF Start, TypeOK, Below, AtHand, InOrder
  <2>4. InOrder'
    BY <1>1 DEF Start, TypeOK, InOrder, AtHand, Below
  <2>5. Fresh'
    BY <1>1 DEF Start, TypeOK, Fresh, Alone, InOrder
  <2>6. Answered'
    BY <1>1 DEF Start, TypeOK, Answered, AnsweredBy, AtHand
  <2> QED
    BY <2>1, <2>2, <2>3, <2>4, <2>5, <2>6
<1>2. CASE Request(d)
  <2>1. TypeOK'
    BY <1>2 DEF Request, Receipt, TypeOK, States, Offsets
  <2>2. Alone' /\ AtHand'
    BY <1>2 DEF Request, Receipt, TypeOK, Alone, AtHand
  <2>3. Below'
    <3>0. offset[d] \in Nat /\ kept \in Nat
      BY DEF TypeOK, Offsets
    <3>1. offset[d] \in Nat /\ kept \in Nat /\ current[d] = 0
      BY <1>2, <3>0 DEF Request, AtHand
    <3>2. ASSUME NEW u \in Updates, u < kept'
          PROVE  u \in finished
      <4>1. CASE offset[d] > kept
        <5>1. kept' = offset[d]
          BY <1>2, <4>1 DEF Request, Receipt
        <5> QED
          BY <3>1, <3>2, <5>1 DEF Below
      <4>2. CASE ~(offset[d] > kept)
        <5>1. kept' = kept
          BY <1>2, <4>2 DEF Request, Receipt
        <5> QED
          BY <3>2, <5>1 DEF Below
      <4> QED
        BY <4>1, <4>2
    <3> QED
      BY <1>2, <3>2 DEF Request, Below
  <2>4. InOrder'
    BY <1>2 DEF Request, Receipt, TypeOK, InOrder, AtHand, Below
  <2>5. Fresh'
    BY <1>2 DEF Request, Receipt, TypeOK, Fresh, Alone, InOrder
  <2>6. Answered'
    BY <1>2 DEF Request, Receipt, TypeOK, Answered, AnsweredBy, AtHand
  <2> QED
    BY <2>1, <2>2, <2>3, <2>4, <2>5, <2>6
<1>3. CASE Answer(d)
  <2>1. TypeOK'
    BY <1>3 DEF Answer, Waiting, TypeOK, States, Offsets
  <2>2. Alone' /\ AtHand'
    BY <1>3 DEF Answer, Waiting, TypeOK, Alone, AtHand
  <2>3. Below'
    BY <1>3 DEF Answer, Waiting, TypeOK, Below, AtHand, InOrder
  <2>4. InOrder'
    <3>1. \A u \in Waiting(d) : u \in Updates /\ kept <= u /\ offset[d] <= u /\ u <= arrived
      BY DEF Waiting
    <3>2. kept \in Nat /\ arrived \in Nat /\ offset[d] \in Nat
      BY DEF TypeOK, Offsets
    <3>3. ASSUME NEW b \in Waiting(d), NEW u \in Updates, u < b
          PROVE  u \in Waiting(d) \/ u \in finished \/ u = current[d]
      <4>1. CASE kept <= u /\ offset[d] <= u
        BY <3>1, <3>2, <3>3, <4>1 DEF Waiting
      <4>2. CASE u < kept \/ u < offset[d]
        BY <4>2 DEF Below
      <4> QED
        BY <3>2, <4>1, <4>2
    <3>4. /\ batch' = [batch EXCEPT ![d] = Waiting(d)]
          /\ UNCHANGED <<offset, current, finished>>
      BY <1>3 DEF Answer
    <3> QED
      BY <3>1, <3>3, <3>4 DEF TypeOK, InOrder
  <2>5. Fresh'
    BY <1>3 DEF Answer, Waiting, TypeOK, Fresh, Alone, InOrder
  <2>6. Answered'
    BY <1>3 DEF Answer, Waiting, TypeOK, Answered, AnsweredBy, AtHand
  <2> QED
    BY <2>1, <2>2, <2>3, <2>4, <2>5, <2>6
<1>4. CASE IdlePoll(d)
  <2>1. TypeOK'
    BY <1>4 DEF IdlePoll, TypeOK, States, Offsets
  <2>2. Alone' /\ AtHand'
    BY <1>4 DEF IdlePoll, TypeOK, Alone, AtHand
  <2>3. Below'
    BY <1>4 DEF IdlePoll, TypeOK, Below, AtHand, InOrder
  <2>4. InOrder'
    BY <1>4 DEF IdlePoll, TypeOK, InOrder, AtHand, Below
  <2>5. Fresh'
    BY <1>4 DEF IdlePoll, TypeOK, Fresh, Alone, InOrder
  <2>6. Answered'
    BY <1>4 DEF IdlePoll, TypeOK, Answered, AnsweredBy, AtHand
  <2> QED
    BY <2>1, <2>2, <2>3, <2>4, <2>5, <2>6
<1>5. CASE PollFails(d)
  <2>1. TypeOK'
    BY <1>5 DEF PollFails, TypeOK, States, Offsets
  <2>2. Alone' /\ AtHand'
    BY <1>5 DEF PollFails, TypeOK, Alone, AtHand
  <2>3. Below'
    BY <1>5 DEF PollFails, TypeOK, Below, AtHand, InOrder
  <2>4. InOrder'
    BY <1>5 DEF PollFails, TypeOK, InOrder, AtHand, Below
  <2>5. Fresh'
    BY <1>5 DEF PollFails, TypeOK, Fresh, Alone, InOrder
  <2>6. Answered'
    BY <1>5 DEF PollFails, TypeOK, Answered, AnsweredBy, AtHand
  <2> QED
    BY <2>1, <2>2, <2>3, <2>4, <2>5, <2>6
<1>6. CASE Retry(d)
  <2>1. TypeOK'
    BY <1>6 DEF Retry, TypeOK, States, Offsets
  <2>2. Alone' /\ AtHand'
    BY <1>6 DEF Retry, TypeOK, Alone, AtHand
  <2>3. Below'
    BY <1>6 DEF Retry, TypeOK, Below, AtHand, InOrder
  <2>4. InOrder'
    BY <1>6 DEF Retry, TypeOK, InOrder, AtHand, Below
  <2>5. Fresh'
    BY <1>6 DEF Retry, TypeOK, Fresh, Alone, InOrder
  <2>6. Answered'
    BY <1>6 DEF Retry, TypeOK, Answered, AnsweredBy, AtHand
  <2> QED
    BY <2>1, <2>2, <2>3, <2>4, <2>5, <2>6
<1>7. CASE Crash(d)
  <2>1. TypeOK'
    <3>1. /\ pc' \in [Daemons -> States] /\ offset' \in [Daemons -> Offsets]
          /\ batch' \in [Daemons -> SUBSET Updates]
          /\ current' \in [Daemons -> Updates \cup {NoUpdate}]
      BY <1>7 DEF Crash, TypeOK, States, Offsets
    <3>2. <<>> \in Seq(Updates) /\ Len(<<>>) <= MaxTurns + 1
      OBVIOUS
    <3>3. /\ history' \in [Daemons -> Seq(Updates)]
          /\ \A e \in Daemons : Len(history'[e]) <= MaxTurns + 1
      BY <1>7, <3>2, HistoryStep DEF Crash
    <3>4. lock' \in Daemons \cup {Nobody} /\ crashes' \in 0 .. MaxCrashes
      BY <1>7 DEF Crash, TypeOK
    <3> QED
      BY <1>7, <3>1, <3>3, <3>4 DEF Crash, TypeOK
  <2>2. Alone' /\ AtHand'
    BY <1>7 DEF Crash, TypeOK, Alone, AtHand
  <2>3. Below'
    BY <1>7 DEF Crash, TypeOK, Below, AtHand, InOrder
  <2>4. InOrder'
    BY <1>7 DEF Crash, TypeOK, InOrder, AtHand, Below
  <2>5. Fresh'
    BY <1>7 DEF Crash, TypeOK, Fresh, Alone, InOrder
  <2>6. Answered'
    BY <1>7 DEF Crash, TypeOK, Answered, AnsweredBy, AtHand
  <2> QED
    BY <2>1, <2>2, <2>3, <2>4, <2>5, <2>6
<1> QED
  BY <1>1, <1>2, <1>3, <1>4, <1>5, <1>6, <1>7

\* The invariant is kept by the handling of one update.
LEMMA HandlingStep ==
  ASSUME TelegramInv, NEW d \in Daemons,
         \/ \E u \in Updates : Take(d, u)
         \/ AgentReturns(d) \/ AgentRaises(d) \/ Reply(d) \/ Save(d)
  PROVE  TelegramInv'
<1> USE TelegramAssumption DEF TelegramInv, Goto, server, memory, record, Updates, NoUpdate, AtWork
<1>1. CASE \E u \in Updates : Take(d, u)
  <2> PICK u \in Updates : Take(d, u)
    BY <1>1
  <2>0. /\ pc[d] = "working" /\ current[d] = 0
        /\ u \in batch[d] /\ offset[d] <= u /\ \A v \in batch[d] : u <= v
        /\ offset' = [offset EXCEPT ![d] = u + 1]
        /\ batch' = [batch EXCEPT ![d] = @ \ {u}]
        /\ current' = [current EXCEPT ![d] = u]
        /\ UNCHANGED <<server, disk, lock, answered, finished, crashes>>
    BY DEF Take, IsFirst, AtHand, InOrder
  <2>s. PICK s \in {"saving", "replying", "running"} :
           /\ pc' = [pc EXCEPT ![d] = s]
           /\ \/ history' = history /\ started' = started /\ s # "running"
              \/ history' = [history EXCEPT ![d] = <<>>] /\ started' = started /\ s # "running"
              \/ /\ history' = [history EXCEPT ![d] = Append(@, u)]
                 /\ started' = [started EXCEPT ![u] = @ + 1]
                 /\ s = "running"
    BY DEF Take, Handle
  <2>h. /\ pc'[d] = s /\ s # "down"
        /\ \A e \in Daemons : e # d => pc'[e] = pc[e]
        /\ \/ started' = started
           \/ started' = [started EXCEPT ![u] = @ + 1]
    BY <2>s DEF TypeOK
  <2>1. TypeOK'
    <3>1. /\ history' \in [Daemons -> Seq(Updates)]
          /\ \A e \in Daemons : Len(history'[e]) <= MaxTurns + 1
      <4>1. CASE history' = history
        BY <4>1 DEF TypeOK
      <4>2. CASE history' = [history EXCEPT ![d] = <<>>]
        <5>1. <<>> \in Seq(Updates) /\ Len(<<>>) <= MaxTurns + 1
          OBVIOUS
        <5> QED
          BY <4>2, <5>1, HistoryStep
      <4>3. CASE history' = [history EXCEPT ![d] = Append(@, u)]
        <5>1. history[d] \in Seq(Updates) /\ Len(history[d]) <= MaxTurns
          BY <2>0 DEF Answered, AnsweredBy, TypeOK
        <5>2. Append(history[d], u) \in Seq(Updates) /\ Len(Append(history[d], u)) <= MaxTurns + 1
          BY <5>1, AppendFacts, LenIsNat
        <5> QED
          BY <4>3, <5>2, HistoryStep
      <4> QED
        BY <2>s, <4>1, <4>2, <4>3
    <3>2. pc' \in [Daemons -> States]
      BY <2>s DEF TypeOK, States
    <3>3. started' \in [Updates -> Nat]
      <4>1. started \in [Updates -> Nat]
        BY DEF TypeOK
      <4> QED
        BY <2>h, <4>1
    <3>4. /\ offset' \in [Daemons -> Offsets]
          /\ batch' \in [Daemons -> SUBSET Updates]
          /\ current' \in [Daemons -> Updates \cup {NoUpdate}]
      <4>1. offset' \in [Daemons -> Offsets]
        BY <2>0 DEF TypeOK, Offsets
      <4>2. batch' \in [Daemons -> SUBSET Updates]
        BY <2>0 DEF TypeOK
      <4>3. current' \in [Daemons -> Updates \cup {NoUpdate}]
        BY <2>0 DEF TypeOK
      <4> QED
        BY <4>1, <4>2, <4>3
    <3> QED
      BY <2>0, <3>1, <3>2, <3>3, <3>4 DEF TypeOK
  <2>2. Alone' /\ AtHand'
    <3>1. Alone'
      BY <2>0, <2>h DEF Alone
    <3>2. ASSUME NEW e \in Daemons, e # d
          PROVE  /\ batch'[e] = batch[e] /\ current'[e] = current[e]
                 /\ offset'[e] = offset[e] /\ history'[e] = history[e]
      BY <2>0, <2>s, <3>2 DEF TypeOK
    <3>3. current'[d] = u /\ s \in AtWork
      BY <2>0 DEF TypeOK
    <3> QED
      BY <2>h, <3>1, <3>2, <3>3 DEF AtHand
  <2>3. Below'
    <3>1. \A v \in Updates : v < u => v \in finished
      <4> SUFFICES ASSUME NEW v \in Updates, v < u
                   PROVE  v \in finished
        OBVIOUS
      <4>1. v \notin batch[d]
        BY <2>0
      <4> QED
        BY <2>0, <4>1 DEF InOrder
    <3> QED
      BY <2>0, <3>1 DEF TypeOK, Below
  <2>4. InOrder'
    <3>1. \A b \in batch[d] : b # u => u + 1 <= b
      BY <2>0 DEF TypeOK
    <3> QED
      BY <2>0, <3>1 DEF TypeOK, InOrder
  <2>5. Fresh'
    <3>1. \A e \in Daemons : pc[e] # "down" => e = d
      BY <2>0 DEF Alone
    <3>2. \A v \in Updates : offset[d] <= v => started[v] <= crashes
      BY <3>1 DEF Fresh
    <3>3. pc'[d] # "down" /\ offset'[d] = u + 1
      BY <2>0, <2>h DEF TypeOK
    <3>4. started[u] <= crashes /\ crashes \in Nat /\ started \in [Updates -> Nat]
      BY <2>0, <3>2 DEF TypeOK
    <3>5. \A v \in Updates : started'[v] <= 1 + crashes
      BY <2>h, <3>4 DEF Fresh
    <3>6. \A v \in Updates : u + 1 <= v => started'[v] <= crashes
      <4> SUFFICES ASSUME NEW v \in Updates, u + 1 <= v
                   PROVE  started'[v] <= crashes
        OBVIOUS
      <4>1. started'[v] = started[v]
        <5>1. v # u
          OBVIOUS
        <5>2. CASE started' = started
          BY <5>2
        <5>3. CASE started' = [started EXCEPT ![u] = @ + 1]
          BY <3>4, <5>1, <5>3
        <5> QED
          BY <2>h, <5>2, <5>3
      <4> QED
        BY <2>0, <3>2, <4>1 DEF TypeOK, Offsets
    <3> QED
      BY <2>0, <3>3, <3>5, <3>6 DEF Fresh
  <2>6. Answered'
    <3>1. ASSUME NEW e \in Daemons, e # d
          PROVE  pc'[e] = pc[e] /\ history'[e] = history[e] /\ current'[e] = current[e]
      BY <2>0, <2>s, <3>1 DEF TypeOK
    <3>2. pc'[d] = s /\ current'[d] = u /\ history[d] \in Seq(Updates) /\ answered' = answered
      BY <2>0, <2>h DEF TypeOK
    <3> SUFFICES AnsweredBy(d)'
      BY <3>1, <3>2, AnsweredStep
    <3>3. /\ Len(history[d]) <= MaxTurns
          /\ \A i \in 1 .. Len(history[d]) : history[d][i] \in answered
      BY <2>0 DEF Answered, AnsweredBy
    <3>4. \/ s # "running" /\ history'[d] = history[d]
          \/ s # "running" /\ history'[d] = <<>>
          \/ s = "running" /\ history'[d] = Append(history[d], u)
      BY <2>s DEF TypeOK
    <3>5. CASE s # "running" /\ history'[d] = history[d]
      BY <3>2, <3>3, <3>5 DEF AnsweredBy
    <3>6. CASE s # "running" /\ history'[d] = <<>>
      <4>1. Len(history'[d]) = 0
        BY <3>6
      <4> QED
        BY <3>2, <3>6, <4>1 DEF AnsweredBy
    <3>7. CASE s = "running" /\ history'[d] = Append(history[d], u)
      <4>1. /\ history'[d] # <<>>
            /\ Len(history'[d]) = Len(history[d]) + 1
            /\ history'[d][Len(history[d]) + 1] = u
            /\ \A i \in 1 .. Len(history[d]) : history'[d][i] = history[d][i]
        <5> HIDE DEF Updates
        <5>1. /\ Append(history[d], u) # <<>>
              /\ Len(Append(history[d], u)) = Len(history[d]) + 1
              /\ Append(history[d], u)[Len(history[d]) + 1] = u
              /\ \A i \in 1 .. Len(history[d]) : Append(history[d], u)[i] = history[d][i]
          BY <3>2, AppendFacts
        <5> QED
          BY <3>7, <5>1
      <4>2. Len(history[d]) \in Nat
        BY <3>2, LenIsNat
      <4>3. ASSUME NEW i \in 1 .. Len(history'[d]), i # Len(history'[d])
            PROVE  history'[d][i] \in answered'
        <5>1. i \in 1 .. Len(history[d])
          BY <4>1, <4>2, <4>3
        <5> QED
          BY <3>2, <3>3, <4>1, <5>1
      <4> QED
        BY <3>2, <3>7, <4>1, <4>3 DEF AnsweredBy
    <3> QED
      BY <3>4, <3>5, <3>6, <3>7
  <2> QED
    BY <2>1, <2>2, <2>3, <2>4, <2>5, <2>6
<1>2. CASE AgentReturns(d)
  <2>0. /\ pc[d] = "running"
        /\ answered' = answered \cup {current[d]}
        /\ history' = [history EXCEPT ![d] = Bounded(@)]
        /\ pc' = [pc EXCEPT ![d] = "replying"]
        /\ UNCHANGED <<server, disk, lock, offset, batch, current, started, finished, crashes>>
    BY <1>2 DEF AgentReturns
  <2>h. history[d] \in Seq(Updates) /\ history[d] # <<>> /\ Len(history[d]) <= MaxTurns + 1
    BY <2>0 DEF TypeOK, Answered, AnsweredBy
  <2>b. /\ Bounded(history[d]) \in Seq(Updates)
        /\ Len(Bounded(history[d])) <= MaxTurns
        /\ \A i \in 1 .. Len(Bounded(history[d])) :
               \E j \in 1 .. Len(history[d]) : Bounded(history[d])[i] = history[d][j]
    <3>1. CASE Len(history[d]) > MaxTurns
      <4>1. Bounded(history[d]) = Tail(history[d])
        BY <3>1 DEF Bounded
      <4>2. /\ Len(Tail(history[d])) = Len(history[d]) - 1 /\ Tail(history[d]) \in Seq(Updates)
            /\ \A i \in 1 .. Len(history[d]) - 1 : Tail(history[d])[i] = history[d][i + 1]
        BY <2>h, TailFacts
      <4>3. Len(history[d]) \in Nat
        BY <2>h, LenIsNat
      <4>4. \A i \in 1 .. Len(history[d]) - 1 : i + 1 \in 1 .. Len(history[d])
        BY <4>3
      <4> QED
        BY <2>h, <4>1, <4>2, <4>3, <4>4
    <3>2. CASE ~(Len(history[d]) > MaxTurns)
      BY <2>h, <3>2 DEF Bounded
    <3> QED
      BY <3>1, <3>2
  <2>f. /\ history' \in [Daemons -> Seq(Updates)]
        /\ \A e \in Daemons : Len(history'[e]) <= MaxTurns + 1
        /\ history'[d] = Bounded(history[d])
        /\ \A e \in Daemons : e # d => history'[e] = history[e]
    <3>1. Len(Bounded(history[d])) <= MaxTurns + 1
      BY <2>b, LenIsNat
    <3> QED
      BY <2>0, <2>b, <3>1, HistoryStep
  <2>1. TypeOK'
    <3>3. answered' \subseteq Updates
      BY <2>0 DEF TypeOK, AtHand
    <3> QED
      BY <2>0, <2>f, <3>3 DEF TypeOK, States
  <2>2. Alone' /\ AtHand'
    BY <2>0 DEF TypeOK, Alone, AtHand
  <2>3. Below' /\ InOrder'
    BY <2>0 DEF Below, InOrder
  <2>4. Fresh'
    BY <2>0 DEF TypeOK, Fresh
  <2>5. Answered'
    <3>1. \A j \in 1 .. Len(history[d]) : history[d][j] \in answered'
      BY <2>0 DEF Answered, AnsweredBy
    <3>2. /\ Len(history'[d]) <= MaxTurns
          /\ \A i \in 1 .. Len(history'[d]) : history'[d][i] \in answered'
          /\ pc'[d] = "replying"
      <4>1. pc'[d] = "replying"
        BY <2>0 DEF TypeOK
      <4>2. history'[d] = Bounded(history[d])
        BY <2>f
      <4>3. /\ Len(Bounded(history[d])) <= MaxTurns
            /\ \A i \in 1 .. Len(Bounded(history[d])) : Bounded(history[d])[i] \in answered'
        BY <2>b, <3>1
      <4> QED
        BY <4>1, <4>2, <4>3
    <3>3. \A e \in Daemons : e # d => pc'[e] = pc[e] /\ current'[e] = current[e]
      BY <2>0 DEF TypeOK
    <3> QED
      BY <2>0, <2>f, <3>2, <3>3, AnsweredStep DEF AnsweredBy
  <2> QED
    BY <2>1, <2>2, <2>3, <2>4, <2>5
<1>3. CASE AgentRaises(d)
  <2>0. /\ pc[d] = "running"
        /\ history' = [history EXCEPT ![d] = Front(@)]
        /\ pc' = [pc EXCEPT ![d] = "replying"]
        /\ UNCHANGED <<server, disk, lock, offset, batch, current, record, crashes>>
    BY <1>3 DEF AgentRaises
  <2>h. history[d] \in Seq(Updates) /\ history[d] # <<>> /\ Len(history[d]) <= MaxTurns + 1
    BY <2>0 DEF TypeOK, Answered, AnsweredBy
  <2>b. /\ Front(history[d]) \in Seq(Updates)
        /\ Len(Front(history[d])) = Len(history[d]) - 1
        /\ \A i \in 1 .. Len(history[d]) - 1 : Front(history[d])[i] = history[d][i]
    BY <2>h, FrontFacts
  <2>l. Len(history[d]) \in Nat
    BY <2>h, LenIsNat
  <2>f. /\ history' \in [Daemons -> Seq(Updates)]
        /\ \A e \in Daemons : Len(history'[e]) <= MaxTurns + 1
        /\ history'[d] = Front(history[d])
        /\ \A e \in Daemons : e # d => history'[e] = history[e]
    <3>1. Len(Front(history[d])) <= MaxTurns + 1
      BY <2>h, <2>b, <2>l
    <3> QED
      BY <2>0, <2>b, <3>1, HistoryStep
  <2>1. TypeOK'
    BY <2>0, <2>f DEF TypeOK, States
  <2>2. Alone' /\ AtHand'
    BY <2>0 DEF TypeOK, Alone, AtHand
  <2>3. Below' /\ InOrder'
    BY <2>0 DEF Below, InOrder
  <2>4. Fresh'
    BY <2>0 DEF TypeOK, Fresh
  <2>5. Answered'
    <3>1. \A i \in 1 .. Len(history[d]) - 1 : history[d][i] \in answered
      BY <2>0, <2>h DEF Answered, AnsweredBy
    <3>2. /\ Len(history'[d]) <= MaxTurns
          /\ \A i \in 1 .. Len(history'[d]) : history'[d][i] \in answered'
          /\ pc'[d] = "replying"
      <4>1. pc'[d] = "replying" /\ answered' = answered
        BY <2>0 DEF TypeOK
      <4>2. Len(history'[d]) = Len(history[d]) - 1
        BY <2>b, <2>f
      <4>3. \A i \in 1 .. Len(history[d]) - 1 : history'[d][i] \in answered
        BY <2>b, <2>f, <3>1
      <4>4. Len(history[d]) - 1 <= MaxTurns
        BY <2>h, <2>l
      <4> QED
        BY <4>1, <4>2, <4>3, <4>4
    <3>3. \A e \in Daemons : e # d => pc'[e] = pc[e] /\ current'[e] = current[e]
      BY <2>0 DEF TypeOK
    <3> QED
      BY <2>0, <2>f, <3>2, <3>3, AnsweredStep DEF AnsweredBy
  <2> QED
    BY <2>1, <2>2, <2>3, <2>4, <2>5
<1>4. CASE Reply(d)
  <2>1. TypeOK'
    BY <1>4 DEF Reply, TypeOK, States, Offsets
  <2>2. Alone' /\ AtHand'
    BY <1>4 DEF Reply, TypeOK, Alone, AtHand
  <2>3. Below'
    BY <1>4 DEF Reply, TypeOK, Below, AtHand, InOrder
  <2>4. InOrder'
    BY <1>4 DEF Reply, TypeOK, InOrder, AtHand, Below
  <2>5. Fresh'
    BY <1>4 DEF Reply, TypeOK, Fresh, Alone, InOrder
  <2>6. Answered'
    BY <1>4 DEF Reply, TypeOK, Answered, AnsweredBy, AtHand
  <2> QED
    BY <2>1, <2>2, <2>3, <2>4, <2>5, <2>6
<1>5. CASE Save(d)
  <2>1. TypeOK'
    <3>0. current[d] \in Updates
      BY <1>5 DEF Save, TypeOK, AtHand
    <3>1. disk' \in Offsets /\ finished' \subseteq Updates
      <4>1. disk \in Offsets /\ offset[d] \in Offsets /\ finished \subseteq Updates
        BY DEF TypeOK
      <4> QED
        BY <1>5, <3>0, <4>1 DEF Save
    <3>2. pc' \in [Daemons -> States] /\ current' \in [Daemons -> Updates \cup {NoUpdate}]
      BY <1>5 DEF Save, TypeOK, States
    <3> QED
      BY <1>5, <3>1, <3>2 DEF Save, TypeOK
  <2>2. Alone' /\ AtHand'
    BY <1>5 DEF Save, TypeOK, Alone, AtHand
  <2>3. Below'
    BY <1>5 DEF Save, TypeOK, Below, AtHand, InOrder
  <2>4. InOrder'
    BY <1>5 DEF Save, TypeOK, InOrder, AtHand, Below
  <2>5. Fresh'
    BY <1>5 DEF Save, TypeOK, Fresh, Alone, InOrder
  <2>6. Answered'
    BY <1>5 DEF Save, TypeOK, Answered, AnsweredBy, AtHand
  <2> QED
    BY <2>1, <2>2, <2>3, <2>4, <2>5, <2>6
<1> QED
  BY <1>1, <1>2, <1>3, <1>4, <1>5

LEMMA ArrivalStep ==
  ASSUME TelegramInv, NEW k \in Kinds, Arrive(k)
  PROVE  TelegramInv'
<1> USE TelegramAssumption DEF TelegramInv, Arrive, memory, record
<1>1. TypeOK'
  BY DEF TypeOK, Updates
<1>2. Alone' /\ AtHand' /\ Fresh' /\ Answered'
  BY DEF Alone, AtHand, Fresh, Answered, AnsweredBy
<1>3. Below' /\ InOrder'
  BY DEF Below, InOrder
<1> QED
  BY <1>1, <1>2, <1>3

LEMMA StutterStep == TelegramInv /\ UNCHANGED vars => TelegramInv'
  BY DEF TelegramInv, TypeOK, Alone, AtHand, Below, InOrder, Fresh, Answered, AnsweredBy,
         vars, server, memory, record

LEMMA TelegramInvariant == Spec => []TelegramInv
<1>1. TelegramInv /\ [Next]_vars => TelegramInv'
  BY PollStep, HandlingStep, ArrivalStep, StutterStep DEF Next, Loop
<1> QED
  BY TelegramInit, <1>1, PTL DEF Spec

\* Every variable keeps its type, and the conversation its bound
\* (agent/telegram_daemon.py, run_forever and _bound).
THEOREM TypeCorrect == Spec => []TypeOK
<1>1. TelegramInv => TypeOK
  BY DEF TelegramInv
<1> QED
  BY <1>1, TelegramInvariant, PTL

\* The server forgets an update only after it was handled to its end
\* (agent/telegram_daemon.py, run_forever: the order of offset and save_offset).
THEOREM NothingSkippedHolds == Spec => []NothingSkipped
<1>1. TelegramInv => NothingSkipped
  BY DEF TelegramInv, Below, NothingSkipped
<1> QED
  BY <1>1, TelegramInvariant, PTL

\* Only a crash makes the agent start again on a message
\* (agent/telegram_lock.py, and the offset in memory of run_forever).
THEOREM StartedAgainOnlyByCrashHolds == Spec => []StartedAgainOnlyByCrash
<1>1. TelegramInv => StartedAgainOnlyByCrash
  BY DEF TelegramInv, Fresh, StartedAgainOnlyByCrash
<1> QED
  BY <1>1, TelegramInvariant, PTL

\* Between messages the conversation holds only answered turns
\* (agent/telegram_daemon.py, _handle_message: history.pop()).
THEOREM HistoryIsAnsweredHolds == Spec => []HistoryIsAnswered
<1>1. TelegramInv => HistoryIsAnswered
  BY DEF TelegramInv, TypeOK, Answered, AnsweredBy, HistoryIsAnswered, ToSet
<1> QED
  BY <1>1, TelegramInvariant, PTL

-----------------------------------------------------------------------------
(* The daemon implements the inbox.  What this needs beyond TelegramInv: a    *)
(* batch has no gap from the offset on, the server has forgotten nothing of   *)
(* it or of the update at hand, and what is saved is not ahead of the turn.   *)

Gapless ==
    \A d \in Daemons :
        /\ pc[d] = "working" => batch[d] # {}
        /\ \A b \in batch[d] : kept <= b /\ b <= arrived
        /\ \A b \in batch[d], u \in Updates :
               kept <= u /\ offset[d] <= u /\ u <= b => u \in batch[d]
Behind ==
    \A d \in Daemons :
        /\ current[d] # NoUpdate => offset[d] = current[d] + 1 /\ kept <= current[d]
        /\ current[d] # NoUpdate => disk <= current[d]
        /\ pc[d] # "down" => disk <= offset[d]

TurnInv == Gapless /\ Behind

LEMMA TurnInit == Init => TurnInv
  BY TelegramAssumption DEF Init, TurnInv, Gapless, Behind, NoUpdate

\* The numbers that the arguments below compare.
LEMMA Numbers ==
  ASSUME TypeOK
  PROVE  /\ arrived \in Nat /\ kept \in Nat /\ disk \in Nat
         /\ \A d \in Daemons : /\ offset[d] \in Nat /\ current[d] \in Nat /\ batch[d] \in SUBSET Updates
                               /\ current[d] # NoUpdate => current[d] \in Updates
         /\ \A u \in Updates : u \in Nat /\ u >= 1
  BY TelegramAssumption DEF TypeOK, Updates, Offsets, NoUpdate

\* A step of one daemon leaves the memory of the others alone.
LEMMA OthersMemory ==
  ASSUME TypeOK, NEW d \in Daemons,
         \/ Start(d) \/ Request(d) \/ Answer(d) \/ Loop(d) \/ Crash(d)
  PROVE  \A e \in Daemons : e # d =>
           /\ pc'[e] = pc[e] /\ offset'[e] = offset[e]
           /\ batch'[e] = batch[e] /\ current'[e] = current[e]
<1> SUFFICES ASSUME NEW e \in Daemons, e # d
             PROVE  /\ pc'[e] = pc[e] /\ offset'[e] = offset[e]
                    /\ batch'[e] = batch[e] /\ current'[e] = current[e]
  OBVIOUS
<1> USE DEF TypeOK, Goto, memory
<1>1. CASE Start(d) \/ Request(d) \/ Answer(d) \/ Crash(d)
  BY <1>1 DEF Start, Request, Answer, Crash
<1>2. CASE IdlePoll(d) \/ PollFails(d) \/ Retry(d) \/ Reply(d)
  BY <1>2 DEF IdlePoll, PollFails, Retry, Reply
<1>3. CASE \E u \in Updates : Take(d, u)
  BY <1>3 DEF Take, Handle
<1>4. CASE AgentReturns(d) \/ AgentRaises(d) \/ Save(d)
  BY <1>4 DEF AgentReturns, AgentRaises, Save
<1> QED
  BY <1>1, <1>2, <1>3, <1>4 DEF Loop

\* While one daemon takes a step the others are down and have nothing in memory.
LEMMA OthersAreDown ==
  ASSUME TelegramInv, NEW d \in Daemons,
         \/ Start(d) \/ Request(d) \/ Answer(d) \/ Loop(d) \/ Crash(d)
  PROVE  \A e \in Daemons : e # d =>
           /\ pc'[e] = "down" /\ batch'[e] = {} /\ current'[e] = NoUpdate
<1>1. lock \in {d, Nobody}
  BY DEF TelegramInv, Alone, Start, Request, Answer, Loop, IdlePoll, PollFails, Retry, Reply,
         Take, AgentReturns, AgentRaises, Save, Crash
<1>2. \A e \in Daemons : e # d => pc[e] = "down" /\ batch[e] = {} /\ current[e] = NoUpdate
  BY <1>1, TelegramAssumption DEF TelegramInv, Alone, AtHand, AtWork
<1> QED
  BY <1>2, OthersMemory DEF TelegramInv

\* What a daemon does to the offsets, the batch and the update at hand, seen from
\* outside: it keeps them, starts, gets an answer, takes an update, saves, or ends.
LEMMA WhatADaemonDoes ==
  ASSUME TelegramInv, NEW d \in Daemons,
         \/ Start(d) \/ Request(d) \/ Answer(d) \/ Loop(d) \/ Crash(d)
  PROVE  LET Same == UNCHANGED <<disk, lock, started, finished, crashes, offset, batch, current>> IN
         /\ arrived' = arrived
         /\ \/ /\ pc[d] = "down" /\ pc'[d] = "idle" /\ lock = Nobody /\ lock' = d
               /\ offset'[d] = disk /\ batch' = batch /\ current' = current /\ kept' = kept
               /\ UNCHANGED <<disk, started, finished, crashes>>
            \/ /\ pc[d] = "idle" /\ pc'[d] = "waiting" /\ kept' = Receipt(offset[d]) /\ Same
            \/ /\ pc[d] = "waiting" /\ pc'[d] = "working" /\ kept' = kept
               /\ Waiting(d) # {} /\ batch'[d] = Waiting(d)
               /\ UNCHANGED <<disk, lock, started, finished, crashes, offset, current>>
            \/ /\ pc[d] # "down" /\ pc'[d] # "down" /\ pc'[d] # "working" /\ kept' = kept /\ Same
            \/ \E u \in Updates :
                  /\ pc[d] = "working" /\ pc'[d] \in AtWork /\ IsFirst(d, u) /\ kept' = kept
                  /\ offset'[d] = u + 1 /\ batch'[d] = batch[d] \ {u} /\ current'[d] = u
                  /\ started' \in {started, [started EXCEPT ![u] = @ + 1]}
                  /\ UNCHANGED <<disk, lock, finished, crashes>>
            \/ /\ pc[d] = "saving" /\ kept' = kept /\ disk' \in {disk, offset[d]}
               /\ pc'[d] = (IF batch[d] = {} THEN "idle" ELSE "working")
               /\ current'[d] = NoUpdate /\ finished' = finished \cup {current[d]}
               /\ UNCHANGED <<lock, started, crashes, offset, batch>>
            \/ /\ pc[d] # "down" /\ pc'[d] = "down" /\ lock = d /\ lock' = Nobody /\ kept' = kept
               /\ offset'[d] = 0 /\ batch'[d] = {} /\ current'[d] = NoUpdate
               /\ crashes' = crashes + 1 /\ UNCHANGED <<disk, started, finished>>
<1> USE DEF TelegramInv, TypeOK, Goto, server, memory, record
<1>1. CASE Start(d)
  BY <1>1 DEF Start
<1>2. CASE Request(d)
  BY <1>2 DEF Request
<1>3. CASE Answer(d)
  BY <1>3 DEF Answer
<1>4. CASE IdlePoll(d) \/ PollFails(d) \/ Retry(d) \/ Reply(d)
  BY <1>4 DEF IdlePoll, PollFails, Retry, Reply
<1>5. CASE \E u \in Updates : Take(d, u)
  <2> PICK u \in Updates : Take(d, u)
    BY <1>5
  <2>1. /\ pc[d] = "working" /\ IsFirst(d, u) /\ kept' = kept /\ arrived' = arrived
        /\ offset'[d] = u + 1 /\ batch'[d] = batch[d] \ {u} /\ current'[d] = u
        /\ UNCHANGED <<disk, lock, finished, crashes>>
    BY DEF Take
  <2>2. started' \in {started, [started EXCEPT ![u] = @ + 1]} /\ pc'[d] \in AtWork
    BY DEF Take, Handle, AtWork
  <2> QED
    BY <2>1, <2>2
<1>6. CASE AgentReturns(d) \/ AgentRaises(d)
  BY <1>6 DEF AgentReturns, AgentRaises
<1>7. CASE Save(d)
  BY <1>7 DEF Save
<1>8. CASE Crash(d)
  BY <1>8 DEF Crash, Alone
<1> QED
  BY <1>1, <1>2, <1>3, <1>4, <1>5, <1>6, <1>7, <1>8 DEF Loop

LEMMA TurnStep ==
  ASSUME TelegramInv, TurnInv, NEW d \in Daemons,
         \/ Start(d) \/ Request(d) \/ Answer(d) \/ Loop(d) \/ Crash(d)
  PROVE  TurnInv'
<1>1. \A e \in Daemons : e # d => pc'[e] = "down" /\ batch'[e] = {} /\ current'[e] = NoUpdate
  BY OthersAreDown
<1>2. /\ arrived \in Nat /\ kept \in Nat /\ disk \in Nat /\ offset[d] \in Nat
      /\ batch[d] \in SUBSET Updates
      /\ \A u \in Updates : u \in Nat /\ u >= 1
  BY Numbers DEF TelegramInv
<1>3. /\ current[d] # NoUpdate <=> pc[d] \in AtWork
      /\ batch[d] # {} => pc[d] \in AtWork \cup {"working"}
      /\ \A b \in batch[d] : offset[d] <= b
  BY DEF TelegramInv, AtHand, InOrder
<1>4. /\ pc[d] = "working" => batch[d] # {}
      /\ \A b \in batch[d] : kept <= b /\ b <= arrived
      /\ \A b \in batch[d], u \in Updates :
            kept <= u /\ offset[d] <= u /\ u <= b => u \in batch[d]
      /\ current[d] # NoUpdate => offset[d] = current[d] + 1 /\ kept <= current[d]
      /\ current[d] # NoUpdate => disk <= current[d]
      /\ pc[d] # "down" => disk <= offset[d]
  BY DEF TurnInv, Gapless, Behind
<1>5. SUFFICES /\ pc'[d] = "working" => batch'[d] # {}
               /\ \A b \in batch'[d] : kept' <= b /\ b <= arrived'
               /\ \A b \in batch'[d], u \in Updates :
                     kept' <= u /\ offset'[d] <= u /\ u <= b => u \in batch'[d]
               /\ current'[d] # NoUpdate => offset'[d] = current'[d] + 1 /\ kept' <= current'[d]
               /\ current'[d] # NoUpdate => disk' <= current'[d]
               /\ pc'[d] # "down" => disk' <= offset'[d]
  BY <1>1, <1>5 DEF TurnInv, Gapless, Behind
<1> USE DEF AtWork, NoUpdate
<1>6. CASE /\ pc[d] = "down" /\ pc'[d] = "idle" /\ arrived' = arrived
           /\ offset'[d] = disk /\ batch' = batch /\ current' = current /\ kept' = kept /\ disk' = disk
  BY <1>2, <1>3, <1>4, <1>6
<1>7. CASE /\ pc[d] = "idle" /\ pc'[d] = "waiting" /\ arrived' = arrived
           /\ UNCHANGED <<disk, offset, batch, current>>
  BY <1>2, <1>3, <1>4, <1>7
<1>8. CASE /\ pc[d] = "waiting" /\ pc'[d] = "working" /\ kept' = kept /\ arrived' = arrived
           /\ Waiting(d) # {} /\ batch'[d] = Waiting(d)
           /\ UNCHANGED <<disk, offset, current>>
  BY <1>2, <1>3, <1>4, <1>8 DEF Waiting
<1>9. CASE /\ pc[d] # "down" /\ pc'[d] # "down" /\ pc'[d] # "working" /\ kept' = kept
           /\ arrived' = arrived /\ UNCHANGED <<disk, offset, batch, current>>
  BY <1>4, <1>9
<1>10. ASSUME NEW u \in Updates,
              /\ pc[d] = "working" /\ pc'[d] \in AtWork /\ IsFirst(d, u) /\ kept' = kept
              /\ offset'[d] = u + 1 /\ batch'[d] = batch[d] \ {u} /\ current'[d] = u
              /\ disk' = disk /\ arrived' = arrived
       PROVE  /\ pc'[d] = "working" => batch'[d] # {}
              /\ \A b \in batch'[d] : kept' <= b /\ b <= arrived'
              /\ \A b \in batch'[d], v \in Updates :
                    kept' <= v /\ offset'[d] <= v /\ v <= b => v \in batch'[d]
              /\ current'[d] # NoUpdate => offset'[d] = current'[d] + 1 /\ kept' <= current'[d]
              /\ current'[d] # NoUpdate => disk' <= current'[d]
              /\ pc'[d] # "down" => disk' <= offset'[d]
  <2>1. u \in batch[d] /\ offset[d] <= u /\ kept <= u /\ disk <= u /\ u \in Nat
    BY <1>2, <1>3, <1>4, <1>10 DEF IsFirst
  <2>2. \A b \in batch'[d], v \in Updates :
           kept' <= v /\ offset'[d] <= v /\ v <= b => v \in batch'[d]
    <3> SUFFICES ASSUME NEW b \in batch'[d], NEW v \in Updates,
                        kept' <= v, offset'[d] <= v, v <= b
                 PROVE  v \in batch'[d]
      OBVIOUS
    <3>1. b \in batch[d] /\ kept <= v /\ u + 1 <= v
      BY <1>10
    <3>2. v \in Nat /\ offset[d] \in Nat /\ u \in Nat /\ offset[d] <= u
      BY <1>2, <2>1
    <3>3. v # u /\ offset[d] <= v
      BY <3>1, <3>2
    <3> QED
      BY <1>4, <1>10, <3>1, <3>3
  <2> QED
    BY <1>2, <1>4, <1>10, <2>1, <2>2
<1>11. CASE /\ pc[d] = "saving" /\ kept' = kept /\ disk' \in {disk, offset[d]}
            /\ pc'[d] = (IF batch[d] = {} THEN "idle" ELSE "working")
            /\ current'[d] = NoUpdate /\ arrived' = arrived /\ UNCHANGED <<offset, batch>>
  BY <1>2, <1>4, <1>11
<1>12. CASE pc'[d] = "down" /\ batch'[d] = {} /\ current'[d] = NoUpdate
  BY <1>12
<1> QED
  BY <1>6, <1>7, <1>8, <1>9, <1>10, <1>11, <1>12, WhatADaemonDoes

LEMMA TurnInvariant == Spec => [](TelegramInv /\ TurnInv)
<1>1. TelegramInv /\ TurnInv /\ [Next]_vars => TurnInv'
  <2>1. ASSUME TelegramInv, TurnInv, NEW k \in Kinds, Arrive(k)
        PROVE  TurnInv'
    BY <2>1, Numbers DEF TelegramInv, TurnInv, Gapless, Behind, Arrive, memory
  <2>2. TurnInv /\ UNCHANGED vars => TurnInv'
    BY DEF TurnInv, Gapless, Behind, vars, server, memory
  <2> QED
    BY TurnStep, <2>1, <2>2 DEF Next
<1> QED
  BY TurnInit, TelegramInvariant, <1>1, PTL DEF Spec

\* A step of a daemon is a step of the inbox, or none.
LEMMA InboxStep ==
  ASSUME TelegramInv, TurnInv, NEW d \in Daemons,
         \/ Start(d) \/ Request(d) \/ Answer(d) \/ Loop(d) \/ Crash(d)
  PROVE  [Inbox!Next]_(Inbox!vars)
<1>1. /\ arrived \in Nat /\ kept \in Nat /\ disk \in Nat /\ offset[d] \in Nat
      /\ current[d] \in Nat /\ batch[d] \in SUBSET Updates
      /\ \A u \in Updates : u \in Nat /\ u >= 1
  BY Numbers DEF TelegramInv
<1>2. /\ pc[d] # "down" <=> lock = d
      /\ current[d] # NoUpdate <=> pc[d] \in AtWork
      /\ d # Nobody
      /\ pc[d] = "down" => offset[d] = 0 /\ lock # d
  BY TelegramAssumption DEF TelegramInv, Alone, AtHand
<1>3. /\ \A b \in batch[d] : kept <= b /\ b <= arrived /\ offset[d] <= b
      /\ \A b \in batch[d], u \in Updates :
            kept <= u /\ offset[d] <= u /\ u <= b => u \in batch[d]
      /\ current[d] # NoUpdate => offset[d] = current[d] + 1 /\ kept <= current[d]
      /\ current[d] # NoUpdate => disk <= current[d]
      /\ pc[d] # "down" => disk <= offset[d]
  BY DEF TelegramInv, InOrder, TurnInv, Gapless, Behind
\* The turn, as seen from the daemon that holds the lock.
<1>4. /\ lock = d /\ current[d] = NoUpdate =>
            /\ ~Handling
            /\ Turn = IF Receipt(offset[d]) = 0 THEN 1 ELSE Receipt(offset[d])
      /\ lock = d /\ current[d] # NoUpdate => Handling /\ Turn = current[d]
      /\ lock = Nobody => ~Handling /\ Turn = IF Receipt(disk) = 0 THEN 1 ELSE Receipt(disk)
  BY <1>2 DEF Turn, Handling, NextOffset
<1>5. /\ lock' = d /\ current'[d] = NoUpdate =>
            /\ ~Handling'
            /\ Turn' = IF Receipt(offset[d])' = 0 THEN 1 ELSE Receipt(offset[d])'
      /\ lock' = d /\ current'[d] # NoUpdate => Handling' /\ Turn' = current'[d]
      /\ lock' = Nobody => ~Handling' /\ Turn' = IF Receipt(disk)' = 0 THEN 1 ELSE Receipt(disk)'
  BY <1>2 DEF Turn, Handling, NextOffset
<1>6. SUFFICES Inbox!Next \/ UNCHANGED <<arrived, Turn, Handling, started, finished, crashes>>
  BY DEF Inbox!vars
<1> USE DEF AtWork, NoUpdate, Receipt
<1>7. CASE /\ pc[d] = "down" /\ lock = Nobody /\ lock' = d /\ offset'[d] = disk /\ current' = current
           /\ UNCHANGED <<arrived, kept, disk, started, finished, crashes>>
  <2>1. current'[d] = NoUpdate
    BY <1>2, <1>7
  <2>2. ~Handling /\ ~Handling' /\ Turn' = Turn
    BY <1>4, <1>5, <1>7, <2>1
  <2> QED
    BY <1>7, <2>2 DEF Handling
<1>8. CASE /\ pc[d] = "idle" /\ kept' = Receipt(offset[d])
           /\ UNCHANGED <<arrived, disk, lock, started, finished, crashes, offset, batch, current>>
  <2>1. lock = d /\ lock' = d /\ current[d] = NoUpdate /\ current'[d] = NoUpdate /\ offset'[d] = offset[d]
    BY <1>2, <1>8
  <2>2. Turn' = Turn /\ Handling' = Handling
    BY <1>1, <1>4, <1>5, <1>8, <2>1 DEF Handling
  <2> QED
    BY <1>8, <2>2
<1>9. CASE /\ pc[d] \in {"waiting"} /\ kept' = kept
           /\ UNCHANGED <<arrived, disk, lock, started, finished, crashes, offset, current>>
  <2>1. Turn' = Turn /\ Handling' = Handling
    BY <1>9 DEF Turn, Handling, NextOffset
  <2> QED
    BY <1>9, <2>1
<1>10. CASE /\ kept' = kept
            /\ UNCHANGED <<arrived, disk, lock, started, finished, crashes, offset, batch, current>>
  <2>1. Turn' = Turn /\ Handling' = Handling
    BY <1>10 DEF Turn, Handling, NextOffset
  <2> QED
    BY <1>10, <2>1
<1>11. ASSUME NEW u \in Updates,
              /\ pc[d] = "working" /\ pc'[d] \in AtWork /\ IsFirst(d, u) /\ kept' = kept
              /\ offset'[d] = u + 1 /\ batch'[d] = batch[d] \ {u} /\ current'[d] = u
              /\ started' \in {started, [started EXCEPT ![u] = @ + 1]}
              /\ UNCHANGED <<arrived, disk, lock, finished, crashes>>
       PROVE  Inbox!Begin
  <2>1. u \in batch[d] /\ offset[d] <= u /\ kept <= u /\ u <= arrived /\ u \in Nat /\ u >= 1
    BY <1>1, <1>3, <1>11 DEF IsFirst
  <2>2. lock = d /\ lock' = d /\ current[d] = NoUpdate /\ current'[d] = u /\ u # NoUpdate
    BY <1>2, <1>11, <2>1
  <2>3. ~Handling /\ Handling' /\ Turn' = u
    BY <1>4, <1>5, <2>2
  <2>4. Turn = u
    <3>1. Turn \in Nat /\ Turn >= 1 /\ kept <= Turn /\ offset[d] <= Turn /\ Turn <= u
      BY <1>1, <1>4, <2>1, <2>2
    <3>2. u \in 1 .. MaxUpdates /\ MaxUpdates \in Nat
      BY TelegramAssumption DEF Updates
    <3>3. Turn \in Updates
      BY <3>1, <3>2 DEF Updates
    <3>4. u <= Turn
      BY <1>3, <1>11, <2>1, <3>1, <3>3 DEF IsFirst
    <3> QED
      BY <2>1, <3>1, <3>4
  <2>5. Handling' = TRUE
    BY <2>3 DEF Handling
  <2> QED
    BY <1>11, <2>1, <2>3, <2>4, <2>5 DEF Inbox!Begin
<1>12. CASE /\ pc[d] = "saving" /\ kept' = kept
            /\ current'[d] = NoUpdate /\ finished' = finished \cup {current[d]}
            /\ UNCHANGED <<arrived, lock, started, crashes, offset, batch>>
  <2>1. lock = d /\ lock' = d /\ current[d] # NoUpdate /\ offset'[d] = current[d] + 1 /\ kept <= current[d]
    BY <1>2, <1>3, <1>12
  <2>2. Handling /\ ~Handling' /\ Turn = current[d]
    BY <1>4, <1>5, <1>12, <2>1
  <2>3. Turn' = Turn + 1
    BY <1>1, <1>5, <1>12, <2>1, <2>2
  <2>4. Handling' = FALSE
    BY <2>2 DEF Handling
  <2>5. finished' = finished \cup {Turn} /\ UNCHANGED <<arrived, started, crashes>>
    BY <1>12, <2>2
  <2>6. Inbox!Finish
    BY <2>2, <2>3, <2>4, <2>5, Zenon DEF Inbox!Finish
  <2> QED
    BY <2>6 DEF Inbox!Next
<1>13. CASE /\ pc[d] # "down" /\ lock = d /\ lock' = Nobody /\ kept' = kept
            /\ crashes' = crashes + 1 /\ UNCHANGED <<arrived, disk, started, finished>>
  <2>1. ~Handling' /\ Turn' = IF Receipt(disk) = 0 THEN 1 ELSE Receipt(disk)
    BY <1>5, <1>13
  <2>2. Turn' \in Nat /\ 1 <= Turn'
    BY <1>1, <2>1
  <2>3. Turn \in Nat /\ Turn' <= Turn
    BY <1>1, <1>3, <1>4, <1>13, <2>1
  <2>4. Handling' = FALSE /\ Turn' \in 1 .. Turn
    BY <2>1, <2>2, <2>3 DEF Handling
  <2>5. Inbox!Crash
    BY <1>13, <2>4, Zenon DEF Inbox!Crash
  <2> QED
    BY <2>5 DEF Inbox!Next
<1> QED
  BY <1>7, <1>8, <1>9, <1>10, <1>11, <1>12, <1>13, WhatADaemonDoes DEF Inbox!Next

\* The daemon keeps the promise of TelegramInbox: messages are handled one at a
\* time, in order, none is passed over, and only a crash takes it back
\* (agent/telegram_daemon.py, run_forever and save_offset, with the receipt that
\* the Bot API takes an offset for, and agent/telegram_lock.py).
THEOREM DaemonImplementsInbox == Spec => ImplementsInbox
<1>1. Init => Inbox!Init
  BY DEF Init, Inbox!Init, Turn, Handling, NextOffset, Receipt, Updates, Inbox!Updates
<1>2. TelegramInv /\ TurnInv /\ [Next]_vars => [Inbox!Next]_(Inbox!vars)
  <2>1. ASSUME NEW k \in Kinds, Arrive(k)
        PROVE  Inbox!Arrive
    <3>1. Turn' = Turn /\ Handling' = Handling
      BY <2>1 DEF Arrive, memory, Turn, Handling, NextOffset, Receipt
    <3> QED
      BY <2>1, <3>1 DEF Arrive, memory, record, Inbox!Arrive
  <2>2. UNCHANGED vars => UNCHANGED Inbox!vars
    BY DEF vars, server, memory, record, Inbox!vars, Turn, Handling, NextOffset, Receipt
  <2> QED
    BY InboxStep, <2>1, <2>2 DEF Next, Inbox!Next
<1> QED
  BY <1>1, <1>2, TurnInvariant, PTL DEF Spec, ImplementsInbox, Inbox!Spec
=============================================================================
