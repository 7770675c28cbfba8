-------------------------- MODULE QueueDriversProofs --------------------------
(***************************************************************************)
(* Proofs about the two queues, for every set of messages and of           *)
(* processes, every capacity, batch size and retry policy.                 *)
(***************************************************************************)
EXTENDS QueueDrivers, TLAPS

(***************************************************************************)
(* The in-process queue.  The messages accepted fall into three stretches: *)
(* settled, the one being dispatched, and those in the channel, which      *)
(* nobody has tried yet.                                                   *)
(***************************************************************************)
MemoryType ==
    /\ publish \in [Messages -> {"none", "sending", "sent", "failed"}]
    /\ accepted \in Seq(Messages) /\ taken \in 0..Len(accepted)
    /\ current \in Messages \cup {None}
    /\ tries \in [Messages -> Nat]
    /\ fate \in [Messages -> {"none", "done", "dropped", "lost"}]

Stretches ==
    /\ \A i \in 1..Len(accepted) : publish[accepted[i]] = "sent"
    /\ \A i, j \in 1..Len(accepted) : accepted[i] = accepted[j] => i = j
    /\ \A m \in Messages : publish[m] # "sent" => tries[m] = 0 /\ fate[m] = "none"
    /\ \A i \in 1..Len(accepted) :
          i > taken => tries[accepted[i]] = 0 /\ fate[accepted[i]] = "none"
    /\ \A i \in 1..taken : accepted[i] = current \/ fate[accepted[i]] # "none"
    /\ consumer \in {"handling", "backoff"} =>
          taken > 0 /\ current = accepted[taken] /\ fate[current] = "none"
    /\ current # None => consumer \in {"handling", "backoff"}

MemoryInv == MemoryType /\ Stretches

LEMMA MemoryInitInv == Memory!Init => MemoryInv
  BY DEF Memory!Init, MemoryInv, MemoryType, Stretches

\* the channel holds what was accepted and not taken
LEMMA BufferHead ==
  ASSUME MemoryType, Memory!Buffer # <<>>
  PROVE  taken + 1 \in 1..Len(accepted) /\ Head(Memory!Buffer) = accepted[taken + 1]
  BY DEF MemoryType, Memory!Buffer

LEMMA InOrder == MemoryInv => HandledInOrder
<1> SUFFICES ASSUME MemoryInv, NEW i \in 1..Len(accepted), NEW j \in 1..Len(accepted),
                    i < j, tries[accepted[j]] > 0
             PROVE  fate[accepted[i]] # "none"
  BY DEF HandledInOrder, Memory!HandledInOrder
<1>1. j <= taken /\ i \in 1..taken /\ i # taken
  BY DEF MemoryInv, MemoryType, Stretches
<1>2. accepted[i] # current
  BY <1>1, QueueDriversAssumption DEF MemoryInv, MemoryType, Stretches
<1> QED
  BY <1>1, <1>2 DEF MemoryInv, Stretches

LEMMA MemoryStep == MemoryInv /\ [Memory!Next]_memoryVars => MemoryInv'
<1> SUFFICES ASSUME MemoryInv, [Memory!Next]_memoryVars PROVE MemoryInv'
  OBVIOUS
<1> USE DEF MemoryInv
<1>1. ASSUME NEW m \in Messages, Memory!PublishCalled(m) \/ Memory!PublishGivesUp(m)
      PROVE  MemoryInv'
  BY <1>1 DEF Memory!PublishCalled, Memory!PublishGivesUp, MemoryType, Stretches
<1>2. ASSUME NEW m \in Messages, Memory!Send(m) PROVE MemoryInv'
  <2>1. /\ publish[m] = "sending" /\ publish' = [publish EXCEPT ![m] = "sent"]
        /\ accepted' = Append(accepted, m)
        /\ UNCHANGED <<taken, consumer, current, tries, fate>>
    BY <1>2 DEF Memory!Send
  <2>2. /\ accepted' \in Seq(Messages) /\ Len(accepted') = Len(accepted) + 1
        /\ \A i \in 1..Len(accepted) : accepted'[i] = accepted[i]
        /\ accepted'[Len(accepted) + 1] = m
    BY <2>1 DEF MemoryType
  <2>3. \A i \in 1..Len(accepted) : accepted[i] # m
    BY <2>1 DEF Stretches
  <2>4. MemoryType'
    BY <2>1, <2>2 DEF MemoryType
  <2>5. Stretches'
    BY <2>1, <2>2, <2>3 DEF MemoryType, Stretches
  <2> QED
    BY <2>4, <2>5
<1>3. CASE Memory!Receive
  <2>1. taken + 1 \in 1..Len(accepted) /\ current' = accepted[taken + 1]
    BY <1>3, BufferHead DEF Memory!Receive
  <2>2. /\ taken' = taken + 1 /\ consumer = "idle" /\ consumer' = "handling"
        /\ UNCHANGED <<publish, accepted, tries, fate>>
    BY <1>3 DEF Memory!Receive
  <2>3. current = None
    BY <2>2 DEF Stretches
  <2> QED
    BY <2>1, <2>2, <2>3, QueueDriversAssumption DEF MemoryType, Stretches
<1>4. ASSUME consumer \in {"handling", "backoff"}, NEW n \in Nat, NEW f \in {"done", "dropped", "lost"},
             tries' = [tries EXCEPT ![current] = n], Memory!Dispatched(f),
             UNCHANGED <<publish, accepted, taken>>
      PROVE  MemoryInv'
  <2>1. taken \in 1..Len(accepted) /\ current = accepted[taken] /\ current \in Messages
    BY <1>4 DEF MemoryType, Stretches
  <2>2. /\ fate' = [fate EXCEPT ![current] = f] /\ current' = None /\ consumer' = "idle"
    BY <1>4 DEF Memory!Dispatched
  <2>3. /\ publish[current] = "sent"
        /\ \A i \in 1..Len(accepted) : i # taken => accepted[i] # current
    BY <2>1 DEF MemoryType, Stretches
  <2>4. MemoryType'
    BY <1>4, <2>1, <2>2 DEF MemoryType
  <2>5. Stretches'
    BY <1>4, <2>1, <2>2, <2>3, QueueDriversAssumption DEF MemoryType, Stretches
  <2> QED
    BY <2>4, <2>5
<1>5. CASE Memory!HandlerSucceeds
  <2>1. current \in Messages /\ tries[current] + 1 \in Nat
    BY <1>5 DEF Memory!HandlerSucceeds, MemoryType, Stretches
  <2> QED
    BY <1>4, <1>5, <2>1 DEF Memory!HandlerSucceeds
<1>6. CASE Memory!HandlerFails
  <2>1. current \in Messages /\ tries[current] + 1 \in Nat
        /\ taken \in 1..Len(accepted) /\ current = accepted[taken]
    BY <1>6 DEF Memory!HandlerFails, MemoryType, Stretches
  <2>2. CASE tries[current] + 1 >= MaxAttempts
    BY <1>4, <1>6, <2>1, <2>2 DEF Memory!HandlerFails
  <2>3. CASE ~(tries[current] + 1 >= MaxAttempts)
    BY <1>6, <2>1, <2>3 DEF Memory!HandlerFails, MemoryType, Stretches
  <2> QED
    BY <2>2, <2>3
<1>7. CASE Memory!BackoffInterrupted
  <2>1. current \in Messages /\ tries[current] \in Nat
    BY <1>7 DEF Memory!BackoffInterrupted, MemoryType, Stretches
  <2>2. tries' = [tries EXCEPT ![current] = tries[current]]
    BY <1>7 DEF Memory!BackoffInterrupted, MemoryType
  <2> QED
    BY <1>4, <1>7, <2>1, <2>2 DEF Memory!BackoffInterrupted
<1>8. CASE Memory!StartConsumer \/ Memory!Cancel \/ Memory!ConsumerExits
           \/ Memory!CloseCalled \/ Memory!CloseReturns \/ Memory!BackoffElapses
  BY <1>8 DEF Memory!StartConsumer, Memory!Cancel, Memory!ConsumerExits,
              Memory!CloseCalled, Memory!CloseReturns, Memory!BackoffElapses,
              MemoryType, Stretches
<1>9. CASE Memory!ProcessReplaced
  BY <1>9, QueueDriversAssumption DEF Memory!ProcessReplaced, MemoryType, Stretches
<1>10. CASE UNCHANGED memoryVars
  BY <1>10 DEF memoryVars, MemoryType, Stretches
<1> QED
  BY <1>1, <1>2, <1>3, <1>5, <1>6, <1>7, <1>8, <1>9, <1>10 DEF Memory!Next

\* messages of the in-process queue are begun in the order of acceptance, whatever
\* fails, stops or is started again
THEOREM MemoryInOrder == Spec => []HandledInOrder
<1>1. Init => MemoryInv
  BY MemoryInitInv DEF Init
<1>2. MemoryInv /\ [Next]_vars => MemoryInv'
  BY MemoryStep DEF Next, vars
<1> QED
  BY <1>1, <1>2, InOrder, PTL DEF Spec

(***************************************************************************)
(* Refinement: each step of the in-process queue publishes, takes, settles  *)
(* or loses messages of the abstract one, or changes nothing it knows of.   *)
(***************************************************************************)
MemoryState(m) ==
    IF fate[m] # "none" THEN fate[m]
    ELSE IF m = current THEN "held"
    ELSE IF publish[m] = "sent" THEN "waiting" ELSE "unsent"

\* the messages in S move, and only they
MemoryMoves(S, to) ==
    \A m \in Messages : MemoryState(m)' = IF m \in S THEN to ELSE MemoryState(m)

LEMMA MemoryMove ==
  ASSUME NEW S, NEW to, MemoryMoves(S, to) PROVE Memory!Promise!Move(S, to)
  BY DEF MemoryMoves, MemoryState, Memory!Promise!Move

LEMMA MemoryStutter ==
  ASSUME MemoryMoves({}, "held"), UNCHANGED tries PROVE UNCHANGED Memory!Promise!vars
  BY DEF MemoryMoves, MemoryState, Memory!Promise!vars

LEMMA MemoryInitImplements == Memory!Init => Memory!Promise!Init
  BY QueueDriversAssumption DEF Memory!Init, Memory!Promise!Init

LEMMA MemoryStepImplements ==
  MemoryInv /\ [Memory!Next]_memoryVars => [Memory!Promise!Next]_(Memory!Promise!vars)
<1> DEFINE Implements == [Memory!Promise!Next]_(Memory!Promise!vars)
<1> SUFFICES ASSUME MemoryInv, [Memory!Next]_memoryVars PROVE Implements
  OBVIOUS
<1> USE DEF MemoryInv
<1>1. ASSUME NEW m \in Messages, Memory!PublishCalled(m) \/ Memory!PublishGivesUp(m)
      PROVE  Implements
  <2>1. MemoryMoves({}, "held") /\ UNCHANGED tries
    BY <1>1 DEF Memory!PublishCalled, Memory!PublishGivesUp, MemoryType, MemoryMoves,
                MemoryState
  <2> QED
    BY <2>1, MemoryStutter DEF Implements
<1>2. ASSUME NEW m \in Messages, Memory!Send(m) PROVE Implements
  <2>1. MemoryState(m) = "unsent" /\ MemoryMoves({m}, "waiting") /\ UNCHANGED tries
    <3>1. fate[m] = "none" /\ m # current
      BY <1>2, QueueDriversAssumption DEF Memory!Send, MemoryType, Stretches
    <3> QED
      BY <1>2, <3>1 DEF Memory!Send, MemoryType, MemoryMoves, MemoryState
  <2> QED
    <3>1. Memory!Promise!Publish(m)
      BY <2>1, MemoryMove DEF Memory!Promise!Publish, MemoryState
    <3>2. Memory!Promise!Next
      BY <3>1 DEF Memory!Promise!Next
    <3> QED
      BY <3>2 DEF Implements
<1>3. CASE Memory!Receive
  <2>1. taken + 1 \in 1..Len(accepted) /\ current' = accepted[taken + 1]
    BY <1>3, BufferHead DEF Memory!Receive
  <2>2. current = None /\ UNCHANGED <<publish, fate, tries>>
    BY <1>3 DEF Memory!Receive, Stretches
  <2>3. PICK m \in Messages : m = current'
    BY <2>1 DEF MemoryType
  <2>4. publish[m] = "sent" /\ fate[m] = "none"
    BY <2>1, <2>3 DEF MemoryType, Stretches
  <2>5. MemoryState(m) = "waiting" /\ MemoryMoves({m}, "held")
    BY <2>2, <2>3, <2>4, QueueDriversAssumption DEF MemoryMoves, MemoryState
  <2>6. Memory!Promise!Take({m})
    BY <2>2, <2>5, MemoryMove DEF Memory!Promise!Take, MemoryState
  <2>7. Memory!Promise!Next
    BY <2>6 DEF Memory!Promise!Next
  <2> QED
    BY <2>7 DEF Implements
<1>4. ASSUME consumer \in {"handling", "backoff"}
      PROVE  \E m \in Messages :
                m = current /\ MemoryState(m) = "held" /\ fate[m] = "none"
  BY <1>4 DEF MemoryType, Stretches, MemoryState
<1>5. ASSUME NEW m \in Messages, m = current, MemoryState(m) = "held",
             NEW f \in {"done", "dropped", "lost"}, Memory!Dispatched(f), UNCHANGED publish
      PROVE  MemoryMoves({m}, f)
  BY <1>5, QueueDriversAssumption
     DEF Memory!Dispatched, MemoryType, MemoryMoves, MemoryState
<1>6. CASE Memory!HandlerSucceeds
  <2>1. PICK m \in Messages : m = current /\ MemoryState(m) = "held" /\ fate[m] = "none"
    BY <1>4, <1>6 DEF Memory!HandlerSucceeds
  <2>2. Memory!Promise!Succeed(m)
    BY <1>5, <1>6, <2>1, MemoryMove
       DEF Memory!HandlerSucceeds, Memory!Promise!Succeed, Memory!Promise!Attempt, MemoryState
  <2>3. Memory!Promise!Next
    BY <2>2 DEF Memory!Promise!Next
  <2> QED
    BY <2>3 DEF Implements
<1>7. CASE Memory!HandlerFails
  <2>1. PICK m \in Messages : m = current /\ MemoryState(m) = "held" /\ fate[m] = "none"
    BY <1>4, <1>7 DEF Memory!HandlerFails
  <2>2. ASSUME tries[m] + 1 >= MaxAttempts PROVE Memory!Promise!Fail(m)
    <3>1. MemoryMoves({m}, "dropped")
      BY <1>5, <1>7, <2>1, <2>2 DEF Memory!HandlerFails
    <3> QED
      BY <1>7, <2>1, <2>2, <3>1, MemoryMove
         DEF Memory!HandlerFails, Memory!Promise!Fail, Memory!Promise!Attempt, MemoryState
  <2>3. ASSUME ~(tries[m] + 1 >= MaxAttempts) PROVE Memory!Promise!Fail(m)
    BY <1>7, <2>1, <2>3
       DEF Memory!HandlerFails, Memory!Promise!Fail, Memory!Promise!Attempt, MemoryState
  <2>4. Memory!Promise!Fail(m)
    BY <2>2, <2>3
  <2>5. Memory!Promise!Next
    BY <2>4 DEF Memory!Promise!Next
  <2> QED
    BY <2>5 DEF Implements
<1>8. CASE Memory!BackoffInterrupted
  <2>1. PICK m \in Messages : m = current /\ MemoryState(m) = "held" /\ fate[m] = "none"
    BY <1>4, <1>8 DEF Memory!BackoffInterrupted
  <2>2. Memory!Promise!Lose({m})
    BY <1>5, <1>8, <2>1, MemoryMove
       DEF Memory!BackoffInterrupted, Memory!Promise!Lose, MemoryState
  <2>3. Memory!Promise!Next
    BY <2>2 DEF Memory!Promise!Next
  <2> QED
    BY <2>3 DEF Implements
<1>9. CASE Memory!StartConsumer \/ Memory!Cancel \/ Memory!ConsumerExits
           \/ Memory!CloseCalled \/ Memory!CloseReturns \/ Memory!BackoffElapses
  <2>1. MemoryMoves({}, "held") /\ UNCHANGED tries
    BY <1>9 DEF Memory!StartConsumer, Memory!Cancel, Memory!ConsumerExits,
                Memory!CloseCalled, Memory!CloseReturns, Memory!BackoffElapses,
                MemoryMoves, MemoryState
  <2> QED
    BY <2>1, MemoryStutter DEF Implements
<1>10. CASE Memory!ProcessReplaced
  <2>1. PICK S \in SUBSET Messages :
           S = {m \in Messages : publish[m] = "sent" /\ fate[m] = "none"}
    OBVIOUS
  <2>2. current # None => current \in S
    BY <1>4, <2>1 DEF MemoryType, Stretches
  <2>3. MemoryMoves(S, "lost")
    BY <1>10, <2>1, <2>2, QueueDriversAssumption
       DEF Memory!ProcessReplaced, MemoryType, Stretches, MemoryMoves, MemoryState
  <2>4. \A m \in S : MemoryState(m) \in {"held", "waiting"}
    BY <2>1 DEF MemoryState
  <2>5. Memory!Promise!Lose(S)
    BY <1>10, <2>3, <2>4, MemoryMove
       DEF Memory!ProcessReplaced, Memory!Promise!Lose, MemoryState
  <2>6. Memory!Promise!Next
    BY <2>5 DEF Memory!Promise!Next
  <2> QED
    BY <2>6 DEF Implements
<1>11. CASE UNCHANGED memoryVars
  <2>1. MemoryMoves({}, "held") /\ UNCHANGED tries
    BY <1>11 DEF memoryVars, MemoryMoves, MemoryState
  <2> QED
    BY <2>1, MemoryStutter DEF Implements
<1> QED
  BY <1>1, <1>2, <1>3, <1>6, <1>7, <1>8, <1>9, <1>10, <1>11 DEF Memory!Next, Implements

\* the in-process queue handles a message at most MaxAttempts times, one at a time,
\* and never again once it was settled or lost: it implements the abstract queue
THEOREM MemoryImplements == Spec => Memory!ImplementsJobQueue
<1>1. Init => MemoryInv /\ Memory!Promise!Init
  BY MemoryInitInv, MemoryInitImplements DEF Init
<1>2. MemoryInv /\ [Next]_vars => MemoryInv'
  BY MemoryStep DEF Next, vars
<1>3. MemoryInv /\ [Next]_vars => [Memory!Promise!Next]_(Memory!Promise!vars)
  <2> SUFFICES ASSUME MemoryInv, [Next]_vars
               PROVE  [Memory!Promise!Next]_(Memory!Promise!vars)
    OBVIOUS
  <2>1. [Memory!Next]_memoryVars
    BY DEF Next, vars
  <2> QED
    BY <2>1, MemoryStepImplements
<1> QED
  BY <1>1, <1>2, <1>3, PTL DEF Spec, Memory!ImplementsJobQueue, Memory!Promise!Spec

-----------------------------------------------------------------------------
(* The queue over a stream.  An entry leaves the pending entries only by   *)
(* an acknowledgement, which is for the first entry of a batch whose       *)
(* verdict the same goroutine has just written; verdicts are never undone. *)

RedisType ==
    /\ published \subseteq Messages
    /\ fresh \in Seq(Messages)
    /\ proc \in [Procs -> {"down", "idle", "reading", "handling", "acking", "backoff"}]
    /\ batch \in [Procs -> Seq(Messages)]
    /\ verdict \in [Messages -> {"none", "done", "dropped"}]

\* what a goroutine has in hand
Dispatching ==
    \A p \in Procs :
       /\ proc[p] \in {"reading", "handling", "acking", "backoff"} => batch[p] # <<>>
       /\ proc[p] = "acking" => verdict[Redis!Current(p)] # "none"

RedisInv == RedisType /\ Dispatching /\ AckedOnlyWhenSettled

LEMMA RedisInitInv == Redis!Init => RedisInv
  BY DEF Redis!Init, RedisInv, RedisType, Dispatching, AckedOnlyWhenSettled,
         Redis!AckedOnlyWhenSettled

LEMMA CurrentType ==
  ASSUME RedisInv, NEW p \in Procs, proc[p] \in {"reading", "handling", "acking", "backoff"}
  PROVE  Redis!Current(p) \in Messages /\ Len(batch[p]) > 0 /\ Tail(batch[p]) \in Seq(Messages)
         /\ (Len(batch[p]) # 1 => Tail(batch[p]) # <<>>)
<1>1. batch[p] \in Seq(Messages) /\ batch[p] # <<>>
  BY DEF RedisInv, RedisType, Dispatching
<1>2. /\ Len(batch[p]) > 0 /\ Len(batch[p]) \in Nat /\ Head(batch[p]) \in Messages
      /\ Tail(batch[p]) \in Seq(Messages) /\ Len(Tail(batch[p])) = Len(batch[p]) - 1
  BY <1>1
<1>3. Len(batch[p]) # 1 => Len(Tail(batch[p])) # 0
  BY <1>2
<1>4. ASSUME NEW s, s = <<>> PROVE Len(s) = 0
  BY <1>4
<1> QED
  BY <1>2, <1>3, <1>4 DEF Redis!Current

\* the stream alone is enough for the first part of the property
LEMMA StillAccounted ==
  ASSUME AckedOnlyWhenSettled, UNCHANGED <<published, fresh>>,
         \A m \in pending : m \in pending' \/ verdict'[m] # "none",
         \A m \in Messages : verdict[m] # "none" => verdict'[m] # "none",
         RedisType
  PROVE  AckedOnlyWhenSettled'
  BY DEF AckedOnlyWhenSettled, Redis!AckedOnlyWhenSettled, Redis!Waiting, RedisType

LEMMA NextEntryStep ==
  ASSUME RedisInv, NEW p \in Procs, proc[p] \in {"acking", "backoff"}, Redis!NextEntry(p),
         UNCHANGED <<published, fresh, verdict>>
  PROVE  RedisType' /\ Dispatching'
<1>1. /\ batch' = [batch EXCEPT ![p] = Tail(batch[p])]
      /\ proc' = [proc EXCEPT ![p] = IF Len(batch[p]) = 1 THEN "idle" ELSE "handling"]
  BY DEF Redis!NextEntry, Redis!Goto
<1> QED
  BY <1>1, CurrentType DEF RedisInv, RedisType, Dispatching, Redis!Current

LEMMA ReadStep ==
  ASSUME RedisInv, NEW p \in Procs, Redis!Read(p)
  PROVE  RedisInv'
<1> DEFINE n == IF Len(fresh) < Count THEN Len(fresh) ELSE Count
           got == SubSeq(fresh, 1, n)
           rest == SubSeq(fresh, n + 1, Len(fresh))
<1>1. fresh \in Seq(Messages) /\ fresh # <<>> /\ n \in 1..Len(fresh)
  BY QueueDriversAssumption DEF Redis!Read, RedisInv, RedisType
<1>2. /\ fresh' = rest /\ batch' = [batch EXCEPT ![p] = got]
      /\ pending' = pending \cup {got[i] : i \in 1..n}
      /\ proc' = [proc EXCEPT ![p] = "reading"]
      /\ UNCHANGED <<published, verdict>>
  BY DEF Redis!Read, Redis!Goto
<1> HIDE DEF n
<1>3. /\ got \in Seq(Messages) /\ Len(got) = n /\ got # <<>>
      /\ \A i \in 1..n : got[i] = fresh[i]
  BY <1>1
<1>4. /\ rest \in Seq(Messages) /\ Len(rest) = Len(fresh) - n
      /\ \A i \in 1..(Len(fresh) - n) : rest[i] = fresh[n + i]
  BY <1>1
<1> HIDE DEF got, rest
<1>5. RedisType' /\ Dispatching'
  BY <1>2, <1>3, <1>4 DEF RedisInv, RedisType, Dispatching, Redis!Current
<1>6. ASSUME NEW i \in 1..Len(fresh)
      PROVE  (\E j \in 1..Len(rest) : rest[j] = fresh[i]) \/ fresh[i] \in pending'
  <2>1. CASE i <= n
    BY <1>1, <1>2, <1>3, <2>1
  <2>2. CASE i > n
    <3>1. i - n \in 1..Len(rest) /\ rest[i - n] = fresh[n + (i - n)] /\ n + (i - n) = i
      BY <1>1, <1>4, <2>2
    <3> QED
      BY <3>1
  <2> QED
    BY <1>1, <2>1, <2>2
<1>7. AckedOnlyWhenSettled'
  BY <1>2, <1>6 DEF RedisInv, AckedOnlyWhenSettled, Redis!AckedOnlyWhenSettled, Redis!Waiting
<1> QED
  BY <1>5, <1>7 DEF RedisInv

LEMMA PublishStep ==
  ASSUME RedisInv, NEW m \in Messages, Redis!Publish(m)
  PROVE  RedisInv'
<1>1. /\ fresh' = Append(fresh, m) /\ published' = published \cup {m}
      /\ UNCHANGED <<pending, proc, batch, verdict>>
  BY DEF Redis!Publish
<1>2. /\ fresh' \in Seq(Messages) /\ Len(fresh') = Len(fresh) + 1
      /\ fresh'[Len(fresh) + 1] = m
      /\ \A i \in 1..Len(fresh) : fresh'[i] = fresh[i]
      /\ Len(fresh) \in Nat
  BY <1>1 DEF RedisInv, RedisType
<1>3. AckedOnlyWhenSettled'
  BY <1>1, <1>2 DEF RedisInv, AckedOnlyWhenSettled, Redis!AckedOnlyWhenSettled, Redis!Waiting
<1> QED
  BY <1>1, <1>2, <1>3 DEF RedisInv, RedisType, Dispatching, Redis!Current

LEMMA RedisStep == RedisInv /\ [Redis!Next]_redisVars => RedisInv'
<1> SUFFICES ASSUME RedisInv, [Redis!Next]_redisVars PROVE RedisInv'
  OBVIOUS
<1>1. ASSUME NEW p \in Procs, Redis!StartProc(p) \/ Redis!Cancel(p) \/ Redis!ReplyArrives(p)
                              \/ Redis!BackoffElapses(p)
      PROVE  RedisInv'
  <2>1. UNCHANGED <<published, fresh, pending, batch, verdict>>
    BY <1>1 DEF Redis!StartProc, Redis!Cancel, Redis!ReplyArrives, Redis!BackoffElapses,
                Redis!stream
  <2>2. AckedOnlyWhenSettled'
    BY <2>1, StillAccounted DEF RedisInv
  <2> QED
    BY <1>1, <2>1, <2>2
       DEF Redis!StartProc, Redis!Cancel, Redis!ReplyArrives, Redis!BackoffElapses,
           Redis!Goto, RedisInv, RedisType, Dispatching, Redis!Current
<1>2. ASSUME NEW p \in Procs,
             Redis!ReplyLost(p) \/ Redis!ConsumerExits(p) \/ Redis!Crash(p)
      PROVE  RedisInv'
  <2>1. /\ UNCHANGED <<published, fresh, pending, verdict>>
        /\ batch' = [batch EXCEPT ![p] = <<>>]
        /\ \E where \in {"idle", "down"} : proc' = [proc EXCEPT ![p] = where]
    BY <1>2 DEF Redis!ReplyLost, Redis!ConsumerExits, Redis!Crash, Redis!Gone, Redis!Goto,
                Redis!stream
  <2>2. AckedOnlyWhenSettled'
    BY <2>1, StillAccounted DEF RedisInv
  <2> QED
    BY <2>1, <2>2 DEF RedisInv, RedisType, Dispatching, Redis!Current
<1>3. ASSUME NEW p \in Procs, Redis!HandlerSucceeds(p) \/ Redis!HandlerFails(p)
      PROVE  RedisInv'
  <2>1. /\ proc[p] = "handling" /\ UNCHANGED <<published, fresh, pending, batch>>
        /\ \/ /\ \E f \in {"done", "dropped"} :
                   verdict' = [verdict EXCEPT ![Redis!Current(p)] = f]
              /\ proc' = [proc EXCEPT ![p] = "acking"]
           \/ verdict' = verdict /\ proc' = [proc EXCEPT ![p] = "backoff"]
    BY <1>3 DEF Redis!HandlerSucceeds, Redis!HandlerFails, Redis!Goto, Redis!stream
  <2>2. Redis!Current(p) \in Messages
    BY <2>1, CurrentType
  <2>3. RedisType' /\ \A m \in Messages : verdict[m] # "none" => verdict'[m] # "none"
    BY <2>1, <2>2 DEF RedisInv, RedisType
  <2>4. AckedOnlyWhenSettled'
    BY <2>1, <2>3, StillAccounted DEF RedisInv, RedisType,
       AckedOnlyWhenSettled, Redis!AckedOnlyWhenSettled, Redis!Waiting
  <2>5. \A q \in Procs : proc[q] = "acking" => Redis!Current(q) \in Messages
    BY CurrentType
  <2>6. Dispatching'
    BY <2>1, <2>2, <2>3, <2>5 DEF RedisInv, RedisType, Dispatching, Redis!Current
  <2> QED
    BY <2>3, <2>4, <2>6 DEF RedisInv
<1>4. ASSUME NEW p \in Procs, Redis!Ack(p) PROVE RedisInv'
  <2>1. /\ proc[p] = "acking" /\ pending' = pending \ {Redis!Current(p)}
        /\ Redis!NextEntry(p) /\ UNCHANGED <<published, fresh, verdict>>
    BY <1>4 DEF Redis!Ack, Redis!stream
  <2>2. verdict[Redis!Current(p)] # "none"
    BY <2>1 DEF RedisInv, Dispatching
  <2>3. AckedOnlyWhenSettled'
    BY <2>1, <2>2, StillAccounted DEF RedisInv
  <2> QED
    BY <2>1, <2>3, NextEntryStep DEF RedisInv
<1>5. ASSUME NEW p \in Procs, Redis!AckFails(p) \/ Redis!BackoffInterrupted(p) PROVE RedisInv'
  <2>1. /\ proc[p] \in {"acking", "backoff"} /\ Redis!NextEntry(p)
        /\ UNCHANGED <<published, fresh, pending, verdict>>
    BY <1>5 DEF Redis!AckFails, Redis!BackoffInterrupted, Redis!stream
  <2>2. AckedOnlyWhenSettled'
    BY <2>1, StillAccounted DEF RedisInv
  <2> QED
    BY <2>1, <2>2, NextEntryStep DEF RedisInv
<1>6. CASE UNCHANGED redisVars
  <2>1. AckedOnlyWhenSettled'
    BY <1>6, StillAccounted DEF RedisInv, redisVars
  <2> QED
    BY <1>6, <2>1 DEF redisVars, RedisInv, RedisType, Dispatching, Redis!Current
<1> QED
  BY <1>1, <1>2, <1>3, <1>4, <1>5, <1>6, ReadStep, PublishStep
     DEF Redis!Next, Redis!Step, Redis!vars, redisVars

\* whatever a stop, a crash or a lost reply leaves undone is still pending on the
\* stream: only what was settled is acknowledged
THEOREM RedisAcknowledges == Spec => []AckedOnlyWhenSettled
<1>1. Init => RedisInv
  BY RedisInitInv DEF Init
<1>2. RedisInv /\ [Next]_vars => RedisInv'
  BY RedisStep DEF Next, vars
<1>3. RedisInv => AckedOnlyWhenSettled
  BY DEF RedisInv
<1> QED
  BY <1>1, <1>2, <1>3, PTL DEF Spec

(***************************************************************************)
(* Refinement of the stream.  An entry is in one place: it waits, or one   *)
(* goroutine has it once in its batch, and only the entry about to be      *)
(* acknowledged already has a verdict.                                     *)
(***************************************************************************)
HeldBy(p, m) == \E i \in 1..Len(batch[p]) : batch[p][i] = m

Places ==
    /\ \A i \in 1..Len(fresh) : fresh[i] \in published /\ verdict[fresh[i]] = "none"
    /\ \A i, j \in 1..Len(fresh) : fresh[i] = fresh[j] => i = j
    /\ \A p \in Procs : \A i \in 1..Len(batch[p]) :
          /\ batch[p][i] \in published /\ \A k \in 1..Len(fresh) : fresh[k] # batch[p][i]
          /\ verdict[batch[p][i]] # "none" => i = 1 /\ proc[p] = "acking"
          /\ \A j \in 1..Len(batch[p]) : batch[p][i] = batch[p][j] => i = j
    /\ \A p, q \in Procs : \A m \in Messages : HeldBy(p, m) /\ HeldBy(q, m) => p = q
    /\ \A p \in Procs : proc[p] \in {"idle", "down"} => batch[p] = <<>>
    /\ \A m \in Messages \ published : verdict[m] = "none"

StreamInv == RedisInv /\ Places

LEMMA TailEntries ==
  ASSUME NEW S, NEW s \in Seq(S), s # <<>>
  PROVE  /\ 1 \in 1..Len(s) /\ Head(s) = s[1] /\ Len(Tail(s)) = Len(s) - 1
         /\ Tail(s) \in Seq(S)
         /\ \A i \in 1..Len(Tail(s)) : Tail(s)[i] = s[i + 1]
  OBVIOUS

\* a goroutine that leaves an entry behind has the others still
LEMMA HeldAfterTail ==
  ASSUME StreamInv, NEW p \in Procs, batch[p] # <<>>,
         batch' = [batch EXCEPT ![p] = Tail(batch[p])]
  PROVE  /\ \A m \in Messages : HeldBy(p, m)' <=> HeldBy(p, m) /\ m # Redis!Current(p)
         /\ \A q \in Procs \ {p} : batch'[q] = batch[q]
<1>1. batch[p] \in Seq(Messages) /\ batch'[p] = Tail(batch[p])
      /\ \A q \in Procs \ {p} : batch'[q] = batch[q]
  BY DEF StreamInv, RedisInv, RedisType
<1> DEFINE s == batch[p]
<1>2. /\ 1 \in 1..Len(s) /\ Redis!Current(p) = s[1] /\ Len(Tail(s)) = Len(s) - 1
      /\ \A i \in 1..Len(Tail(s)) : Tail(s)[i] = s[i + 1]
      /\ Len(s) \in Nat
  BY <1>1, TailEntries DEF Redis!Current
<1>3. \A i, j \in 1..Len(s) : s[i] = s[j] => i = j
  BY DEF StreamInv, Places
<1> HIDE DEF s
<1>4. ASSUME NEW m \in Messages, NEW i \in 1..Len(s), s[i] = m, m # s[1]
      PROVE  \E j \in 1..Len(Tail(s)) : Tail(s)[j] = m
  <2>1. i - 1 \in 1..Len(Tail(s)) /\ (i - 1) + 1 = i
    BY <1>2, <1>4
  <2> QED
    BY <1>2, <1>4, <2>1
<1>5. ASSUME NEW m \in Messages, NEW j \in 1..Len(Tail(s)), Tail(s)[j] = m
      PROVE  (\E i \in 1..Len(s) : s[i] = m) /\ m # s[1]
  <2>1. j + 1 \in 1..Len(s) /\ j + 1 # 1 /\ s[j + 1] = m
    BY <1>2, <1>5
  <2> QED
    BY <1>2, <1>3, <2>1
<1>6. ASSUME NEW m \in Messages
      PROVE  (\E j \in 1..Len(Tail(s)) : Tail(s)[j] = m)
                <=> (\E i \in 1..Len(s) : s[i] = m) /\ m # s[1]
  BY <1>4, <1>5
<1>7. ASSUME NEW m \in Messages
      PROVE  /\ HeldBy(p, m) <=> \E i \in 1..Len(s) : s[i] = m
             /\ HeldBy(p, m)' <=> \E j \in 1..Len(Tail(s)) : Tail(s)[j] = m
  BY <1>1 DEF HeldBy, s
<1> QED
  BY <1>1, <1>2, <1>6, <1>7

LEMMA PlacesAfterTail ==
  ASSUME StreamInv, NEW p \in Procs, proc[p] \in {"acking", "backoff"}, Redis!NextEntry(p),
         UNCHANGED <<published, fresh, verdict>>
  PROVE  Places'
<1>1. /\ batch' = [batch EXCEPT ![p] = Tail(batch[p])]
      /\ proc' = [proc EXCEPT ![p] = IF Len(batch[p]) = 1 THEN "idle" ELSE "handling"]
      /\ batch[p] \in Seq(Messages) /\ batch[p] # <<>>
  BY DEF Redis!NextEntry, Redis!Goto, StreamInv, RedisInv, RedisType, Dispatching
<1>2. /\ \A m \in Messages : HeldBy(p, m)' <=> HeldBy(p, m) /\ m # Redis!Current(p)
      /\ \A q \in Procs \ {p} : batch'[q] = batch[q]
  BY <1>1, HeldAfterTail
<1>3. /\ batch'[p] = Tail(batch[p]) /\ Len(Tail(batch[p])) = Len(batch[p]) - 1
      /\ Len(batch[p]) \in Nat
      /\ \A i \in 1..Len(Tail(batch[p])) : Tail(batch[p])[i] = batch[p][i + 1]
  BY <1>1, TailEntries DEF StreamInv, RedisInv, RedisType
<1>4. ASSUME NEW i \in 1..Len(batch'[p])
      PROVE  /\ batch'[p][i] \in published' /\ verdict'[batch'[p][i]] = "none"
             /\ \A k \in 1..Len(fresh) : fresh[k] # batch'[p][i]
             /\ \A j \in 1..Len(batch'[p]) : batch'[p][i] = batch'[p][j] => i = j
  <2>1. i + 1 \in 1..Len(batch[p]) /\ batch'[p][i] = batch[p][i + 1] /\ i + 1 # 1
    BY <1>3
  <2>2. ASSUME NEW j \in 1..Len(batch'[p]), batch'[p][i] = batch'[p][j] PROVE i = j
    <3>1. j + 1 \in 1..Len(batch[p]) /\ batch'[p][j] = batch[p][j + 1]
      BY <1>3
    <3>2. \A a, b \in 1..Len(batch[p]) : batch[p][a] = batch[p][b] => a = b
      BY DEF StreamInv, Places
    <3>3. i + 1 = j + 1
      BY <2>1, <2>2, <3>1, <3>2
    <3> QED
      BY <3>3
  <2> QED
    BY <2>1, <2>2 DEF StreamInv, Places
<1>5. \A q \in Procs : proc'[q] \in {"idle", "down"} => batch'[q] = <<>>
  BY <1>1, <1>2, <1>3 DEF StreamInv, Places, RedisInv, RedisType
<1>6. \A q, r \in Procs : \A m \in Messages : HeldBy(q, m)' /\ HeldBy(r, m)' => q = r
  BY <1>2 DEF StreamInv, Places, HeldBy
<1>7. ASSUME NEW q \in Procs \ {p} PROVE batch'[q] = batch[q] /\ proc'[q] = proc[q]
  BY <1>1, <1>2 DEF StreamInv, RedisInv, RedisType
<1> QED
  BY <1>4, <1>5, <1>6, <1>7 DEF StreamInv, Places

\* what the abstract queue sees of an entry
RedisState(m) ==
    IF verdict[m] # "none" THEN verdict[m]
    ELSE IF Redis!Held(m) THEN "held"
    ELSE IF Redis!Waiting(m) THEN "waiting"
    ELSE IF m \in published THEN "lost" ELSE "unsent"

RedisMoves(S, to) ==
    \A m \in Messages : RedisState(m)' = IF m \in S THEN to ELSE RedisState(m)

LEMMA RedisMove ==
  ASSUME NEW S, NEW to, RedisMoves(S, to) PROVE Redis!Promise!Move(S, to)
  BY DEF RedisMoves, RedisState, Redis!Promise!Move

LEMMA RedisStutter ==
  ASSUME RedisMoves({}, "held"), UNCHANGED attempts PROVE UNCHANGED Redis!Promise!vars
  BY DEF RedisMoves, RedisState, Redis!Promise!vars

LEMMA RedisInitImplements == Redis!Init => Places /\ Redis!Promise!Init
<1> SUFFICES ASSUME Redis!Init PROVE Places /\ Redis!Promise!Init
  OBVIOUS
<1>1. /\ fresh = <<>> /\ Len(fresh) = 0 /\ published = {}
      /\ \A p \in Procs : batch[p] = <<>> /\ Len(batch[p]) = 0
      /\ verdict = [m \in Messages |-> "none"] /\ attempts = [m \in Messages |-> 0]
  BY DEF Redis!Init
<1>2. \A i \in 1..Len(fresh) : FALSE
  BY <1>1
<1>3. \A p \in Procs : \A i \in 1..Len(batch[p]) : FALSE
  BY <1>1
<1>4. \A m \in Messages : ~Redis!Held(m) /\ ~Redis!Waiting(m)
  BY <1>2, <1>3 DEF Redis!Held, Redis!Waiting
<1> QED
  BY <1>1, <1>2, <1>3, <1>4 DEF Places, HeldBy, Redis!Promise!Init

LEMMA PublishImplements ==
  ASSUME StreamInv, NEW m \in Messages, Redis!Publish(m)
  PROVE  Places' /\ Redis!Promise!Publish(m)
<1>1. /\ fresh' = Append(fresh, m) /\ published' = published \cup {m} /\ m \notin published
      /\ UNCHANGED <<proc, batch, verdict, attempts>>
  BY DEF Redis!Publish
<1>2. /\ Len(fresh') = Len(fresh) + 1 /\ Len(fresh) \in Nat
      /\ fresh'[Len(fresh) + 1] = m
      /\ \A i \in 1..Len(fresh) : fresh'[i] = fresh[i]
  BY <1>1 DEF StreamInv, RedisInv, RedisType
<1>3. /\ \A i \in 1..Len(fresh) : fresh[i] # m
      /\ \A p \in Procs : \A i \in 1..Len(batch[p]) : batch[p][i] # m
  BY <1>1 DEF StreamInv, Places
<1>4. /\ \A x \in Messages : Redis!Waiting(x)' <=> Redis!Waiting(x) \/ x = m
      /\ \A x \in Messages : Redis!Held(x)' <=> Redis!Held(x)
      /\ ~Redis!Waiting(m) /\ ~Redis!Held(m)
  BY <1>1, <1>2, <1>3 DEF Redis!Waiting, Redis!Held
<1>5. verdict[m] = "none"
  BY <1>1 DEF StreamInv, Places
<1>6. Places'
  BY <1>1, <1>2, <1>3, <1>5 DEF StreamInv, Places, HeldBy
<1>7. RedisMoves({m}, "waiting")
  BY <1>1, <1>4, <1>5 DEF RedisMoves, RedisState
<1>8. Redis!Promise!Publish(m)
  BY <1>1, <1>4, <1>5, <1>7, RedisMove DEF Redis!Promise!Publish
<1> QED
  BY <1>6, <1>8

LEMMA ReadImplements ==
  ASSUME StreamInv, NEW p \in Procs, Redis!Read(p)
  PROVE  Places' /\ \E S \in SUBSET Messages : Redis!Promise!Take(S)
<1> DEFINE n == IF Len(fresh) < Count THEN Len(fresh) ELSE Count
           got == SubSeq(fresh, 1, n)
           rest == SubSeq(fresh, n + 1, Len(fresh))
<1>1. fresh \in Seq(Messages) /\ fresh # <<>> /\ n \in 1..Len(fresh) /\ Len(fresh) \in Nat
  BY QueueDriversAssumption DEF Redis!Read, StreamInv, RedisInv, RedisType
<1>2. /\ fresh' = rest /\ batch' = [batch EXCEPT ![p] = got] /\ batch[p] = <<>>
      /\ proc' = [proc EXCEPT ![p] = "reading"] /\ proc[p] = "idle"
      /\ UNCHANGED <<published, verdict, attempts>>
  BY DEF Redis!Read, Redis!Goto, StreamInv, Places
<1> HIDE DEF n
<1>3. Len(got) = n /\ \A i \in 1..n : got[i] = fresh[i]
  BY <1>1
<1>4. Len(rest) = Len(fresh) - n /\ \A i \in 1..(Len(fresh) - n) : rest[i] = fresh[n + i]
  BY <1>1
<1> HIDE DEF got, rest
<1>5. /\ batch'[p] = got /\ \A q \in Procs \ {p} : batch'[q] = batch[q]
      /\ proc'[p] = "reading" /\ \A q \in Procs \ {p} : proc'[q] = proc[q]
  BY <1>2 DEF StreamInv, RedisInv, RedisType
<1>6. PICK S \in SUBSET Messages : S = {fresh[i] : i \in 1..n}
  <2>1. \A i \in 1..n : i \in 1..Len(fresh)
    BY <1>1
  <2>2. \A i \in 1..n : fresh[i] \in Messages
    BY <1>1, <2>1
  <2>3. {fresh[i] : i \in 1..n} \in SUBSET Messages
    BY <2>2
  <2> QED
    BY <2>3
<1>7. \A i, j \in 1..Len(fresh) : fresh[i] = fresh[j] => i = j
  BY DEF StreamInv, Places
<1>8. ASSUME NEW j \in 1..Len(rest)
      PROVE  n + j \in 1..Len(fresh) /\ rest[j] = fresh[n + j] /\ rest[j] \notin S
  <2>1. n + j \in 1..Len(fresh) /\ rest[j] = fresh[n + j] /\ \A i \in 1..n : n + j # i
    BY <1>1, <1>4, <1>8
  <2>2. \A i \in 1..n : i \in 1..Len(fresh)
    BY <1>1
  <2> QED
    BY <1>6, <1>7, <2>1, <2>2
<1>9. ASSUME NEW i \in 1..Len(fresh), fresh[i] \notin S
      PROVE  \E j \in 1..Len(rest) : rest[j] = fresh[i]
  <2>1. ~(i <= n)
    BY <1>1, <1>6, <1>9
  <2>2. i - n \in 1..Len(rest) /\ rest[i - n] = fresh[n + (i - n)] /\ n + (i - n) = i
    BY <1>1, <1>4, <2>1
  <2> QED
    BY <2>2
<1>10. \A x \in Messages : Redis!Waiting(x)' <=> Redis!Waiting(x) /\ x \notin S
  BY <1>2, <1>8, <1>9 DEF Redis!Waiting
<1>11. \A x \in Messages : HeldBy(p, x)' <=> x \in S
  BY <1>3, <1>5, <1>6 DEF HeldBy
<1>12. \A x \in Messages : \A q \in Procs \ {p} : HeldBy(q, x)' <=> HeldBy(q, x)
  BY <1>5 DEF HeldBy
<1>13. \A x \in S : Redis!Waiting(x) /\ verdict[x] = "none"
                    /\ \A q \in Procs : ~HeldBy(q, x)
  BY <1>1, <1>6 DEF StreamInv, Places, HeldBy, Redis!Waiting
<1>14. \A x \in Messages : Redis!Held(x)' <=> Redis!Held(x) \/ x \in S
  <2>1. \A x \in Messages : ~HeldBy(p, x)
    BY <1>2 DEF HeldBy
  <2> QED
    BY <1>11, <1>12, <2>1 DEF Redis!Held, HeldBy
<1>15. RedisMoves(S, "held")
  BY <1>2, <1>10, <1>13, <1>14 DEF RedisMoves, RedisState
<1>16. \A x \in S : ~Redis!Held(x)
  BY <1>13 DEF Redis!Held, HeldBy
<1>17. Redis!Promise!Take(S)
  BY <1>2, <1>13, <1>15, <1>16, RedisMove DEF Redis!Promise!Take
<1>18. ASSUME NEW i \in 1..Len(got)
       PROVE  /\ got[i] \in published /\ verdict[got[i]] = "none"
              /\ \A k \in 1..Len(rest) : rest[k] # got[i]
              /\ \A j \in 1..Len(got) : got[i] = got[j] => i = j
  <2>1. i \in 1..Len(fresh) /\ got[i] = fresh[i] /\ got[i] \in S
    BY <1>1, <1>3, <1>6, <1>18
  <2>2. ASSUME NEW j \in 1..Len(got), got[i] = got[j] PROVE i = j
    BY <1>1, <1>3, <1>7, <2>1, <2>2
  <2> QED
    BY <1>8, <2>1, <2>2 DEF StreamInv, Places
<1>19. \A q \in Procs : \A i \in 1..Len(batch'[q]) :
          /\ batch'[q][i] \in published'
          /\ \A k \in 1..Len(fresh') : fresh'[k] # batch'[q][i]
          /\ verdict'[batch'[q][i]] # "none" => i = 1 /\ proc'[q] = "acking"
          /\ \A j \in 1..Len(batch'[q]) : batch'[q][i] = batch'[q][j] => i = j
  <2> SUFFICES ASSUME NEW q \in Procs, NEW i \in 1..Len(batch'[q])
               PROVE  /\ batch'[q][i] \in published
                      /\ \A k \in 1..Len(rest) : rest[k] # batch'[q][i]
                      /\ verdict[batch'[q][i]] # "none" => i = 1 /\ proc'[q] = "acking"
                      /\ \A j \in 1..Len(batch'[q]) : batch'[q][i] = batch'[q][j] => i = j
    BY <1>2
  <2>1. CASE q = p
    BY <1>5, <1>18, <2>1
  <2>2. CASE q # p
    BY <1>5, <1>8, <2>2 DEF StreamInv, Places
  <2> QED
    BY <2>1, <2>2
<1>20. \A i \in 1..Len(fresh') : fresh'[i] \in published' /\ verdict'[fresh'[i]] = "none"
  BY <1>2, <1>8 DEF StreamInv, Places
<1>21. \A i, j \in 1..Len(fresh') : fresh'[i] = fresh'[j] => i = j
  <2> SUFFICES ASSUME NEW i \in 1..Len(rest), NEW j \in 1..Len(rest), rest[i] = rest[j]
               PROVE  i = j
    BY <1>2
  <2>1. n + i = n + j
    BY <1>7, <1>8
  <2> QED
    BY <1>1, <2>1
<1>22. \A q, r \in Procs : \A m \in Messages : HeldBy(q, m)' /\ HeldBy(r, m)' => q = r
  BY <1>11, <1>12, <1>13 DEF StreamInv, Places
<1>23. \A q \in Procs : proc'[q] \in {"idle", "down"} => batch'[q] = <<>>
  BY <1>5 DEF StreamInv, Places
<1> QED
  BY <1>2, <1>17, <1>19, <1>20, <1>21, <1>22, <1>23 DEF StreamInv, Places

\* the stream, the batches and the verdicts are all the abstract queue sees
LEMMA NothingSeen ==
  ASSUME UNCHANGED <<published, fresh, batch, verdict, attempts>>
  PROVE  UNCHANGED Redis!Promise!vars
<1>1. RedisMoves({}, "held")
  BY DEF RedisMoves, RedisState, Redis!Held, Redis!Waiting
<1> QED
  BY <1>1, RedisStutter

LEMMA QuietImplements ==
  ASSUME StreamInv, NEW p \in Procs,
         Redis!StartProc(p) \/ Redis!Cancel(p) \/ Redis!ReplyArrives(p)
            \/ Redis!BackoffElapses(p)
  PROVE  Places' /\ UNCHANGED Redis!Promise!vars
<1>1. UNCHANGED <<published, fresh, batch, verdict, attempts>>
  BY DEF Redis!StartProc, Redis!Cancel, Redis!ReplyArrives, Redis!BackoffElapses, Redis!stream
<1>2. \/ proc' = proc
      \/ /\ proc[p] \in {"down", "reading", "backoff"}
         /\ \/ proc[p] = "down" /\ proc' = [proc EXCEPT ![p] = "idle"]
            \/ proc' = [proc EXCEPT ![p] = "handling"]
  BY DEF Redis!StartProc, Redis!Cancel, Redis!ReplyArrives, Redis!BackoffElapses, Redis!Goto
<1>3. Places'
  BY <1>1, <1>2 DEF StreamInv, RedisInv, RedisType, Places, HeldBy
<1> QED
  BY <1>1, <1>3, NothingSeen

LEMMA GoneImplements ==
  ASSUME StreamInv, NEW p \in Procs,
         Redis!ReplyLost(p) \/ Redis!ConsumerExits(p) \/ Redis!Crash(p)
  PROVE  Places' /\ \E S \in SUBSET Messages : Redis!Promise!Lose(S)
<1>1. /\ UNCHANGED <<published, fresh, verdict, attempts>>
      /\ batch' = [batch EXCEPT ![p] = <<>>]
      /\ \E where \in {"idle", "down"} : proc' = [proc EXCEPT ![p] = where]
  BY DEF Redis!ReplyLost, Redis!ConsumerExits, Redis!Crash, Redis!Gone, Redis!Goto, Redis!stream
<1>2. /\ batch'[p] = <<>> /\ Len(batch'[p]) = 0
      /\ \A q \in Procs \ {p} : batch'[q] = batch[q] /\ proc'[q] = proc[q]
  BY <1>1 DEF StreamInv, RedisInv, RedisType
<1>3. PICK S \in SUBSET Messages : S = {m \in Messages : HeldBy(p, m) /\ verdict[m] = "none"}
  OBVIOUS
<1>4. /\ \A m \in Messages : ~HeldBy(p, m)'
      /\ \A m \in Messages : \A q \in Procs \ {p} : HeldBy(q, m)' <=> HeldBy(q, m)
  BY <1>2 DEF HeldBy
<1>5. \A m \in Messages : Redis!Held(m)' <=> Redis!Held(m) /\ ~HeldBy(p, m)
  BY <1>4 DEF Redis!Held, HeldBy, StreamInv, Places
<1>6. \A m \in Messages : HeldBy(p, m) => /\ m \in published /\ ~Redis!Waiting(m)
                                          /\ Redis!Held(m)
  BY DEF HeldBy, StreamInv, Places, Redis!Waiting, Redis!Held
<1>7. \A m \in Messages : Redis!Waiting(m)' <=> Redis!Waiting(m)
  BY <1>1 DEF Redis!Waiting
<1>8. RedisMoves(S, "lost")
  BY <1>1, <1>3, <1>5, <1>6, <1>7 DEF RedisMoves, RedisState
<1>9. Redis!Promise!Lose(S)
  BY <1>1, <1>3, <1>6, <1>8, RedisMove DEF Redis!Promise!Lose
<1>10. Places'
  <2>1. \A i \in 1..Len(batch'[p]) : FALSE
    BY <1>2
  <2>2. \A q, r \in Procs : \A m \in Messages : HeldBy(q, m)' /\ HeldBy(r, m)' => q = r
    BY <1>4 DEF StreamInv, Places
  <2>3. \A q \in Procs : \A i \in 1..Len(batch'[q]) :
           q # p /\ batch'[q] = batch[q] /\ proc'[q] = proc[q] /\ i \in 1..Len(batch[q])
    BY <1>2, <2>1
  <2>4. \A q \in Procs : \A i \in 1..Len(batch'[q]) :
           /\ batch'[q][i] \in published /\ \A k \in 1..Len(fresh) : fresh[k] # batch'[q][i]
           /\ verdict[batch'[q][i]] # "none" => i = 1 /\ proc'[q] = "acking"
           /\ \A j \in 1..Len(batch'[q]) : batch'[q][i] = batch'[q][j] => i = j
    BY <2>3 DEF StreamInv, Places
  <2>5. \A q \in Procs : proc'[q] \in {"idle", "down"} => batch'[q] = <<>>
    BY <1>2 DEF StreamInv, Places
  <2> QED
    BY <1>1, <2>2, <2>4, <2>5 DEF StreamInv, Places
<1> QED
  BY <1>9, <1>10

LEMMA AttemptImplements ==
  ASSUME StreamInv, NEW p \in Procs, Redis!HandlerSucceeds(p) \/ Redis!HandlerFails(p)
  PROVE  Places' /\ \E m \in Messages : Redis!Promise!Succeed(m) \/ Redis!Promise!Fail(m)
<1>1. proc[p] = "handling" /\ UNCHANGED <<published, fresh, batch>>
  BY DEF Redis!HandlerSucceeds, Redis!HandlerFails, Redis!stream
<1>2. batch[p] \in Seq(Messages) /\ batch[p] # <<>>
  BY <1>1 DEF StreamInv, RedisInv, RedisType, Dispatching
<1>3. PICK m \in Messages : m = Redis!Current(p)
  BY <1>2 DEF Redis!Current
<1>4. 1 \in 1..Len(batch[p]) /\ batch[p][1] = m
  BY <1>2, <1>3, TailEntries DEF Redis!Current
<1>5. HeldBy(p, m) /\ verdict[m] = "none" /\ m \in published
  BY <1>1, <1>4 DEF HeldBy, StreamInv, Places
<1>6. Redis!Held(m)
  BY <1>4 DEF Redis!Held
<1>7. \A x \in Messages : /\ Redis!Waiting(x)' <=> Redis!Waiting(x)
                          /\ Redis!Held(x)' <=> Redis!Held(x)
  BY <1>1 DEF Redis!Waiting, Redis!Held
<1>8. ASSUME NEW f \in {"done", "dropped"}, verdict' = [verdict EXCEPT ![m] = f],
             proc' = [proc EXCEPT ![p] = "acking"]
      PROVE  Places' /\ RedisMoves({m}, f)
  <2>1. RedisMoves({m}, f)
    BY <1>1, <1>7, <1>8 DEF RedisMoves, RedisState, StreamInv, RedisInv, RedisType
  <2>2. \A q \in Procs : \A i \in 1..Len(batch[q]) : batch[q][i] = m => q = p /\ i = 1
    BY <1>3, <1>4, <1>5 DEF StreamInv, Places, HeldBy
  <2>3. \A i \in 1..Len(fresh) : fresh[i] # m
    BY <1>4 DEF StreamInv, Places
  <2>4. \A x \in Messages : x # m => verdict'[x] = verdict[x]
    BY <1>8 DEF StreamInv, RedisInv, RedisType
  <2>5. proc'[p] = "acking" /\ \A q \in Procs \ {p} : proc'[q] = proc[q]
    BY <1>8 DEF StreamInv, RedisInv, RedisType
  <2>6. \A q \in Procs : \A i \in 1..Len(batch[q]) : batch[q][i] \in Messages
    BY DEF StreamInv, RedisInv, RedisType
  <2>7. \A i \in 1..Len(fresh) : fresh[i] \in Messages
    BY DEF StreamInv, RedisInv, RedisType
  <2>8. \A i \in 1..Len(fresh') : fresh'[i] \in published' /\ verdict'[fresh'[i]] = "none"
    BY <1>1, <2>3, <2>4, <2>7 DEF StreamInv, Places
  <2>9. \A q \in Procs : \A i \in 1..Len(batch'[q]) :
           /\ batch'[q][i] \in published' /\ \A k \in 1..Len(fresh') : fresh'[k] # batch'[q][i]
           /\ verdict'[batch'[q][i]] # "none" => i = 1 /\ proc'[q] = "acking"
           /\ \A j \in 1..Len(batch'[q]) : batch'[q][i] = batch'[q][j] => i = j
    BY <1>1, <2>2, <2>4, <2>5, <2>6 DEF StreamInv, Places
  <2>10. \A q, s \in Procs : \A x \in Messages : HeldBy(q, x)' /\ HeldBy(s, x)' => q = s
    BY <1>1 DEF StreamInv, Places, HeldBy
  <2>11. \A q \in Procs : proc'[q] \in {"idle", "down"} => batch'[q] = <<>>
    BY <1>1, <2>5 DEF StreamInv, Places
  <2>12. \A x \in Messages \ published' : verdict'[x] = "none"
    BY <1>1, <1>5, <2>4 DEF StreamInv, Places
  <2>13. Places'
    BY <1>1, <2>8, <2>9, <2>10, <2>11, <2>12 DEF StreamInv, Places
  <2> QED
    BY <2>1, <2>13
<1>9. CASE Redis!HandlerSucceeds(p)
  <2>1. Places' /\ RedisMoves({m}, "done")
    BY <1>3, <1>8, <1>9 DEF Redis!HandlerSucceeds, Redis!Goto
  <2>2. Redis!Promise!Succeed(m)
    BY <1>3, <1>5, <1>6, <1>9, <2>1, RedisMove
       DEF Redis!HandlerSucceeds, Redis!Promise!Succeed, Redis!Promise!Attempt
  <2> QED
    BY <2>1, <2>2
<1>10. CASE Redis!HandlerFails(p)
  <2>1. ASSUME attempts[m] + 1 >= MaxAttempts PROVE Places' /\ Redis!Promise!Fail(m)
    <3>1. Places' /\ RedisMoves({m}, "dropped")
      BY <1>3, <1>8, <1>10, <2>1 DEF Redis!HandlerFails, Redis!Goto
    <3> QED
      BY <1>3, <1>5, <1>6, <1>10, <2>1, <3>1, RedisMove
         DEF Redis!HandlerFails, Redis!Promise!Fail, Redis!Promise!Attempt
  <2>2. ASSUME ~(attempts[m] + 1 >= MaxAttempts) PROVE Places' /\ Redis!Promise!Fail(m)
    <3>1. verdict' = verdict /\ proc' = [proc EXCEPT ![p] = "backoff"]
      BY <1>3, <1>10, <2>2 DEF Redis!HandlerFails, Redis!Goto
    <3>2. Places'
      BY <1>1, <3>1 DEF StreamInv, RedisInv, RedisType, Places, HeldBy
    <3>3. \A x \in Messages : RedisState(x)' = RedisState(x)
      BY <1>1, <1>7, <3>1 DEF RedisState
    <3> QED
      BY <1>3, <1>5, <1>6, <1>10, <2>2, <3>2, <3>3
         DEF Redis!HandlerFails, Redis!Promise!Fail, Redis!Promise!Attempt, RedisState
  <2> QED
    BY <2>1, <2>2
<1> QED
  BY <1>9, <1>10

LEMMA LeaveImplements ==
  ASSUME StreamInv, NEW p \in Procs,
         Redis!Ack(p) \/ Redis!AckFails(p) \/ Redis!BackoffInterrupted(p)
  PROVE  Places' /\ \/ UNCHANGED Redis!Promise!vars
                    \/ \E S \in SUBSET Messages : Redis!Promise!Lose(S)
<1>1. /\ proc[p] \in {"acking", "backoff"} /\ Redis!NextEntry(p)
      /\ UNCHANGED <<published, fresh, verdict, attempts>>
  BY DEF Redis!Ack, Redis!AckFails, Redis!BackoffInterrupted, Redis!stream
<1>2. Places'
  BY <1>1, PlacesAfterTail
<1>3. /\ batch[p] \in Seq(Messages) /\ batch[p] # <<>>
      /\ proc[p] = "acking" => verdict[Redis!Current(p)] # "none"
  BY <1>1 DEF StreamInv, RedisInv, RedisType, Dispatching
<1>4. PICK m \in Messages : m = Redis!Current(p)
  BY <1>3 DEF Redis!Current
<1>5. 1 \in 1..Len(batch[p]) /\ batch[p][1] = m
  BY <1>3, <1>4, TailEntries DEF Redis!Current
<1>6. HeldBy(p, m) /\ m \in published /\ ~Redis!Waiting(m) /\ Redis!Held(m)
  BY <1>5 DEF HeldBy, StreamInv, Places, Redis!Waiting, Redis!Held
<1>7. \A x \in Messages : Redis!Held(x)' <=> Redis!Held(x) /\ x # m
  <2>1. /\ \A x \in Messages : HeldBy(p, x)' <=> HeldBy(p, x) /\ x # m
        /\ \A q \in Procs \ {p} : batch'[q] = batch[q]
    BY <1>1, <1>3, <1>4, HeldAfterTail DEF Redis!NextEntry
  <2>2. ASSUME NEW x \in Messages, NEW q \in Procs \ {p}
        PROVE  HeldBy(q, x)' <=> HeldBy(q, x) /\ x # m
    <3>1. ~HeldBy(q, m)
      BY <1>6 DEF StreamInv, Places
    <3>2. HeldBy(q, x)' <=> HeldBy(q, x)
      BY <2>1 DEF HeldBy
    <3> QED
      BY <3>1, <3>2
  <2>3. \A x \in Messages : /\ Redis!Held(x) <=> \E q \in Procs : HeldBy(q, x)
                            /\ Redis!Held(x)' <=> \E q \in Procs : HeldBy(q, x)'
    BY DEF Redis!Held, HeldBy
  <2> QED
    BY <2>1, <2>2, <2>3
<1>8. \A x \in Messages : Redis!Waiting(x)' <=> Redis!Waiting(x)
  BY <1>1 DEF Redis!Waiting
<1>9. CASE verdict[m] # "none"
  <2>1. RedisMoves({}, "held")
    BY <1>1, <1>7, <1>8, <1>9 DEF RedisMoves, RedisState
  <2> QED
    BY <1>1, <1>2, <2>1, RedisStutter
<1>10. CASE verdict[m] = "none"
  <2>1. RedisMoves({m}, "lost")
    BY <1>1, <1>6, <1>7, <1>8, <1>10 DEF RedisMoves, RedisState
  <2>2. Redis!Promise!Lose({m})
    BY <1>1, <1>6, <1>10, <2>1, RedisMove DEF Redis!Promise!Lose
  <2> QED
    BY <1>2, <2>2
<1> QED
  BY <1>9, <1>10

LEMMA RedisStepImplements ==
  StreamInv /\ [Redis!Next]_redisVars
     => Places' /\ [Redis!Promise!Next]_(Redis!Promise!vars)
<1> DEFINE Implements == Places' /\ [Redis!Promise!Next]_(Redis!Promise!vars)
<1> SUFFICES ASSUME StreamInv, [Redis!Next]_redisVars PROVE Implements
  OBVIOUS
<1>1. ASSUME NEW S \in SUBSET Messages, Redis!Promise!Take(S) \/ Redis!Promise!Lose(S)
      PROVE  Redis!Promise!Next
  BY <1>1 DEF Redis!Promise!Next
<1>2. ASSUME NEW m \in Messages,
             \/ Redis!Promise!Publish(m) \/ Redis!Promise!Succeed(m) \/ Redis!Promise!Fail(m)
      PROVE  Redis!Promise!Next
  BY <1>2 DEF Redis!Promise!Next
<1>3. ASSUME NEW m \in Messages, Redis!Publish(m) PROVE Implements
  BY <1>2, <1>3, PublishImplements
<1>4. ASSUME NEW p \in Procs, Redis!Step(p) PROVE Implements
  <2>1. CASE Redis!Read(p)
    BY <1>1, <2>1, ReadImplements
  <2>2. CASE Redis!StartProc(p) \/ Redis!Cancel(p) \/ Redis!ReplyArrives(p)
                \/ Redis!BackoffElapses(p)
    BY <2>2, QuietImplements
  <2>3. CASE Redis!ReplyLost(p) \/ Redis!ConsumerExits(p) \/ Redis!Crash(p)
    BY <1>1, <2>3, GoneImplements
  <2>4. CASE Redis!HandlerSucceeds(p) \/ Redis!HandlerFails(p)
    BY <1>2, <2>4, AttemptImplements
  <2>5. CASE Redis!Ack(p) \/ Redis!AckFails(p) \/ Redis!BackoffInterrupted(p)
    BY <1>1, <2>5, LeaveImplements
  <2> QED
    BY <1>4, <2>1, <2>2, <2>3, <2>4, <2>5 DEF Redis!Step
<1>5. CASE UNCHANGED redisVars
  <2>1. UNCHANGED <<published, fresh, proc, batch, verdict, attempts>>
    BY <1>5 DEF redisVars
  <2>2. Places'
    BY <2>1 DEF StreamInv, Places, HeldBy
  <2> QED
    BY <2>1, <2>2, NothingSeen
<1> HIDE DEF Implements
<1> QED
  BY <1>3, <1>4, <1>5 DEF Redis!Next

\* the queue over a stream implements the abstract one, durable: a stop, a crash or
\* a lost reply loses what that process held, never an entry that waits
THEOREM RedisImplements == Spec => Redis!ImplementsJobQueue
<1>1. Init => StreamInv /\ Redis!Promise!Init
  BY RedisInitInv, RedisInitImplements DEF Init, StreamInv
<1>2. StreamInv /\ [Next]_vars => StreamInv' /\ [Redis!Promise!Next]_(Redis!Promise!vars)
  <2> SUFFICES ASSUME StreamInv, [Next]_vars
               PROVE  StreamInv' /\ [Redis!Promise!Next]_(Redis!Promise!vars)
    OBVIOUS
  <2>1. [Redis!Next]_redisVars
    BY DEF Next, vars
  <2> QED
    BY <2>1, RedisStep, RedisStepImplements DEF StreamInv
<1> QED
  BY <1>1, <1>2, PTL DEF Spec, Redis!ImplementsJobQueue, Redis!Promise!Spec

\* both drivers implement the abstract queue
THEOREM DriversImplement == Spec => DriversImplementJobQueue
  BY MemoryImplements, RedisImplements DEF DriversImplementJobQueue
=============================================================================
