--------------------------- MODULE RequestsProofs ---------------------------
(***************************************************************************)
(* Requests: no request is lost, evaluated twice at a time, answered twice *)
(* or retried without a change to pay for it, and the specification is one *)
(* of RequestService; for any requests, threads and bounds.                *)
(***************************************************************************)
EXTENDS Requests, TLAPS

(***************************************************************************)
(* Facts about the channel into the main thread, when a task is sent and   *)
(* when one is received.                                                   *)
(***************************************************************************)
LEMMA HeadTail ==
  ASSUME NEW S, NEW s \in Seq(S), s # <<>>
  PROVE  /\ Head(s) \in S /\ Tail(s) \in Seq(S)
         /\ Len(Tail(s)) = Len(s) - 1 /\ Len(s) \in Nat \ {0}
         /\ Head(s) = s[1]
         /\ \A i \in 1..Len(s) - 1 : Tail(s)[i] = s[i + 1]
  OBVIOUS

(***************************************************************************)
(* A task that is sent is the last message about its request.              *)
(***************************************************************************)
LEMMA MessagesAppend ==
  ASSUME tasks \in Seq(Task), NEW t \in Task, NEW r \in RequestIds,
         tasks' = Append(tasks, t)
  PROVE  /\ tasks' \in Seq(Task)
         /\ Messages(r)' = IF IsAbout(t, r) THEN Messages(r) \cup {Len(tasks) + 1}
                                            ELSE Messages(r)
         /\ tasks'[Len(tasks) + 1] = t
         /\ \A i \in Messages(r) : tasks'[i] = tasks[i]
<1> HIDE DEF Task
<1>1. /\ tasks' \in Seq(Task) /\ Len(tasks) \in Nat
      /\ DOMAIN tasks = 1..Len(tasks) /\ DOMAIN tasks' = 1..Len(tasks) + 1
      /\ tasks'[Len(tasks) + 1] = t
      /\ \A i \in 1..Len(tasks) : tasks'[i] = tasks[i]
  OBVIOUS
<1>2. \A i : i \in 1..Len(tasks) + 1 <=> (i \in 1..Len(tasks) \/ i = Len(tasks) + 1)
  BY <1>1
<1>3. \A i : i \in Messages(r)' <=>
               (i \in Messages(r) \/ (i = Len(tasks) + 1 /\ IsAbout(t, r)))
  BY <1>1, <1>2 DEF Messages, IsAbout
<1> QED
  BY <1>1, <1>3 DEF Messages

(***************************************************************************)
(* The task that is received was the first.                                *)
(***************************************************************************)
LEMMA MessagesTail ==
  ASSUME tasks \in Seq(Task), tasks # <<>>, NEW r \in RequestIds,
         tasks' = Tail(tasks)
  PROVE  /\ tasks' \in Seq(Task) /\ Head(tasks) \in Task /\ Head(tasks) = tasks[1]
         /\ IsAbout(Head(tasks), r) <=> 1 \in Messages(r)
         /\ Messages(r) \subseteq Nat \ {0}
         /\ \A i \in Messages(r)' : i \in Nat \ {0} /\ i + 1 \in Messages(r)
                                    /\ tasks'[i] = tasks[i + 1]
         /\ \A i \in Messages(r) : i # 1 => i - 1 \in Messages(r)'
<1> HIDE DEF Task
<1>1. /\ tasks' \in Seq(Task) /\ Head(tasks) \in Task /\ Head(tasks) = tasks[1]
      /\ Len(tasks) \in Nat \ {0}
      /\ DOMAIN tasks = 1..Len(tasks) /\ DOMAIN tasks' = 1..Len(tasks) - 1
      /\ \A i \in 1..Len(tasks) - 1 : tasks'[i] = tasks[i + 1]
  BY HeadTail
<1>2. IsAbout(Head(tasks), r) <=> 1 \in Messages(r)
  BY <1>1 DEF Messages
<1>3. Messages(r) \subseteq Nat \ {0}
  BY <1>1 DEF Messages
<1>4. ASSUME NEW i \in Messages(r)'
      PROVE  i \in Nat \ {0} /\ i + 1 \in Messages(r) /\ tasks'[i] = tasks[i + 1]
  <2>1. i \in 1..Len(tasks) - 1 /\ IsAbout(tasks'[i], r)
    BY <1>1, <1>4 DEF Messages
  <2>2. i + 1 \in 1..Len(tasks) /\ i \in Nat \ {0} /\ tasks'[i] = tasks[i + 1]
    BY <1>1, <2>1
  <2> QED
    BY <1>1, <2>1, <2>2 DEF Messages
<1>5. ASSUME NEW i \in Messages(r), i # 1
      PROVE  i - 1 \in Messages(r)'
  <2>1. i \in 1..Len(tasks) /\ IsAbout(tasks[i], r)
    BY <1>1 DEF Messages
  <2>2. i - 1 \in 1..Len(tasks) - 1 /\ (i - 1) + 1 = i
    BY <1>1, <1>5, <2>1
  <2>3. tasks'[i - 1] = tasks[i]
    BY <1>1, <2>2
  <2> QED
    BY <1>1, <2>1, <2>2, <2>3 DEF Messages
<1> QED
  BY <1>1, <1>2, <1>3, <1>4, <1>5

(***************************************************************************)
(* At first no request has been received.                                  *)
(***************************************************************************)
LEMMA InitInvariant == Init => IInv
<1> SUFFICES ASSUME Init PROVE IInv
  OBVIOUS
<1> USE BoundsAssumption DEF Init
<1>1. NoJob \in Job /\ 0 \in Rev
  BY DEF NoJob, At, NoResult, Job, Result, Rev, Outcome
<1>2. tasks \in Seq(Task) /\ answers \in [RequestIds -> Seq(Result)]
  OBVIOUS
<1>3. TypeOK
  BY <1>1, <1>2 DEF TypeOK
<1>4. \A r \in RequestIds : Messages(r) = {} /\ ~InPool(r)
  BY DEF Messages, InPool, NoJob, At
<1>5. OneOwner /\ AnsweredOnce /\ RevIsCounted /\ RetriesBounded
  BY <1>4 DEF OneOwner, AnsweredOnce, Received, RevIsCounted, RetriesBounded
<1>6. RetryIsPaid
  BY <1>4 DEF RetryIsPaid, ToBeRetried, NoJob, At
<1> QED
  BY <1>3, <1>5, <1>6 DEF IInv

(***************************************************************************)
(* What a step that leaves requests, jobs and tasks alone leaves alone.    *)
(***************************************************************************)
LEMMA RequestsUntouched ==
  ASSUME IInv, UNCHANGED <<incoming, method, answers, retries, jobs, tasks>>,
         applies' \in Nat, applies <= applies',
         main = "apply" => main' = "apply" \/ applies < applies'
  PROVE  OneOwner' /\ AnsweredOnce' /\ RetriesBounded' /\ RetryIsPaid'
<1> USE DEF IInv
<1>1. \A r \in RequestIds : /\ Messages(r)' = Messages(r) /\ (InPool(r))' = InPool(r)
                            /\ (ToBeRetried(r))' = ToBeRetried(r)
  BY DEF Messages, InPool, ToBeRetried
<1>2. OneOwner' /\ AnsweredOnce'
  BY <1>1 DEF OneOwner, AnsweredOnce, Received
<1>3. \A r \in RequestIds : retries[r] \in Nat /\ applies \in Nat
  BY DEF TypeOK
<1>4. RetriesBounded' /\ RetryIsPaid'
  BY <1>1, <1>3 DEF RetriesBounded, RetryIsPaid
<1> QED
  BY <1>2, <1>4

(***************************************************************************)
(* A new request is registered and goes to the pool.                       *)
(***************************************************************************)
LEMMA ReceiveRequestStep ==
  ASSUME IInv, NEW r \in RequestIds, NEW m \in Method, ReceiveRequest(r, m)
  PROVE  IInv'
<1> USE DEF IInv, ReceiveRequest, poolVars, dbVars, counters
<1>1. TypeOK'
  <2>1. Queued \in Job
    BY BoundsAssumption DEF Queued, At, NoResult, Job, Result, Rev, Outcome
  <2> QED
    BY <2>1 DEF TypeOK
<1>2. RevIsCounted'
  BY DEF RevIsCounted
<1>3. /\ r \notin incoming /\ ~InPool(r) /\ Messages(r) = {} /\ answers[r] = <<>>
  BY DEF AnsweredOnce, Received, OneOwner
<1>4. /\ jobs'[r] = Queued /\ method'[r] = m /\ m # "none"
      /\ \A q \in RequestIds : q # r => jobs'[q] = jobs[q] /\ method'[q] = method[q]
  BY DEF TypeOK, Method
<1>5. \A q \in RequestIds : Messages(q)' = Messages(q)
  BY DEF Messages
<1>6. OneOwner'
  BY <1>3, <1>4, <1>5 DEF OneOwner, InPool, Queued, At
<1>7. AnsweredOnce'
  BY <1>3, <1>4 DEF AnsweredOnce, Received
<1>8. RetriesBounded'
  BY DEF RetriesBounded
<1>9. RetryIsPaid'
  <2>1. ASSUME NEW q \in RequestIds, ToBeRetried(q)' PROVE ToBeRetried(q)
    BY <2>1, <1>3, <1>4, <1>5 DEF ToBeRetried, Queued, At
  <2> QED
    BY <2>1 DEF RetryIsPaid
<1> QED
  BY <1>1, <1>2, <1>6, <1>7, <1>8, <1>9

(***************************************************************************)
(* The steps of the client and of the main thread that touch no request.   *)
(***************************************************************************)
LEMMA OtherMainStep ==
  ASSUME IInv,
         \/ \E kind \in {"Create", "Update"} : ReceiveChange(kind)
         \/ \E b \in Bazel : StartBackground(b)
         \/ Shutdown \/ Drained \/ ProcessChanges
  PROVE  IInv'
<1> USE BoundsAssumption DEF IInv, mainVars, poolVars, dbVars, counters
<1>1. ASSUME NEW kind \in {"Create", "Update"}, ReceiveChange(kind)
      PROVE  IInv'
  <2>1. TypeOK' /\ RevIsCounted'
    BY <1>1 DEF ReceiveChange, TypeOK, RevIsCounted
  <2>2. OneOwner' /\ AnsweredOnce' /\ RetriesBounded' /\ RetryIsPaid'
    BY <1>1, RequestsUntouched DEF ReceiveChange, TypeOK
  <2> QED
    BY <2>1, <2>2
<1>2. ASSUME NEW b \in Bazel, StartBackground(b)
      PROVE  IInv'
  <2>0. background' \in [Bazel -> [queued : Nat, running : Nat]]
    <3> DEFINE e == [queued |-> background[b].queued + 1, running |-> background[b].running]
    <3>1. background \in [Bazel -> [queued : Nat, running : Nat]]
      BY DEF TypeOK
    <3>2. [background[b] EXCEPT !.queued = background[b].queued + 1] = e
      BY <3>1
    <3>3. e \in [queued : Nat, running : Nat]
      BY <3>1
    <3>4. background' = [background EXCEPT ![b] = e]
      BY <1>2, <3>2 DEF StartBackground
    <3> HIDE DEF e
    <3> QED
      BY <3>1, <3>3, <3>4
  <2>1. /\ started \in Nat /\ started' = started + 1 /\ busy' \in SUBSET Bazel
        /\ main = "select" /\ main' = "process" /\ applies \in Nat
        /\ UNCHANGED <<incoming, method, answers, retries, jobs, tasks, change, force,
                      rev, created, applies, changes>>
    BY <1>2 DEF StartBackground, TypeOK
  <2>2. TypeOK'
    BY <2>0, <2>1 DEF TypeOK
  <2>3. RevIsCounted'
    BY <2>1 DEF RevIsCounted
  <2>4. OneOwner' /\ AnsweredOnce' /\ RetriesBounded' /\ RetryIsPaid'
    <3> HIDE DEF IInv, mainVars, poolVars, dbVars, counters
    <3> QED
      BY <2>1, RequestsUntouched
  <2> QED
    BY <2>2, <2>3, <2>4
<1>3. CASE Shutdown \/ Drained \/ ProcessChanges
  <2>1. TypeOK' /\ RevIsCounted'
    BY <1>3 DEF Shutdown, Drained, ProcessChanges, TypeOK, RevIsCounted
  <2>2. OneOwner' /\ AnsweredOnce' /\ RetriesBounded' /\ RetryIsPaid'
    BY <1>3, RequestsUntouched DEF Shutdown, Drained, ProcessChanges, TypeOK
  <2> QED
    BY <2>1, <2>2
<1> QED
  BY <1>1, <1>2, <1>3

(***************************************************************************)
(* Applying a change makes a text of it and pays for the retries to come.  *)
(***************************************************************************)
LEMMA ApplyChangeStep ==
  ASSUME IInv, ApplyChange
  PROVE  IInv'
<1>1. /\ rev' = (IF change = "none" THEN rev ELSE rev + 1)
      /\ change' = "none" /\ force' = FALSE /\ applies' = applies + 1 /\ main' = "select"
      /\ UNCHANGED <<incoming, method, answers, retries, jobs, busy, background,
                     tasks, changes, started>>
  BY DEF ApplyChange, mainVars, poolVars, counters
<1>2. rev \in Nat /\ changes \in Nat /\ MaxChanges \in Nat /\ applies \in Nat
  BY BoundsAssumption DEF IInv, TypeOK
<1>3. rev + (IF change = "none" THEN 0 ELSE 1) <= changes /\ changes <= MaxChanges
  BY DEF IInv, RevIsCounted
<1>4. /\ rev' \in Nat /\ rev' <= changes
      /\ created' \in SUBSET Nat
  <2>1. rev' \in Nat /\ rev' <= changes
    BY <1>1, <1>2, <1>3
  <2> QED
    BY <2>1 DEF ApplyChange, IInv, TypeOK
<1>5. RevIsCounted'
  BY <1>1, <1>2, <1>3, <1>4 DEF RevIsCounted
<1>6. applies' \in Nat /\ applies < applies' /\ applies <= applies'
  BY <1>1, <1>2
<1>7. TypeOK'
  BY <1>1, <1>4, <1>6 DEF IInv, TypeOK
<1>8. OneOwner' /\ AnsweredOnce' /\ RetriesBounded' /\ RetryIsPaid'
  BY <1>1, <1>6, RequestsUntouched
<1> QED
  BY <1>5, <1>7, <1>8 DEF IInv

(***************************************************************************)
(* Receiving a task takes it from its request: the only message about it,  *)
(* while nothing of the request is in the pool.                            *)
(***************************************************************************)
LEMMA TakesItsMessage ==
  ASSUME IInv, tasks # <<>>, tasks' = Tail(tasks), NEW r \in RequestIds
  PROVE  /\ IsAbout(Head(tasks), r) =>
              r \in incoming /\ ~InPool(r) /\ Messages(r)' = {}
         /\ ~IsAbout(Head(tasks), r) =>
              /\ Messages(r) = {} <=> Messages(r)' = {}
              /\ r \in incoming => \A i, k \in Messages(r)' : i = k
         /\ \A i \in Messages(r)' : \E k \in Messages(r) : tasks'[i] = tasks[k]
<1> USE DEF IInv
<1>1. /\ IsAbout(Head(tasks), r) <=> 1 \in Messages(r)
      /\ Messages(r) \subseteq Nat \ {0}
      /\ \A i \in Messages(r)' : i \in Nat \ {0} /\ i + 1 \in Messages(r)
                                    /\ tasks'[i] = tasks[i + 1]
      /\ \A i \in Messages(r) : i # 1 => i - 1 \in Messages(r)'
  BY MessagesTail DEF TypeOK
<1>2. CASE IsAbout(Head(tasks), r)
  <2>1. r \in incoming /\ ~InPool(r) /\ \A i, k \in Messages(r) : i = k
    BY <1>1, <1>2 DEF OneOwner
  <2>2. \A i \in Messages(r) : i = 1
    BY <2>1, <1>1, <1>2
  <2>3. Messages(r)' = {}
    <3> SUFFICES ASSUME NEW i \in Messages(r)' PROVE FALSE
      OBVIOUS
    <3> QED
      BY <1>1, <2>2
  <2> QED
    BY <1>1, <1>2, <2>1, <2>3
<1>3. CASE ~IsAbout(Head(tasks), r)
  <2>1. 1 \notin Messages(r)
    BY <1>1, <1>3
  <2>2. Messages(r) = {} <=> Messages(r)' = {}
    BY <1>1, <2>1
  <2>3. ASSUME r \in incoming, NEW i \in Messages(r)', NEW k \in Messages(r)'
        PROVE  i = k
    <3>1. i + 1 = k + 1
      BY <1>1, <2>3 DEF OneOwner
    <3> QED
      BY <1>1, <3>1
  <2> QED
    BY <1>1, <1>3, <2>2, <2>3
<1> QED
  BY <1>2, <1>3

(***************************************************************************)
(* Task::ResponseReady.                                                    *)
(***************************************************************************)
LEMMA RespondStep ==
  ASSUME IInv, HandleTask, Respond(Head(tasks))
  PROVE  IInv'
<1> USE DEF IInv, poolVars, counters
<1> DEFINE t == Head(tasks)
<1>1. t \in Task /\ t.kind = "ResponseReady" /\ tasks # <<>> /\ tasks' = Tail(tasks)
      /\ tasks' \in Seq(Task)
  BY HeadTail DEF HandleTask, Respond, TypeOK
<1>2. t.id \in RequestIds /\ t.result \in Result
  BY <1>1 DEF Task
<1>3. \A r \in RequestIds : IsAbout(t, r) <=> t.id = r
  BY <1>1 DEF IsAbout
<1> HIDE DEF t
<1>4. /\ incoming' = incoming \ {t.id}
      /\ answers' = [answers EXCEPT ![t.id] =
                       IF t.id \in incoming THEN Append(@, t.result) ELSE @]
      /\ UNCHANGED <<method, jobs, busy, background, retries, force,
                     change, rev, created, applies, changes, started>>
      /\ main' = "drain" /\ main \in {"select", "drain"}
  BY DEF t, HandleTask, Respond
<1>5. t.id \in incoming /\ answers[t.id] = <<>> /\ Received(t.id)
  BY <1>1, <1>2, <1>3, TakesItsMessage DEF t, AnsweredOnce
<1>6. /\ answers'[t.id] = <<t.result>>
      /\ \A r \in RequestIds : r # t.id => answers'[r] = answers[r]
  BY <1>2, <1>4, <1>5 DEF TypeOK
<1>7. answers' \in [RequestIds -> Seq(Result)]
  <2>1. <<t.result>> \in Seq(Result) /\ answers \in [RequestIds -> Seq(Result)]
    BY <1>2 DEF TypeOK
  <2>2. answers' = [answers EXCEPT ![t.id] = <<t.result>>]
    BY <1>4, <1>5, <1>2, <2>1
  <2> HIDE DEF Result
  <2> QED
    BY <2>1, <2>2
<1>8. TypeOK'
  BY <1>1, <1>4, <1>7 DEF TypeOK
<1>9. RevIsCounted'
  BY <1>4 DEF RevIsCounted
<1>10. \A r \in RequestIds : InPool(r)' = InPool(r) /\ Received(r)' = Received(r)
  BY <1>4 DEF InPool, Received
<1>11. OneOwner'
  <2> SUFFICES ASSUME NEW r \in RequestIds
               PROVE  IF r \in incoming'
                      THEN /\ \A i, k \in Messages(r)' : i = k
                           /\ InPool(r)' <=> Messages(r)' = {}
                      ELSE ~InPool(r)' /\ Messages(r)' = {}
    BY DEF OneOwner
  <2>1. CASE r = t.id
    BY <2>1, <1>1, <1>3, <1>4, <1>10, TakesItsMessage DEF t
  <2>2. CASE r # t.id
    <3>1. Messages(r) = {} <=> Messages(r)' = {}
      BY <2>2, <1>1, <1>3, TakesItsMessage DEF t
    <3>2. r \in incoming => \A i, k \in Messages(r)' : i = k
      BY <2>2, <1>1, <1>3, TakesItsMessage DEF t
    <3>3. r \in incoming' <=> r \in incoming
      BY <2>2, <1>4
    <3> QED
      BY <3>1, <3>2, <3>3, <1>10 DEF OneOwner
  <2> QED
    BY <2>1, <2>2
<1>12. AnsweredOnce'
  <2>1. Len(<<t.result>>) = 1
    OBVIOUS
  <2> QED
    BY <2>1, <1>4, <1>5, <1>6, <1>10 DEF AnsweredOnce
<1>13. RetriesBounded'
  BY <1>4 DEF RetriesBounded
<1>14. RetryIsPaid'
  <2>1. ASSUME NEW r \in RequestIds, ToBeRetried(r)' PROVE ToBeRetried(r)
    <3>1. \A i \in Messages(r)' : \E k \in Messages(r) : tasks'[i] = tasks[k]
      BY <1>1, TakesItsMessage
    <3>2. jobs' = jobs
      BY <1>4
    <3> QED
      BY <2>1, <3>1, <3>2 DEF ToBeRetried
  <2> QED
    BY <2>1, <1>4 DEF RetryIsPaid
<1> QED
  BY <1>8, <1>9, <1>11, <1>12, <1>13, <1>14

(***************************************************************************)
(* Task::Retry: the change that cancelled the request has been applied.    *)
(***************************************************************************)
LEMMA RetryStep ==
  ASSUME IInv, HandleTask, RetryRequest(Head(tasks))
  PROVE  IInv'
<1> USE DEF IInv, poolVars, counters
<1> DEFINE t == Head(tasks)
<1>1. t \in Task /\ t.kind = "Retry" /\ tasks # <<>> /\ tasks' = Tail(tasks)
      /\ tasks' \in Seq(Task)
  BY HeadTail DEF HandleTask, RetryRequest, TypeOK
<1>2. t.id \in RequestIds
  BY <1>1 DEF Task
<1>3. \A r \in RequestIds : IsAbout(t, r) <=> t.id = r
  BY <1>1 DEF IsAbout
<1>4. 1 \in Messages(t.id) /\ tasks[1] = t
  BY <1>1, <1>2, <1>3, MessagesTail DEF TypeOK
<1> HIDE DEF t
<1>5. /\ jobs' = [jobs EXCEPT ![t.id] = Queued]
      /\ retries' = [retries EXCEPT ![t.id] = @ + 1]
      /\ UNCHANGED <<method, incoming, answers, busy, background, force,
                     change, rev, created, applies, changes, started>>
      /\ main' = "drain" /\ main \in {"select", "drain"}
  BY DEF t, HandleTask, RetryRequest
<1>6. t.id \in incoming
  BY <1>1, <1>2, <1>3, TakesItsMessage DEF t
<1>7. /\ jobs'[t.id] = Queued /\ retries'[t.id] = retries[t.id] + 1
      /\ \A r \in RequestIds : r # t.id => jobs'[r] = jobs[r] /\ retries'[r] = retries[r]
  BY <1>2, <1>5 DEF TypeOK
<1>8. TypeOK'
  <2>1. Queued \in Job
    BY BoundsAssumption DEF Queued, At, NoResult, Job, Result, Rev, Outcome
  <2>2. jobs' \in [RequestIds -> Job] /\ retries' \in [RequestIds -> Nat]
    BY <2>1, <1>2, <1>5 DEF TypeOK
  <2> QED
    BY <2>2, <1>1, <1>5 DEF TypeOK
<1>9. RevIsCounted'
  BY <1>5 DEF RevIsCounted
<1>10. OneOwner'
  <2> SUFFICES ASSUME NEW r \in RequestIds
               PROVE  IF r \in incoming'
                      THEN /\ \A i, k \in Messages(r)' : i = k
                           /\ InPool(r)' <=> Messages(r)' = {}
                      ELSE ~InPool(r)' /\ Messages(r)' = {}
    BY DEF OneOwner
  <2>1. CASE r = t.id
    <3>1. Messages(r)' = {}
      BY <2>1, <1>1, <1>3, TakesItsMessage DEF t
    <3>2. InPool(r)'
      BY <2>1, <1>7 DEF InPool, Queued, At
    <3> QED
      BY <3>1, <3>2, <2>1, <1>5, <1>6
  <2>2. CASE r # t.id
    <3>1. Messages(r) = {} <=> Messages(r)' = {}
      BY <2>2, <1>1, <1>3, TakesItsMessage DEF t
    <3>2. r \in incoming => \A i, k \in Messages(r)' : i = k
      BY <2>2, <1>1, <1>3, TakesItsMessage DEF t
    <3>3. InPool(r)' <=> InPool(r)
      BY <2>2, <1>7 DEF InPool
    <3> QED
      BY <3>1, <3>2, <3>3, <1>5 DEF OneOwner
  <2> QED
    BY <2>1, <2>2
<1>11. AnsweredOnce'
  BY <1>5 DEF AnsweredOnce, Received
<1>12. ToBeRetried(t.id)
  BY <1>1, <1>4 DEF ToBeRetried
<1>13. RetriesBounded'
  <2>1. retries[t.id] < applies /\ retries[t.id] \in Nat /\ applies \in Nat
    BY <1>2, <1>5, <1>12 DEF RetryIsPaid, TypeOK
  <2> QED
    BY <2>1, <1>5, <1>7 DEF RetriesBounded
<1>14. RetryIsPaid'
  <2>1. ASSUME NEW r \in RequestIds, ToBeRetried(r)'
        PROVE  r # t.id /\ ToBeRetried(r)
    <3>1. CASE r = t.id
      <4>1. Messages(r)' = {}
        BY <3>1, <1>1, <1>3, TakesItsMessage DEF t
      <4> QED
        BY <4>1, <3>1, <2>1, <1>7 DEF ToBeRetried, Queued, At
    <3>2. CASE r # t.id
      <4>1. \A i \in Messages(r)' : \E k \in Messages(r) : tasks'[i] = tasks[k]
        BY <1>1, TakesItsMessage
      <4>2. jobs'[r] = jobs[r]
        BY <3>2, <1>7
      <4> QED
        BY <4>1, <4>2, <3>2, <2>1 DEF ToBeRetried
    <3> QED
      BY <3>1, <3>2
  <2> QED
    BY <2>1, <1>5, <1>7 DEF RetryIsPaid
<1> QED
  BY <1>8, <1>9, <1>10, <1>11, <1>13, <1>14

(***************************************************************************)
(* The end of a Bazel job concerns no request.                             *)
(***************************************************************************)
LEMMA BackgroundEndedStep ==
  ASSUME IInv, HandleTask, BackgroundEnded(Head(tasks))
  PROVE  IInv'
<1> USE DEF IInv, mainVars, counters
<1> DEFINE t == Head(tasks)
<1>1. t \in Task /\ t.kind = "End" /\ tasks # <<>> /\ tasks' = Tail(tasks)
      /\ tasks' \in Seq(Task)
  BY HeadTail DEF HandleTask, BackgroundEnded, TypeOK
<1>2. \A r \in RequestIds : ~IsAbout(t, r)
  BY <1>1 DEF IsAbout
<1>3. /\ UNCHANGED <<incoming, method, answers, retries, jobs, background,
                     change, rev, created, applies, changes, started>>
      /\ busy' \subseteq busy /\ force' \in BOOLEAN
      /\ main' = "drain" /\ main \in {"select", "drain"}
  BY DEF t, HandleTask, BackgroundEnded, TypeOK
<1>4. TypeOK' /\ RevIsCounted'
  BY <1>1, <1>3 DEF TypeOK, RevIsCounted
<1>5. ASSUME NEW r \in RequestIds
      PROVE  /\ Messages(r) = {} <=> Messages(r)' = {}
             /\ r \in incoming => \A i, k \in Messages(r)' : i = k
             /\ ToBeRetried(r)' => ToBeRetried(r)
  <2>1. /\ Messages(r) = {} <=> Messages(r)' = {}
        /\ r \in incoming => \A i, k \in Messages(r)' : i = k
        /\ \A i \in Messages(r)' : \E k \in Messages(r) : tasks'[i] = tasks[k]
    BY <1>1, <1>2, TakesItsMessage
  <2>2. jobs'[r] = jobs[r]
    BY <1>3
  <2> QED
    BY <2>1, <2>2 DEF ToBeRetried
<1>6. OneOwner' /\ AnsweredOnce' /\ RetriesBounded' /\ RetryIsPaid'
  BY <1>3, <1>5 DEF OneOwner, InPool, AnsweredOnce, Received, RetriesBounded, RetryIsPaid
<1> QED
  BY <1>4, <1>6

(***************************************************************************)
(* A job that goes on stays in the pool, and is cancelled only while a     *)
(* change is being applied.                                                *)
(***************************************************************************)
LEMMA SetJobStep ==
  ASSUME IInv, NEW r \in RequestIds, InPool(r),
         NEW phase \in {"lookup", "position", "query", "bazel", "listing", "links", "sending"},
         NEW result \in Result, SetJob(r, phase, result),
         phase = "sending" /\ result.outcome = "cancelled" => main = "apply"
  PROVE  IInv'
<1> USE DEF IInv, SetJob, mainVars, poolVars, dbVars, counters
<1>1. At(phase, result) \in Job
  BY DEF At, Job
<1>2. TypeOK' /\ RevIsCounted'
  BY <1>1 DEF TypeOK, RevIsCounted
<1>3. /\ jobs'[r] = At(phase, result)
      /\ \A q \in RequestIds : q # r => jobs'[q] = jobs[q]
  BY DEF TypeOK
<1>4. \A q \in RequestIds : Messages(q)' = Messages(q) /\ (InPool(q)' <=> InPool(q))
  BY <1>3 DEF Messages, InPool, At
<1>5. OneOwner' /\ AnsweredOnce' /\ RetriesBounded'
  BY <1>4 DEF OneOwner, AnsweredOnce, Received, RetriesBounded
<1>6. ASSUME NEW q \in RequestIds, ToBeRetried(q)'
      PROVE  ToBeRetried(q) \/ main = "apply"
  BY <1>6, <1>3, <1>4 DEF ToBeRetried, At
<1>7. RetryIsPaid'
  BY <1>6 DEF RetryIsPaid
<1> QED
  BY <1>2, <1>5, <1>7

(***************************************************************************)
(* One that ends with an outcome other than a cancellation.                *)
(***************************************************************************)
LEMMA FinishStep ==
  ASSUME IInv, NEW r \in RequestIds, InPool(r), NEW outcome \in Outcome,
         Finish(r, outcome), outcome = "cancelled" => main = "apply"
  PROVE  IInv'
<1> DEFINE result == [jobs[r].result EXCEPT !.outcome = outcome]
<1>1. jobs[r].result \in Result
  BY DEF IInv, TypeOK, Job
<1>2. result \in Result /\ result.outcome = outcome
  BY <1>1 DEF Result
<1>3. SetJob(r, "sending", result)
  BY DEF Finish
<1> HIDE DEF result
<1> QED
  BY <1>2, <1>3, SetJobStep

(***************************************************************************)
(* Every step of a thread of the pool for a request.                       *)
(***************************************************************************)
LEMMA JobStep ==
  ASSUME IInv, NEW r \in RequestIds,
         \/ Start(r) \/ Lookup(r) \/ ConvertPosition(r) \/ Evaluate(r)
         \/ RunBazel(r) \/ BazelAnswers(r)
         \/ TranslateLinks(r) \/ MeetCancellation(r) \/ SwallowCancellation(r)
  PROVE  IInv'
<1>1. InPool(r) /\ rev \in Rev /\ jobs[r].result \in Result /\ NoResult \in Result
  <2>1. rev \in Nat /\ changes \in Nat /\ rev <= changes /\ changes <= MaxChanges
    BY DEF IInv, TypeOK, RevIsCounted
  <2>2. rev \in Rev /\ 0 \in Rev
    BY <2>1, BoundsAssumption DEF Rev
  <2>3. InPool(r)
    BY DEF Start, Lookup, ConvertPosition, Evaluate, RunBazel, BazelAnswers,
       TranslateLinks, MeetCancellation, SwallowCancellation, InPool
  <2> QED
    BY <2>2, <2>3 DEF IInv, TypeOK, Job, NoResult, Result, Outcome
<1>2. NoResult.outcome # "cancelled"
  BY DEF NoResult
<1>3. CASE Start(r)
  BY <1>1, <1>2, <1>3, SetJobStep, FinishStep DEF Start, Outcome
<1>4. CASE Lookup(r)
  BY <1>1, <1>2, <1>4, SetJobStep, FinishStep DEF Lookup, Outcome
<1>5. CASE ConvertPosition(r)
  <2>1. [NoResult EXCEPT !.pos = rev] \in Result
    BY <1>1 DEF Result
  <2> QED
    BY <2>1, <1>1, <1>5, SetJobStep, FinishStep DEF ConvertPosition, Outcome
<1>10. ASSUME NEW read \in Rev, EndQuery(r, read) PROVE IInv'
  <2> DEFINE result == [jobs[r].result EXCEPT !.outcome = "value", !.read = read]
  <2>1. result \in Result /\ result.outcome = "value"
    BY <1>1 DEF Result, Outcome
  <2>2. Finish(r, "error") \/ SetJob(r, "links", result) \/ SetJob(r, "sending", result)
    BY <1>10 DEF EndQuery
  <2> HIDE DEF result
  <2> QED
    BY <2>1, <2>2, <1>1, SetJobStep, FinishStep DEF Outcome
<1>6. CASE Evaluate(r)
  BY <1>1, <1>6, <1>10 DEF Evaluate
<1>11. CASE RunBazel(r)
  <2> DEFINE result == [jobs[r].result EXCEPT !.read = rev]
  <2>1. result \in Result
    BY <1>1 DEF Result
  <2>2. SetJob(r, "bazel", result) \/ SetJob(r, "listing", result)
    BY <1>11 DEF RunBazel
  <2> HIDE DEF result
  <2> QED
    BY <2>1, <2>2, <1>1, SetJobStep
<1>12. CASE BazelAnswers(r)
  <2>1. jobs[r].result.read \in Rev
    BY <1>1 DEF Result
  <2>2. CASE EndQuery(r, jobs[r].result.read)
    BY <2>1, <2>2, <1>10
  <2>3. CASE Cancelled /\ Finish(r, "cancelled")
    BY <1>1, <2>3, FinishStep DEF Outcome, Cancelled
  <2> QED
    BY <1>12, <2>2, <2>3 DEF BazelAnswers
<1>7. CASE TranslateLinks(r)
  BY <1>1, <1>7, FinishStep DEF TranslateLinks, Outcome
<1>8. CASE MeetCancellation(r)
  BY <1>1, <1>8, FinishStep DEF MeetCancellation, Outcome, Cancelled, CancelledBySalsa
<1>9. CASE SwallowCancellation(r)
  BY <1>1, <1>9, FinishStep DEF SwallowCancellation, Outcome
<1> QED
  BY <1>3, <1>4, <1>5, <1>6, <1>7, <1>8, <1>9, <1>11, <1>12

(***************************************************************************)
(* The job leaves the pool and becomes the one message about its request.  *)
(***************************************************************************)
LEMMA SendStep ==
  ASSUME IInv, NEW r \in RequestIds, Send(r)
  PROVE  IInv'
<1> USE DEF IInv, Send, mainVars, poolVars, dbVars, counters
<1> DEFINE t == IF jobs[r].result.outcome = "cancelled"
                THEN Retry(r) ELSE ResponseReady(r, jobs[r].result)
<1>1. t \in Task /\ tasks' = Append(tasks, t)
  BY DEF TypeOK, Job, Retry, ResponseReady, Task
<1>2. /\ \A q \in RequestIds : IsAbout(t, q) <=> q = r
      /\ t.kind = "Retry" => jobs[r].result.outcome = "cancelled"
  BY DEF IsAbout, Retry, ResponseReady
<1> HIDE DEF t
<1>3. NoJob \in Job
  BY BoundsAssumption DEF NoJob, At, NoResult, Job, Result, Rev, Outcome
<1>4. tasks \in Seq(Task)
  BY DEF TypeOK
<1>5. TypeOK' /\ RevIsCounted'
  <2>1. tasks' \in Seq(Task)
    BY <1>1, <1>4, MessagesAppend
  <2> QED
    BY <2>1, <1>3 DEF TypeOK, RevIsCounted
<1>6. /\ jobs'[r] = NoJob /\ jobs[r].phase = "sending"
      /\ \A q \in RequestIds : q # r => jobs'[q] = jobs[q]
  BY DEF TypeOK
<1>7. r \in incoming /\ Messages(r) = {}
  BY <1>6 DEF OneOwner, InPool
<1>8. /\ Messages(r)' = {Len(tasks) + 1} /\ tasks'[Len(tasks) + 1] = t
      /\ \A q \in RequestIds : q # r => Messages(q)' = Messages(q)
      /\ \A q \in RequestIds : \A i \in Messages(q) : tasks'[i] = tasks[i]
  BY <1>1, <1>2, <1>4, <1>7, MessagesAppend
<1>9. OneOwner'
  BY <1>6, <1>7, <1>8 DEF OneOwner, InPool, NoJob, At
<1>10. AnsweredOnce' /\ RetriesBounded'
  BY DEF AnsweredOnce, Received, RetriesBounded
<1>11. RetryIsPaid'
  <2>1. ASSUME NEW q \in RequestIds, ToBeRetried(q)' PROVE ToBeRetried(q)
    <3> HIDE DEF IInv, Send
    <3>1. CASE q = r
      <4>1. t.kind = "Retry"
        BY <3>1, <2>1, <1>6, <1>8 DEF ToBeRetried, NoJob, At
      <4> QED
        BY <3>1, <4>1, <1>2, <1>6 DEF ToBeRetried
    <3>2. CASE q # r
      BY <3>2, <2>1, <1>6, <1>8 DEF ToBeRetried
    <3> QED
      BY <3>1, <3>2
  <2> QED
    BY <2>1 DEF RetryIsPaid
<1> QED
  BY <1>5, <1>9, <1>10, <1>11

(***************************************************************************)
(* Threads that run Bazel touch no request; at the end one sends a task.   *)
(***************************************************************************)
LEMMA RunBackgroundStep ==
  ASSUME IInv, NEW b \in Bazel, RunBackground(b)
  PROVE  IInv'
<1> USE DEF IInv, mainVars, dbVars, counters
<1> DEFINE e == [queued |-> background[b].queued - 1, running |-> background[b].running + 1]
<1>1. /\ background \in [Bazel -> [queued : Nat, running : Nat]]
      /\ background[b].queued > 0
  BY DEF TypeOK, RunBackground
<1>3. e \in [queued : Nat, running : Nat]
  BY <1>1
<1>4. background' = [background EXCEPT ![b] = e]
  BY DEF RunBackground
<1> HIDE DEF e
<1>5. background' \in [Bazel -> [queued : Nat, running : Nat]]
  BY <1>1, <1>3, <1>4
<1>6. TypeOK' /\ RevIsCounted'
  BY <1>5 DEF RunBackground, TypeOK, RevIsCounted
<1>7. OneOwner' /\ AnsweredOnce' /\ RetriesBounded' /\ RetryIsPaid'
  BY RequestsUntouched DEF RunBackground, TypeOK
<1> QED
  BY <1>6, <1>7

(***************************************************************************)
(* The end of a Bazel job is a message about no request.                   *)
(***************************************************************************)
LEMMA BazelReturnsStep ==
  ASSUME IInv, NEW b \in Bazel, BazelReturns(b)
  PROVE  IInv'
<1> USE DEF IInv, mainVars, dbVars, counters
<1> DEFINE e == [queued |-> background[b].queued, running |-> background[b].running - 1]
<1>1. /\ background \in [Bazel -> [queued : Nat, running : Nat]]
      /\ background[b].running > 0
  BY DEF TypeOK, BazelReturns
<1>2. [background[b] EXCEPT !.running = background[b].running - 1] = e
  BY <1>1
<1>3. e \in [queued : Nat, running : Nat]
  BY <1>1
<1>4. background' = [background EXCEPT ![b] = e]
  BY <1>2 DEF BazelReturns
<1> HIDE DEF e
<1>5. background' \in [Bazel -> [queued : Nat, running : Nat]]
  BY <1>1, <1>3, <1>4
<1>6. End(b) \in Task /\ tasks \in Seq(Task) /\ tasks' = Append(tasks, End(b))
  BY DEF End, Task, TypeOK, BazelReturns
<1>7. \A r \in RequestIds : ~IsAbout(End(b), r)
  BY DEF IsAbout, End
<1>8. /\ tasks' \in Seq(Task)
      /\ \A r \in RequestIds : /\ Messages(r)' = Messages(r)
                               /\ \A i \in Messages(r) : tasks'[i] = tasks[i]
  <2>1. tasks' \in Seq(Task)
    BY <1>6 DEF TypeOK
  <2>2. ASSUME NEW r \in RequestIds
        PROVE  Messages(r)' = Messages(r) /\ \A i \in Messages(r) : tasks'[i] = tasks[i]
    BY <1>6, <1>7, MessagesAppend
  <2> QED
    BY <2>1, <2>2
<1>9. TypeOK' /\ RevIsCounted'
  BY <1>5, <1>8 DEF BazelReturns, TypeOK, RevIsCounted
<1>10. OneOwner' /\ AnsweredOnce' /\ RetriesBounded'
  BY <1>8 DEF BazelReturns, OneOwner, InPool, AnsweredOnce, Received, RetriesBounded
<1>11. RetryIsPaid'
  <2>1. \A r \in RequestIds : ToBeRetried(r)' <=> ToBeRetried(r)
    BY <1>8 DEF BazelReturns, ToBeRetried
  <2> QED
    BY <2>1 DEF RetryIsPaid, BazelReturns
<1> QED
  BY <1>9, <1>10, <1>11

(***************************************************************************)
(* Every step of every thread keeps the invariant.                         *)
(***************************************************************************)
LEMMA NextInvariant == IInv /\ [Next]_vars => IInv'
<1> SUFFICES ASSUME IInv, [Next]_vars PROVE IInv'
  OBVIOUS
<1>1. CASE Client
  BY <1>1, ReceiveRequestStep, OtherMainStep DEF Client
<1>2. CASE HandleTask
  BY <1>2, RespondStep, RetryStep, BackgroundEndedStep DEF HandleTask
<1>3. CASE Drained \/ ProcessChanges \/ ApplyChange
  BY <1>3, OtherMainStep, ApplyChangeStep
<1>4. ASSUME NEW r \in RequestIds, Worker(r) \/ BazelAnswers(r) PROVE IInv'
  BY <1>4, JobStep, SendStep DEF Worker
<1>5. ASSUME NEW b \in Bazel, RunBackground(b) PROVE IInv'
  BY <1>5, RunBackgroundStep
<1>6. ASSUME NEW b \in Bazel, BazelReturns(b) PROVE IInv'
  BY <1>6, BazelReturnsStep
<1>7. CASE UNCHANGED vars
  <2>1. OneOwner' /\ AnsweredOnce' /\ RetriesBounded' /\ RetryIsPaid'
    BY <1>7, RequestsUntouched DEF vars, mainVars, dbVars, IInv, TypeOK
  <2> QED
    BY <2>1, <1>7 DEF vars, mainVars, poolVars, dbVars, counters, IInv, TypeOK, RevIsCounted
<1> QED
  BY <1>1, <1>2, <1>3, <1>4, <1>5, <1>6, <1>7 DEF Next, MainThread

(***************************************************************************)
(* The inductive invariant holds in every state of every behaviour.        *)
(***************************************************************************)
THEOREM Invariance == Spec => []IInv
  BY InitInvariant, NextInvariant, PTL DEF Spec

(***************************************************************************)
(* Every variable of the request handling has its type.                    *)
(***************************************************************************)
THEOREM TypeCorrect == Spec => []TypeOK
<1>1. IInv => TypeOK
  BY DEF IInv
<1> QED
  BY <1>1, Invariance, PTL

(***************************************************************************)
(* A registered request is evaluated or has one message under way, and one *)
(* that was answered is neither (RequestDispatcher, Server::respond).      *)
(***************************************************************************)
THEOREM OneOwnerHolds == Spec => []OneOwner
<1>1. IInv => OneOwner
  BY DEF IInv
<1> QED
  BY <1>1, Invariance, PTL

(***************************************************************************)
(* Each retry of a request is paid by a change of its own (Task::Retry).   *)
(***************************************************************************)
THEOREM RetriesBoundedHolds == Spec => []RetriesBounded
<1>1. IInv => RetriesBounded
  BY DEF IInv
<1> QED
  BY <1>1, Invariance, PTL

-----------------------------------------------------------------------------
(***************************************************************************)
(* A step that answers nothing and receives no request is a stutter of the *)
(* service, or closes it.                                                  *)
(***************************************************************************)
LEMMA ServiceStutters ==
  ASSUME UNCHANGED <<incoming, method, answers>>
  PROVE  status' = status
  BY DEF status, Received

(***************************************************************************)
(* Receiving a request is the service's Ask.                               *)
(***************************************************************************)
LEMMA ReceiveAsks ==
  ASSUME IInv, NEW r \in RequestIds, NEW m \in Method, ReceiveRequest(r, m)
  PROVE  Service!Ask(r)
<1>1. answers[r] = <<>> /\ method[r] = "none" /\ m # "none"
  BY DEF ReceiveRequest, IInv, AnsweredOnce, Received, Method
<1>2. /\ method'[r] = m /\ \A q \in RequestIds : q # r => method'[q] = method[q]
      /\ answers' = answers /\ incoming' = incoming \cup {r}
  BY DEF ReceiveRequest, IInv, TypeOK
<1>3. open /\ open'
  BY DEF ReceiveRequest, open
<1>4. status[r] = "unasked" /\ status'[r] = "pending"
  BY <1>1, <1>2 DEF status, Received
<1>5. \A q \in RequestIds : q # r => status'[q] = status[q]
  BY <1>2 DEF status, Received
<1>6. status' = [status EXCEPT ![r] = "pending"]
  <2>1. DOMAIN status = RequestIds /\ DOMAIN status' = RequestIds
    BY DEF status
  <2>2. status = [q \in RequestIds |-> status[q]] /\ status' = [q \in RequestIds |-> status'[q]]
    BY DEF status
  <2> QED
    BY <1>4, <1>5, <2>1, <2>2
<1> QED
  BY <1>3, <1>4, <1>6 DEF Service!Ask

(***************************************************************************)
(* The response to a request is the service's Answer.                      *)
(***************************************************************************)
LEMMA RespondAnswers ==
  ASSUME IInv, HandleTask, Respond(Head(tasks))
  PROVE  \E r \in RequestIds : Service!Answer(r)
<1> DEFINE t == Head(tasks)
<1>1. t \in Task /\ t.kind = "ResponseReady" /\ tasks # <<>> /\ tasks' = Tail(tasks)
  BY HeadTail DEF HandleTask, Respond, IInv, TypeOK
<1>2. t.id \in RequestIds /\ IsAbout(t, t.id)
  BY <1>1 DEF Task, IsAbout
<1>3. t.id \in incoming
  BY <1>1, <1>2, TakesItsMessage
<1> HIDE DEF t
<1>4. /\ incoming' = incoming \ {t.id} /\ method' = method
      /\ answers' = [answers EXCEPT ![t.id] = Append(@, t.result)]
      /\ main' = "drain" /\ main \in {"select", "drain"}
  BY <1>3 DEF t, HandleTask, Respond
<1>5. answers[t.id] = <<>> /\ Received(t.id)
  BY <1>2, <1>3 DEF IInv, AnsweredOnce
<1>6. /\ answers'[t.id] = <<t.result>>
      /\ \A r \in RequestIds : r # t.id => answers'[r] = answers[r]
  BY <1>2, <1>4, <1>5 DEF IInv, TypeOK
<1>7. status[t.id] = "pending"
  BY <1>2, <1>5 DEF status
<1>8. status'[t.id] = "answered"
  <2>1. <<t.result>> # <<>> /\ Len(<<t.result>>) = 1
    OBVIOUS
  <2> QED
    BY <2>1, <1>2, <1>4, <1>6 DEF status
<1>9. \A r \in RequestIds : r # t.id => status'[r] = status[r]
  BY <1>4, <1>6 DEF status, Received
<1>10. status' = [status EXCEPT ![t.id] = "answered"]
  <2>1. status = [q \in RequestIds |-> status[q]] /\ status' = [q \in RequestIds |-> status'[q]]
    BY DEF status
  <2> QED
    BY <2>1, <1>2, <1>8, <1>9
<1>11. Service!Answer(t.id)
  BY <1>4, <1>7, <1>10 DEF Service!Answer, open
<1> QED
  BY <1>2, <1>11

(***************************************************************************)
(* Each step is one of the service or a stutter.                           *)
(***************************************************************************)
LEMMA StepRefines == IInv /\ [Next]_vars => [Service!Next]_<<status, open>>
<1> SUFFICES ASSUME IInv, [Next]_vars
             PROVE  Service!Next \/ (status' = status /\ open' = open)
  OBVIOUS
<1> USE DEF mainVars, poolVars, dbVars, counters
<1>1. ASSUME NEW r \in RequestIds, NEW m \in Method, ReceiveRequest(r, m)
      PROVE  Service!Next
  BY <1>1, ReceiveAsks DEF Service!Next
<1>2. ASSUME NEW kind \in {"Create", "Update"}, ReceiveChange(kind)
      PROVE  status' = status /\ open' = open
  BY <1>2, ServiceStutters DEF ReceiveChange, open
<1>3. ASSUME NEW b \in Bazel, StartBackground(b)
      PROVE  status' = status /\ open' = open
  BY <1>3, ServiceStutters DEF StartBackground, open
<1>4. CASE Shutdown
  BY <1>4, ServiceStutters DEF Shutdown, open, Service!Next, Service!Close
<1>5. CASE HandleTask
  <2>1. CASE Respond(Head(tasks))
    BY <1>5, <2>1, RespondAnswers DEF Service!Next
  <2>2. CASE RetryRequest(Head(tasks)) \/ BackgroundEnded(Head(tasks))
    BY <1>5, <2>2, ServiceStutters DEF HandleTask, RetryRequest, BackgroundEnded, open
  <2> QED
    BY <1>5, <2>1, <2>2 DEF HandleTask
<1>6. CASE Drained \/ ProcessChanges \/ ApplyChange
  BY <1>6, ServiceStutters DEF Drained, ProcessChanges, ApplyChange, open
<1>7. ASSUME NEW r \in RequestIds, Worker(r) \/ BazelAnswers(r)
      PROVE  status' = status /\ open' = open
  <2>1. UNCHANGED <<incoming, method, answers, main>>
    BY <1>7 DEF Worker, Start, Lookup, ConvertPosition, Evaluate, EndQuery, RunBazel,
       BazelAnswers, TranslateLinks, MeetCancellation, SwallowCancellation, Send,
       Finish, SetJob
  <2> QED
    BY <2>1, ServiceStutters DEF open
<1>8. ASSUME NEW b \in Bazel, RunBackground(b) \/ BazelReturns(b)
      PROVE  status' = status /\ open' = open
  BY <1>8, ServiceStutters DEF RunBackground, BazelReturns, open
<1>9. CASE UNCHANGED vars
  BY <1>9, ServiceStutters DEF vars, open
<1> QED
  BY <1>1, <1>2, <1>3, <1>4, <1>5, <1>6, <1>7, <1>8, <1>9 DEF Next, Client, MainThread

(***************************************************************************)
(* The server answers each request at most once, and none it was not asked *)
(* (RequestService), however requests are cancelled and retried.           *)
(***************************************************************************)
THEOREM ImplementsService == Spec => ServiceSafety
<1>1. Init => Service!Init
  BY DEF Init, Service!Init, status, open, Received
<1> QED
  BY <1>1, StepRefines, Invariance, PTL DEF Spec, ServiceSafety, Service!Spec

-----------------------------------------------------------------------------
(***************************************************************************)
(* What is whole stays so when another text is put in the database's place *)
(* by create_file, or none at all.                                         *)
(***************************************************************************)
LEMMA WholeStays ==
  ASSUME created \subseteq created', NEW result, NEW read, Whole(result, read)
  PROVE  (result.pos + 1)..read \subseteq created'
BY DEF Whole

(***************************************************************************)
(* The answers stay whole while none is added.                             *)
(***************************************************************************)
LEMMA AnswersStayWhole ==
  ASSUME OnlyOpensSplitAnswers, created \subseteq created', answers' = answers,
         \A r \in RequestIds : method'[r] # "show_hir" => method[r] # "show_hir"
  PROVE  OnlyOpensSplitAnswers'
BY DEF OnlyOpensSplitAnswers

(***************************************************************************)
(* The results under way do, when no new one is sent.                      *)
(***************************************************************************)
LEMMA TasksStayWhole ==
  ASSUME TypeOK, TasksWhole, created \subseteq created',
         \A r \in RequestIds : method'[r] # "show_hir" => method[r] # "show_hir",
         \A i \in DOMAIN tasks' : \/ tasks'[i].kind # "ResponseReady"
                                  \/ \E k \in DOMAIN tasks : tasks'[i] = tasks[k]
  PROVE  TasksWhole'
<1> SUFFICES ASSUME NEW i \in DOMAIN tasks', tasks'[i].kind = "ResponseReady",
                    tasks'[i].result.outcome = "value",
                    method'[tasks'[i].id] # "show_hir"
             PROVE  Whole(tasks[i].result, tasks[i].result.read)'
  BY DEF TasksWhole
<1> PICK k \in DOMAIN tasks : tasks'[i] = tasks[k]
  OBVIOUS
<1>1. tasks[k] \in Task
  BY DEF TypeOK
<1>2. tasks[k].id \in RequestIds
  BY <1>1 DEF Task
<1>3. Whole(tasks[k].result, tasks[k].result.read)
  BY <1>2 DEF TasksWhole
<1> QED
  BY <1>3 DEF Whole

(***************************************************************************)
(* A write comes between position and query of no job: create_file puts    *)
(* its text among those created, update_file waits for the snapshots.      *)
(***************************************************************************)
LEMMA ApplyChangeWhole ==
  ASSUME IInv, OpensInv, ApplyChange PROVE OpensInv'
<1> USE DEF mainVars, poolVars, counters, OpensInv
<1>1. /\ created \subseteq created' /\ UNCHANGED <<method, jobs, tasks, answers>>
      /\ rev \in Nat
  BY DEF ApplyChange, IInv, TypeOK
<1>2. TasksWhole'
  BY <1>1, TasksStayWhole DEF IInv
<1>3. OnlyOpensSplitAnswers'
  BY <1>1, AnswersStayWhole
<1>4. ASSUME NEW r \in RequestIds, method[r] # "show_hir", jobs[r].phase = "query"
      PROVE  HoldsSnapshot(r)' /\ (jobs[r].result.pos + 1)..rev' \subseteq created'
  <2>1. HoldsSnapshot(r) /\ (jobs[r].result.pos + 1)..rev \subseteq created
    BY <1>4 DEF JobsWhole, Whole
  <2>2. change # "Update"
    BY <2>1 DEF ApplyChange, MayWrite
  <2>3. rev' = rev \/ (rev' = rev + 1 /\ rev + 1 \in created')
    <3>1. change \in {"none", "Create"}
      BY <2>2 DEF IInv, TypeOK
    <3>2. CASE change = "none"
      BY <3>2 DEF ApplyChange
    <3>3. CASE change = "Create"
      BY <3>3 DEF ApplyChange
    <3> QED
      BY <3>1, <3>2, <3>3
  <2>4. jobs[r].result.pos \in Nat
    BY DEF IInv, TypeOK, Job, Result, Rev
  <2>5. \A i \in (jobs[r].result.pos + 1)..(rev + 1) :
          i \in (jobs[r].result.pos + 1)..rev \/ i = rev + 1
    BY <1>1, <2>4
  <2>6. (jobs[r].result.pos + 1)..rev' \subseteq created'
    BY <1>1, <2>1, <2>3, <2>5
  <2> QED
    BY <1>1, <2>1, <2>6 DEF HoldsSnapshot
<1>5. JobsWhole'
  <2> SUFFICES ASSUME NEW r \in RequestIds, method[r] # "show_hir"
      PROVE  /\ jobs[r].phase \in {"lookup", "position", "query"} => HoldsSnapshot(r)'
             /\ jobs[r].phase = "query" => Whole(jobs[r].result, rev)'
             /\ HasValue(jobs[r]) => Whole(jobs[r].result, jobs[r].result.read)'
    BY <1>1 DEF JobsWhole
  <2>1. jobs[r].phase \in {"lookup", "position", "query"} => HoldsSnapshot(r)'
    BY <1>1 DEF JobsWhole, HoldsSnapshot
  <2>2. jobs[r].phase = "query" => Whole(jobs[r].result, rev)'
    BY <1>1, <1>4 DEF Whole
  <2>3. ASSUME HasValue(jobs[r])
        PROVE  Whole(jobs[r].result, jobs[r].result.read)'
    <3>1. (jobs[r].result.pos + 1)..jobs[r].result.read \subseteq created
      BY <2>3 DEF JobsWhole, Whole
    <3>2. (jobs[r].result.pos + 1)..jobs[r].result.read \subseteq created'
      BY <1>1, <3>1
    <3> QED
      BY <1>1, <3>2 DEF Whole
  <2> QED
    BY <2>1, <2>2, <2>3
<1> QED
  BY <1>2, <1>3, <1>5

(***************************************************************************)
(* A job's step: the query reads the text of the moment, and nothing else  *)
(* makes a result.                                                         *)
(***************************************************************************)
LEMMA SetJobWhole ==
  ASSUME IInv, OpensInv, NEW r \in RequestIds, NEW phase, NEW result,
         SetJob(r, phase, result),
         method[r] # "show_hir" =>
           /\ phase \in {"lookup", "position", "query"} => method[r] # "unsupported"
           /\ phase = "query" => Whole(result, rev)
           /\ HasValue(At(phase, result)) => Whole(result, result.read)
  PROVE  OpensInv'
<1> USE DEF SetJob, mainVars, poolVars, dbVars, counters, OpensInv
<1>1. UNCHANGED <<method, tasks, answers, created, rev>>
  OBVIOUS
<1>2. TasksWhole'
  BY <1>1, TasksStayWhole DEF IInv
<1>3. OnlyOpensSplitAnswers'
  BY <1>1, AnswersStayWhole
<1>4. JobsWhole'
  <2> SUFFICES ASSUME NEW s \in RequestIds, method[s] # "show_hir"
      PROVE  /\ jobs'[s].phase \in {"lookup", "position", "query"} => HoldsSnapshot(s)'
             /\ jobs'[s].phase = "query" => Whole(jobs'[s].result, rev)
             /\ HasValue(jobs'[s]) => Whole(jobs'[s].result, jobs'[s].result.read)
    BY <1>1 DEF JobsWhole, Whole
  <2>1. CASE s = r
    <3>1. jobs'[s] = At(phase, result)
      BY <2>1 DEF IInv, TypeOK
    <3>2. jobs'[s].phase = phase /\ jobs'[s].result = result
      BY <3>1 DEF At
    <3> QED
      BY <1>1, <2>1, <3>1, <3>2 DEF HoldsSnapshot
  <2>2. CASE s # r
    <3>1. jobs'[s] = jobs[s]
      BY <2>2 DEF IInv, TypeOK
    <3> QED
      BY <1>1, <3>1 DEF JobsWhole, HoldsSnapshot
  <2> QED
    BY <2>1, <2>2
<1> QED
  BY <1>2, <1>3, <1>4

(***************************************************************************)
(* Each step of a job, but for its end.                                    *)
(***************************************************************************)
LEMMA JobWhole ==
  ASSUME IInv, OpensInv, NEW r \in RequestIds,
         \/ Start(r) \/ Lookup(r) \/ ConvertPosition(r) \/ Evaluate(r)
         \/ RunBazel(r) \/ BazelAnswers(r)
         \/ TranslateLinks(r) \/ MeetCancellation(r) \/ SwallowCancellation(r)
  PROVE  OpensInv'
<1> DEFINE job == jobs[r]
<1>1. job.result \in Result /\ rev \in Nat
  BY DEF IInv, TypeOK, Job
<1>2. ASSUME NEW outcome \in Outcome \ {"value"}, Finish(r, outcome) PROVE OpensInv'
  <2>1. [job.result EXCEPT !.outcome = outcome].outcome # "value"
    BY <1>1 DEF Result
  <2> QED
    BY <1>2, <2>1, SetJobWhole DEF Finish, HasValue, At
<1>3. CASE Start(r)
  BY <1>2, <1>3, SetJobWhole DEF Start, Outcome, HasValue, At
<1>4. CASE Lookup(r)
  <2>1. CASE Finish(r, "null")
    BY <1>2, <2>1 DEF Outcome
  <2>2. CASE method[r] = "show_hir" /\ SetJob(r, "query", NoResult)
    BY <2>2, SetJobWhole
  <2>3. CASE method[r] # "show_hir" /\ SetJob(r, "position", NoResult)
    <3>1. method[r] # "unsupported"
      BY <1>4, <2>3 DEF Lookup, OpensInv, JobsWhole, HoldsSnapshot
    <3> QED
      BY <2>3, <3>1, SetJobWhole DEF HasValue, At
  <2> QED
    BY <1>4, <2>1, <2>2, <2>3 DEF Lookup
<1>5. CASE ConvertPosition(r)
  <2>1. CASE Finish(r, "null")
    BY <1>2, <2>1 DEF Outcome
  <2>2. CASE SetJob(r, "query", [NoResult EXCEPT !.pos = rev])
    <3>1. (rev + 1)..rev = {}
      BY <1>1
    <3>2. Whole([NoResult EXCEPT !.pos = rev], rev)
      BY <3>1 DEF Whole, NoResult
    <3>3. method[r] # "show_hir" => method[r] # "unsupported"
      BY <1>5 DEF ConvertPosition, OpensInv, JobsWhole, HoldsSnapshot
    <3> QED
      BY <2>2, <3>2, <3>3, SetJobWhole DEF HasValue, At
  <2> QED
    BY <1>5, <2>1, <2>2 DEF ConvertPosition
<1>10. ASSUME NEW read, method[r] # "show_hir" => Whole(job.result, read),
              EndQuery(r, read)
       PROVE  OpensInv'
  <2>1. CASE Finish(r, "error")
    BY <1>2, <2>1 DEF Outcome
  <2> DEFINE result == [job.result EXCEPT !.outcome = "value", !.read = read]
  <2>2. CASE SetJob(r, IF method[r] = "goto" THEN "links" ELSE "sending", result)
    <3>1. result.pos = job.result.pos /\ result.read = read
      BY <1>1 DEF Result
    <3>2. method[r] # "show_hir" => Whole(result, result.read)
      BY <1>10, <3>1 DEF Whole
    <3> HIDE DEF result
    <3> QED
      BY <2>2, <3>2, SetJobWhole DEF At
  <2> QED
    BY <1>10, <2>1, <2>2 DEF EndQuery
<1>6. CASE Evaluate(r)
  <2>1. method[r] # "show_hir" => Whole(job.result, rev)
    BY <1>6 DEF Evaluate, OpensInv, JobsWhole
  <2> QED
    BY <1>6, <1>10, <2>1 DEF Evaluate
<1>11. CASE RunBazel(r)
  <2> DEFINE result == [job.result EXCEPT !.read = rev]
  <2>1. Whole(job.result, rev)
    BY <1>11 DEF RunBazel, OpensInv, JobsWhole
  <2>2. result.pos = job.result.pos /\ result.read = rev
    BY <1>1 DEF Result
  <2>3. Whole(result, result.read)
    BY <2>1, <2>2 DEF Whole
  <2>4. SetJob(r, "bazel", result) \/ SetJob(r, "listing", result)
    BY <1>11 DEF RunBazel
  <2> HIDE DEF result
  <2> QED
    BY <2>3, <2>4, SetJobWhole DEF At
<1>12. CASE BazelAnswers(r)
  <2>1. method[r] # "show_hir" => Whole(job.result, job.result.read)
    BY <1>12 DEF BazelAnswers, OpensInv, JobsWhole, HasValue
  <2>2. CASE EndQuery(r, job.result.read)
    BY <1>10, <2>1, <2>2
  <2>3. CASE Finish(r, "cancelled")
    BY <1>2, <2>3 DEF Outcome
  <2> QED
    BY <1>12, <2>2, <2>3 DEF BazelAnswers
<1>7. CASE TranslateLinks(r)
  <2> DEFINE result == [job.result EXCEPT !.outcome = "value"]
  <2>1. SetJob(r, "sending", result)
    BY <1>7 DEF TranslateLinks, Finish
  <2>2. method[r] # "show_hir" => Whole(job.result, job.result.read)
    BY <1>7 DEF TranslateLinks, OpensInv, JobsWhole, HasValue
  <2>3. result.pos = job.result.pos /\ result.read = job.result.read
    BY <1>1 DEF Result
  <2>4. method[r] # "show_hir" => Whole(result, result.read)
    BY <2>2, <2>3 DEF Whole
  <2> HIDE DEF result
  <2> QED
    BY <2>1, <2>4, SetJobWhole DEF At
<1>8. CASE MeetCancellation(r)
  BY <1>2, <1>8 DEF MeetCancellation, Outcome
<1>9. CASE SwallowCancellation(r)
  BY <1>2, <1>9 DEF SwallowCancellation, Outcome
<1> QED
  BY <1>3, <1>4, <1>5, <1>6, <1>7, <1>8, <1>9, <1>11, <1>12

(***************************************************************************)
(* The steps that make no result and take none.                            *)
(***************************************************************************)
LEMMA OtherWhole ==
  ASSUME IInv, OpensInv, UNCHANGED <<jobs, tasks, answers, rev, created, method>>
  PROVE  OpensInv'
<1> USE DEF OpensInv
<1>1. JobsWhole'
  BY DEF JobsWhole, HoldsSnapshot, Whole
<1>2. TasksWhole'
  BY TasksStayWhole DEF IInv
<1>3. OnlyOpensSplitAnswers'
  BY AnswersStayWhole
<1> QED
  BY <1>1, <1>2, <1>3

(***************************************************************************)
(* A request that is dispatched, for the first time or again, has no       *)
(* result yet.                                                             *)
(***************************************************************************)
LEMMA QueuedWhole ==
  ASSUME IInv, JobsWhole, NEW r \in RequestIds, jobs' = [jobs EXCEPT ![r] = Queued],
         UNCHANGED <<rev, created>>, \A s \in RequestIds \ {r} : method'[s] = method[s]
  PROVE  JobsWhole'
<1> SUFFICES ASSUME NEW s \in RequestIds, method'[s] # "show_hir"
             PROVE  /\ jobs'[s].phase \in {"lookup", "position", "query"} => HoldsSnapshot(s)'
                    /\ jobs'[s].phase = "query" => Whole(jobs'[s].result, rev)
                    /\ HasValue(jobs'[s]) => Whole(jobs'[s].result, jobs'[s].result.read)
  BY DEF JobsWhole, Whole
<1>1. CASE s = r
  <2>1. jobs'[s].phase = "queued"
    BY <1>1 DEF IInv, TypeOK, Queued, At
  <2> QED
    BY <2>1 DEF HasValue
<1>2. CASE s # r
  <2>1. jobs'[s] = jobs[s] /\ method'[s] = method[s]
    BY <1>2 DEF IInv, TypeOK
  <2> QED
    BY <2>1 DEF JobsWhole, HoldsSnapshot
<1> QED
  BY <1>1, <1>2

(***************************************************************************)
(* A request is received.                                                  *)
(***************************************************************************)
LEMMA ReceiveRequestWhole ==
  ASSUME IInv, OpensInv, NEW r \in RequestIds, NEW m \in Method, ReceiveRequest(r, m)
  PROVE  OpensInv'
<1> USE DEF ReceiveRequest, dbVars, OpensInv
<1>1. \A s \in RequestIds \ {r} : method'[s] = method[s]
  BY DEF IInv, TypeOK
<1>2. method[r] = "none"
  OBVIOUS
<1>3. JobsWhole'
  BY <1>1, QueuedWhole
<1>4. TasksWhole'
  BY <1>1, <1>2, TasksStayWhole DEF IInv
<1>5. OnlyOpensSplitAnswers'
  BY <1>1, <1>2, AnswersStayWhole
<1> QED
  BY <1>3, <1>4, <1>5

(***************************************************************************)
(* A response is passed on as it was computed, and a retry starts anew.    *)
(***************************************************************************)
LEMMA HandleTaskWhole ==
  ASSUME IInv, OpensInv, HandleTask PROVE OpensInv'
<1> USE DEF OpensInv, mainVars, poolVars
<1> DEFINE t == Head(tasks)
<1>1. /\ t \in Task /\ 1 \in DOMAIN tasks /\ t = tasks[1]
      /\ \A i \in DOMAIN tasks' : i + 1 \in DOMAIN tasks /\ tasks'[i] = tasks[i + 1]
      /\ UNCHANGED <<method, rev, created>>
  <2>1. tasks \in Seq(Task) /\ tasks # <<>> /\ tasks' = Tail(tasks)
    BY DEF HandleTask, IInv, TypeOK
  <2>2. DOMAIN tasks = 1..Len(tasks) /\ DOMAIN tasks' = 1..Len(tasks) - 1
        /\ Len(tasks) \in Nat \ {0}
    BY <2>1, HeadTail
  <2>3. UNCHANGED <<method, rev, created>>
    BY DEF HandleTask, Respond, RetryRequest, BackgroundEnded
  <2> QED
    BY <2>1, <2>2, <2>3, HeadTail
<1>2. TasksWhole'
  BY <1>1, TasksStayWhole DEF IInv
<1> HIDE DEF t
<1>3. CASE Respond(t)
  <2>1. UNCHANGED jobs
    BY <1>3 DEF Respond
  <2>2. JobsWhole'
    BY <1>1, <2>1 DEF JobsWhole, HoldsSnapshot, Whole
  <2>3. ASSUME NEW r \in RequestIds, NEW i \in DOMAIN answers'[r],
               answers'[r][i].outcome = "value", method[r] # "show_hir"
        PROVE  (answers'[r][i].pos + 1)..answers'[r][i].read \subseteq created
    <3>1. answers[r] \in Seq(Result) /\ t.id \in RequestIds /\ t.result \in Result
      BY <1>1, <1>3 DEF Respond, IInv, TypeOK, Task
    <3>2. CASE r = t.id /\ t.id \in incoming /\ i = Len(answers[r]) + 1
      <4>1. answers'[r][i] = t.result
        BY <1>3, <3>1, <3>2 DEF Respond, IInv, TypeOK
      <4>2. Whole(t.result, t.result.read)
        BY <1>1, <1>3, <2>3, <3>2, <4>1 DEF TasksWhole, Respond
      <4> QED
        BY <4>1, <4>2 DEF Whole
    <3>3. CASE ~(r = t.id /\ t.id \in incoming /\ i = Len(answers[r]) + 1)
      <4>1. i \in DOMAIN answers[r] /\ answers'[r][i] = answers[r][i]
        <5>1. CASE r = t.id /\ t.id \in incoming
          <6>1. answers'[r] = Append(answers[r], t.result)
            BY <1>3, <3>1, <5>1 DEF Respond, IInv, TypeOK
          <6> QED
            BY <2>3, <3>1, <3>3, <5>1, <6>1
        <5>2. CASE ~(r = t.id /\ t.id \in incoming)
          <6>1. answers'[r] = answers[r]
            BY <1>3, <3>1, <5>2 DEF Respond, IInv, TypeOK
          <6> QED
            BY <2>3, <6>1
        <5> QED
          BY <5>1, <5>2
      <4> QED
        BY <2>3, <4>1 DEF OnlyOpensSplitAnswers
    <3> QED
      BY <3>2, <3>3
  <2>4. OnlyOpensSplitAnswers'
    BY <1>1, <2>3 DEF OnlyOpensSplitAnswers
  <2> QED
    BY <1>2, <2>2, <2>4
<1>4. CASE RetryRequest(t)
  <2>1. t.id \in RequestIds
    BY <1>1, <1>4 DEF RetryRequest, Task
  <2>2. JobsWhole'
    BY <1>1, <1>4, <2>1, QueuedWhole DEF RetryRequest
  <2>3. OnlyOpensSplitAnswers'
    BY <1>1, <1>4, AnswersStayWhole DEF RetryRequest
  <2> QED
    BY <1>2, <2>2, <2>3
<1>5. CASE BackgroundEnded(t)
  <2>1. UNCHANGED <<jobs, answers>>
    BY <1>5 DEF BackgroundEnded
  <2>2. JobsWhole'
    BY <1>1, <2>1 DEF JobsWhole, HoldsSnapshot, Whole
  <2>3. OnlyOpensSplitAnswers'
    BY <1>1, <2>1, AnswersStayWhole
  <2> QED
    BY <1>2, <2>2, <2>3
<1> QED
  BY <1>3, <1>4, <1>5 DEF HandleTask, t

(***************************************************************************)
(* A job sends its result, or asks to be retried.                          *)
(***************************************************************************)
LEMMA SendWhole ==
  ASSUME IInv, OpensInv, NEW r \in RequestIds, Send(r) PROVE OpensInv'
<1> USE DEF Send, mainVars, poolVars, dbVars, OpensInv
<1> DEFINE t == IF jobs[r].result.outcome = "cancelled"
                THEN Retry(r) ELSE ResponseReady(r, jobs[r].result)
<1>1. UNCHANGED <<method, answers, rev, created>>
  OBVIOUS
<1>2. tasks' = Append(tasks, t) /\ tasks \in Seq(Task)
  BY DEF IInv, TypeOK
<1>3. t.kind = "ResponseReady" /\ t.result.outcome = "value" /\ method[t.id] # "show_hir" =>
        Whole(t.result, t.result.read)
  <2> SUFFICES ASSUME t.kind = "ResponseReady", t.result.outcome = "value",
                      method[t.id] # "show_hir"
               PROVE  Whole(t.result, t.result.read)
    OBVIOUS
  <2>1. t.result = jobs[r].result /\ t.id = r
    BY DEF Retry, ResponseReady
  <2>2. HasValue(jobs[r])
    BY <2>1 DEF HasValue
  <2> HIDE DEF t
  <2> QED
    BY <2>1, <2>2 DEF JobsWhole
<1> HIDE DEF t
<1>4. TasksWhole'
  <2> SUFFICES ASSUME NEW i \in DOMAIN tasks'
               PROVE  tasks'[i].kind = "ResponseReady" /\ tasks'[i].result.outcome = "value"
                        /\ method[tasks'[i].id] # "show_hir" =>
                          Whole(tasks'[i].result, tasks'[i].result.read)
    BY <1>1 DEF TasksWhole, Whole
  <2>1. /\ DOMAIN tasks = 1..Len(tasks) /\ Len(tasks) \in Nat
        /\ DOMAIN tasks' = 1..Len(tasks) + 1 /\ tasks'[Len(tasks) + 1] = t
        /\ \A k \in 1..Len(tasks) : tasks'[k] = tasks[k]
    BY <1>2
  <2>2. CASE i \in 1..Len(tasks)
    BY <2>1, <2>2 DEF TasksWhole
  <2>3. CASE i = Len(tasks) + 1
    BY <1>3, <2>1, <2>3
  <2> QED
    BY <2>1, <2>2, <2>3
<1>5. JobsWhole'
  <2> SUFFICES ASSUME NEW s \in RequestIds, method[s] # "show_hir"
      PROVE  /\ jobs'[s].phase \in {"lookup", "position", "query"} => HoldsSnapshot(s)'
             /\ jobs'[s].phase = "query" => Whole(jobs'[s].result, rev)
             /\ HasValue(jobs'[s]) => Whole(jobs'[s].result, jobs'[s].result.read)
    BY <1>1 DEF JobsWhole, Whole
  <2>1. CASE s = r
    <3>1. jobs'[s].phase = "none"
      BY <2>1 DEF IInv, TypeOK, NoJob, At
    <3> QED
      BY <3>1 DEF HasValue
  <2>2. CASE s # r
    <3>1. jobs'[s] = jobs[s]
      BY <2>2 DEF IInv, TypeOK
    <3> QED
      BY <1>1, <3>1 DEF JobsWhole, HoldsSnapshot
  <2> QED
    BY <2>1, <2>2
<1>6. OnlyOpensSplitAnswers'
  BY <1>1, AnswersStayWhole
<1> QED
  BY <1>4, <1>5, <1>6

(***************************************************************************)
(* The end of a Bazel job is a task without a result.                      *)
(***************************************************************************)
LEMMA BazelReturnsWhole ==
  ASSUME IInv, OpensInv, NEW b \in Bazel, BazelReturns(b) PROVE OpensInv'
<1> USE DEF BazelReturns, mainVars, dbVars, OpensInv
<1>1. UNCHANGED <<method, jobs, answers, rev, created>>
  OBVIOUS
<1>2. \A i \in DOMAIN tasks' : tasks'[i].kind # "ResponseReady"
                                 \/ \E k \in DOMAIN tasks : tasks'[i] = tasks[k]
  <2>1. tasks' = Append(tasks, End(b)) /\ tasks \in Seq(Task)
    BY DEF IInv, TypeOK
  <2>2. /\ DOMAIN tasks = 1..Len(tasks) /\ Len(tasks) \in Nat
        /\ DOMAIN tasks' = 1..Len(tasks) + 1 /\ tasks'[Len(tasks) + 1] = End(b)
        /\ \A k \in 1..Len(tasks) : tasks'[k] = tasks[k]
    BY <2>1
  <2> QED
    BY <2>2 DEF End
<1>3. TasksWhole'
  BY <1>1, <1>2, TasksStayWhole DEF IInv
<1>4. JobsWhole'
  BY <1>1 DEF JobsWhole, HoldsSnapshot, Whole
<1>5. OnlyOpensSplitAnswers'
  BY <1>1, AnswersStayWhole
<1> QED
  BY <1>3, <1>4, <1>5

(***************************************************************************)
(* What is computed from one text stays so at every step.                  *)
(***************************************************************************)
LEMMA NextWhole == IInv /\ OpensInv /\ [Next]_vars => OpensInv'
<1> SUFFICES ASSUME IInv, OpensInv, [Next]_vars PROVE OpensInv'
  OBVIOUS
<1>1. CASE Client
  <2>1. ASSUME NEW r \in RequestIds, NEW m \in Method, ReceiveRequest(r, m) PROVE OpensInv'
    BY <2>1, ReceiveRequestWhole
  <2>2. ASSUME NEW kind \in {"Create", "Update"}, ReceiveChange(kind) PROVE OpensInv'
    BY <2>2, OtherWhole DEF ReceiveChange, mainVars
  <2>3. ASSUME NEW b \in Bazel, StartBackground(b) PROVE OpensInv'
    BY <2>3, OtherWhole DEF StartBackground, mainVars, dbVars
  <2>4. CASE Shutdown
    BY <2>4, OtherWhole DEF Shutdown, mainVars, dbVars
  <2> QED
    BY <1>1, <2>1, <2>2, <2>3, <2>4 DEF Client
<1>2. CASE HandleTask
  BY <1>2, HandleTaskWhole
<1>3. CASE Drained \/ ProcessChanges
  BY <1>3, OtherWhole DEF Drained, ProcessChanges, mainVars, dbVars
<1>4. CASE ApplyChange
  BY <1>4, ApplyChangeWhole
<1>5. ASSUME NEW r \in RequestIds, Worker(r) \/ BazelAnswers(r) PROVE OpensInv'
  BY <1>5, JobWhole, SendWhole DEF Worker
<1>6. ASSUME NEW b \in Bazel, RunBackground(b) PROVE OpensInv'
  BY <1>6, OtherWhole DEF RunBackground, mainVars, dbVars
<1>7. ASSUME NEW b \in Bazel, BazelReturns(b) PROVE OpensInv'
  BY <1>7, BazelReturnsWhole
<1>8. CASE UNCHANGED vars
  BY <1>8, OtherWhole DEF vars, mainVars, dbVars
<1> QED
  BY <1>1, <1>2, <1>3, <1>4, <1>5, <1>6, <1>7, <1>8 DEF Next, MainThread

(***************************************************************************)
(* No edit comes between the position a handler converts and the text it   *)
(* analyses, for any number of requests, threads and changes: only a       *)
(* didOpen does (AnalysisSnapshot's queries, Analysis::apply_change).      *)
(***************************************************************************)
THEOREM OnlyOpensSplitAnswersHolds == Spec => []OnlyOpensSplitAnswers
<1>1. Init => OpensInv
  BY DEF Init, OpensInv, JobsWhole, TasksWhole, OnlyOpensSplitAnswers, NoJob, At, HasValue
<1>2. OpensInv => OnlyOpensSplitAnswers
  BY DEF OpensInv
<1> QED
  BY <1>1, <1>2, NextWhole, Invariance, PTL DEF Spec
=============================================================================
