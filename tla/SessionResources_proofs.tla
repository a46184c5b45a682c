----------------------- MODULE SessionResources_proofs -----------------------
(* What SessionRegistry guarantees of the resources behind its sessions, for any *)
(* number of sessions, clients and executions: a row has its resource or a       *)
(* reason not to, the old session of a replacement is closed before the new one  *)
(* is found, and a polite close ends no work.                                    *)
(*                                                                               *)
(* Effects says what a step of an actor does to its resource and tells its       *)
(* callers; CallStep says what a step of a call needs.  The invariant Resources  *)
(* is kept by both, on top of Inv and Count of SessionRegistry_proofs.           *)
EXTENDS SessionRegistry_proofs

--------------------------------------------------------------------------------
(* The invariant.                                                               *)

Shut(s) == ~s.physical \/ s.life = "Crashed"
Alive(s) == s.physical \/ s.life = "Crashed"

LostOn(a) == \E e \in Execution : task[e].on = a /\ task[e].stage = "Lost"
FailedOn(a) == \E e \in Execution : task[e].on = a /\ task[e].stage = "Failed"

\* The answers after which a caller takes the row out.
Enders == {"Close", "Evict", "InvalidateWorker"}
Final(op, x) ==
    \/ op \in {"Close", "Evict"} /\ x \in {"Ok", "SessionLost"}
    \/ op = "InvalidateWorker" /\ x \in {"Ok", "NotHere"}
Effective(r) == r.stage = "Answered" /\ Final(r.op, r.answer)

\* An actor that never ran, or has ended, has no resource.
EndedOK == \A a \in Session : actor[a].life \in {"Unborn", "Ended"} => ~actor[a].physical

\* Work is left by executions, and the actor knows of it, unless one failed.
LeftOK ==
    \A a \in unfinished :
        /\ \E e \in Execution : task[e].on = a /\ task[e].stage # "None"
        /\ Running(a) /\ actor[a].physical =>
              actor[a].tx # "None" \/ actor[a].handles # {} \/ FailedOn(a)

\* What a call was told is closed, and what it replaces once that has gone.
RetiredOK ==
    \A c \in Client :
        /\ Effective(call[c]) => Shut(actor[call[c].on])
        /\ call[c].plan = "Replace" /\ call[c].op = "Close" /\ call[c].stage \in {"Answered", "Publishing"}
           => Shut(actor[call[c].old])
        /\ call[c].old # NoSession /\ call[c].old \notin rows => Shut(actor[call[c].old])

\* A session that was opened and is not in the table yet.
Opened(r) ==
    /\ r.stage # "Gone"
    /\ \/ r.op = "Open" /\ r.stage = "Answered" /\ r.answer = "Ok"
       \/ r.plan = "Replace" /\ r.op \in {"Hold", "Close"}

\* A call that has closed the session and has yet to take it out, or never will.
Gives(c, a) ==
    /\ call[c].on = a /\ call[c].op \in Enders
    /\ call[c].stage = "Gone" \/ Effective(call[c])

RowsOK ==
    /\ \A c \in Client : Opened(call[c]) => Alive(actor[call[c].cand])
    /\ \A a \in rows : Alive(actor[a]) \/ LostOn(a) \/ \E c \in Client : Gives(c, a)

Resources == EndedOK /\ LeftOK /\ RetiredOK /\ RowsOK

--------------------------------------------------------------------------------
(* The books keep what has ended.                                               *)

Kept(e) ==
    /\ task[e].stage # "None" => task'[e].stage # "None" /\ task'[e].on = task[e].on
    /\ task[e].stage \in {"Failed", "Lost"} => task'[e].stage = task[e].stage

\* A change to one execution keeps the books, unless that had ended.
LEMMA ChangeKeeps ==
    ASSUME Inv, NEW f, NEW stage, \A e \in Execution : e # f => task'[e] = task[e],
           f \in Execution => task'[f].stage = stage,
           f \in Execution => \/ task[f].stage = stage
                              \/ task[f].stage \in {"None", "Posted", "Running"} /\ stage # "None",
           \A e \in Execution : Passed(e)
    PROVE  \A e \in Execution : Kept(e)
  BY DEF Kept, Passed

\* Every step keeps the books.
LEMMA WorksKeep ==
    ASSUME Inv, Works
    PROVE  \A e \in Execution : Kept(e)
  <1>0. /\ Typed /\ ActorInv /\ task \in [Execution -> TaskState]
        /\ \A e \in Execution : Passed(e)
    BY WorksPasses DEF Inv, ActorInv, Typed
  <1>1. ASSUME task' = task PROVE \A e \in Execution : Kept(e)  BY <1>1 DEF Kept
  <1>2. ASSUME NEW f, NEW t, task' = [task EXCEPT ![f] = t],
               f \in Execution =>
                   \/ task[f].stage = t.stage
                   \/ task[f].stage \in {"None", "Posted", "Running"} /\ t.stage # "None"
        PROVE  \A e \in Execution : Kept(e)
    <2>1. \A e \in Execution : task'[e] = IF e = f THEN t ELSE task[e]  BY <1>0, <1>2
    <2>2. QED  BY <1>0, <1>2, <2>1, ChangeKeeps
  <1>3. ASSUME NEW a \in Session, NEW c \in Client, Queued(a, c)
        PROVE  \A e \in Execution : Kept(e)
    <2> DEFINE f == call[c].exec
    <2>1. /\ c \in Work(a)
          /\ Opens(a, c) \/ Closes(a, c) \/ Refuses(a, c) \/ Starts(a, c) \/ Passes(a, c)
      BY <1>0, <1>3, QueuedKinds
    <2>2. f \in Execution => task[f].stage = "Posted" /\ task[f] \in TaskState
      BY <1>0, <2>1, ActorAssumption DEF ActorInv, PostedOK
    <2>3. ASSUME NEW stage \in {"Running", "Refused"}, task' = [task EXCEPT ![f].stage = stage]
          PROVE  \A e \in Execution : Kept(e)
      <3> DEFINE t == [task[f] EXCEPT !.stage = stage]
      <3>1. f \in Execution => t.stage = stage  BY <2>2, TaskStateIs
      <3>2. task' = [task EXCEPT ![f] = t]  BY <2>3
      <3> HIDE DEF t, f
      <3>3. QED  BY <1>2, <2>2, <2>3, <3>1, <3>2
    <2>4. CASE Starts(a, c)  BY <2>3, <2>4 DEF Starts
    <2>5. CASE Refuses(a, c)  BY <1>1, <2>3, <2>5 DEF Refuses
    <2>6. CASE Opens(a, c) \/ Closes(a, c) \/ Passes(a, c)
      BY <1>1, <2>6 DEF Opens, Closes, Passes
    <2>7. QED  BY <2>1, <2>4, <2>5, <2>6
  <1>4. ASSUME NEW a \in Session, NEW c \in Client, Controlled(a, c)
        PROVE  \A e \in Execution : Kept(e)
    <2> DEFINE f == call[c].exec
    <2>1. \/ task' = task
          \/ task' = [task EXCEPT ![f].asked = TRUE] \/ task' = [task EXCEPT ![f].told = TRUE]
      BY <1>4 DEF Controlled, CancelAnswered, CancelQueued, CancelDelivered, InvalidateWorker
    <2> DEFINE t == [task[f] EXCEPT !.asked = TRUE]
               u == [task[f] EXCEPT !.told = TRUE]
    <2>2. f \in Execution => t.stage = task[f].stage /\ u.stage = task[f].stage
      BY <1>0, TaskStateIs
    <2>3. task' = task \/ task' = [task EXCEPT ![f] = t] \/ task' = [task EXCEPT ![f] = u]
      BY <2>1
    <2> HIDE DEF t, u, f
    <2>4. QED  BY <1>1, <1>2, <2>2, <2>3
  <1>5. ASSUME NEW a \in Session, Bind(a) PROVE \A e \in Execution : Kept(e)
    <2> DEFINE f == actor[a].flight
               t == [task[f] EXCEPT !.handle = "Bound", !.told = task[f].told \/ task[f].asked]
    <2>1. task' = [task EXCEPT ![f].handle = "Bound", ![f].told = @ \/ task[f].asked]
          /\ f \in Execution
      BY <1>0, <1>5, FlightIs DEF Bind, Offered
    <2>2. t.stage = task[f].stage  BY <1>0, <2>1, TaskStateIs
    <2>3. task' = [task EXCEPT ![f] = t]  BY <1>0, <2>1
    <2> HIDE DEF t, f
    <2>4. QED  BY <1>2, <2>2, <2>3
  <1>6. ASSUME NEW f \in Execution, Publish(f) PROVE \A e \in Execution : Kept(e)
    <2> DEFINE t == [task[f] EXCEPT !.handle = "Offered"]
    <2>1. t.stage = task[f].stage /\ task' = [task EXCEPT ![f] = t]
      BY <1>0, <1>6, TaskStateIs DEF Publish
    <2> HIDE DEF t
    <2>2. QED  BY <1>2, <2>1
  <1>7. ASSUME NEW a \in Session, Ended(a) PROVE \A e \in Execution : Kept(e)
    <2> DEFINE f == actor[a].flight
    <2>1. \E stage \in {"Done", "Failed", "Lost"} : Lands(a) /\ Settles(a, stage)
      BY <1>7 DEF Ended, Complete, Fail, LoseResource, Over
    <2>2. PICK stage \in {"Done", "Failed", "Lost"} : Lands(a) /\ Settles(a, stage)
      BY <2>1
    <2>3. f \in Execution /\ task[f].stage = "Running"  BY <1>0, <2>2, FlightIs DEF Lands
    <2>4. PICK t : t.stage = stage /\ task' = [task EXCEPT ![f] = t]
      BY <2>2, SettlesIs DEF TaskStage
    <2> HIDE DEF f
    <2>5. QED  BY <1>2, <2>3, <2>4
  <1>8. ASSUME NEW a \in Session, NEW c, Finished(a) \/ PanicServing(a, c) \/ PanicReleasing(a)
        PROVE  task' = task
    BY <1>8 DEF Finished, Finish, PanicServing, PanicReleasing, Crashes
  <1>9. QED  BY <1>1, <1>3, <1>4, <1>5, <1>6, <1>7, <1>8 DEF Works

\* A call begins at most one execution.
LEMMA CallsKeep ==
    ASSUME Inv, NEW c \in Client, GoesOn(c) \/ Begins(c) \/ GiveUp(c)
    PROVE  \A e \in Execution : Kept(e)
  <1>1. CASE task' = task  BY <1>1 DEF Kept
  <1>2. ASSUME NEW a \in Session, NEW f \in Execution, NEW op, CallExecute(c, a, op, f)
        PROVE  \A e \in Execution : Kept(e)
    <2> DEFINE t == [task[f] EXCEPT !.stage = IF Running(a) THEN "Posted" ELSE "Refused", !.on = a]
    <2>1. task[f].stage = "None" /\ task' = [task EXCEPT ![f] = t]
      BY <1>2 DEF CallExecute
    <2> HIDE DEF t
    <2>2. \A e \in Execution : e # f => task'[e] = task[e]  BY <2>1 DEF Inv, ActorInv, Typed
    <2>3. QED  BY <2>1, <2>2 DEF Kept
  <1>3. CASE GoesOn(c) \/ GiveUp(c)
    <2>1. task' = task
      BY <1>3 DEF GoesOn, Continues, GiveUp, actorVars, Registered, Closed, Evicted, Invalidated,
                  ScanDone, AbandonReplace, HoldOld, RetireOld, OldRetired, PublishCandidate,
                  UndoReplace, CandidateDestroyed, Resumed, Visit, OpenCandidate, Spawn
    <2>2. QED  BY <1>1, <2>1
  <1>4. CASE Begins(c)
    <2>1. \/ task' = task
          \/ \E a \in Session, f \in Execution, op \in {"Execute", "ExecuteBound"} :
                CallExecute(c, a, op, f)
      BY <1>4 DEF Begins, actorVars, ConfirmQuarantined, Scan, Register, Spawn, CallView, CallReplace,
                  CallSetIdleDeadline, CallClose, CallCancel
    <2>2. QED  BY <1>1, <1>2, <2>1
  <1>5. QED  BY <1>3, <1>4

--------------------------------------------------------------------------------
(* What a step of an actor does.                                                *)

\* What a caller may conclude from its answer.
Told(c) ==
    /\ Effective(call'[c]) => ~actor'[call[c].on].physical
    /\ call[c].op = "Close" /\ call[c].mode = "RollbackAndClose" => Shut(actor'[call[c].on])
    /\ call[c].op = "Open" /\ call'[c].answer = "Ok" => Alive(actor'[call[c].on])
    /\ call[c].op = "Close" /\ call'[c].answer \in {"Ok", "SessionLost"} =>
          /\ actor[call[c].on].physical /\ Running(call[c].on)
          /\ ~Rejected(actor[call[c].on], call[c].mode)

\* Why the resource of a session may go.
Excused(a) ==
    \/ ~actor[a].physical \/ ~Held(a) \/ LostOn(a)'
    \/ \E c \in Client :
          /\ call[c].on = a /\ call[c].op \in Enders
          /\ call[c].stage = "Gone" \/ Effective(call'[c])

\* Why an actor need not know of work left on its resource.
Knows(a) ==
    \/ actor'[a].life # "Running" \/ actor'[a].physical = FALSE
    \/ actor'[a].tx # "None" \/ actor'[a].handles # {} \/ FailedOn(a)'
    \/ a \notin unfinished'
    \/ a \in unfinished /\ Same(actor[a], actor'[a])

Effects(a) ==
    /\ \A b \in Session : b # a => actor'[b] = actor[b] /\ (b \in unfinished' => b \in unfinished)
    /\ a \in unfinished' => a \in unfinished \/ Flying(a)
    /\ \A c \in Client : call'[c] = call[c] \/ (Replied(c) /\ Told(c))
    /\ actor[a].life = "Running" /\ actor'[a].life \in {"Running", "Ended", "Crashed"}
    /\ actor'[a].life = "Ended" => ~actor'[a].physical
    /\ Shut(actor'[a]) \/ ~Shut(actor[a]) \/ \E c \in Work(a) : call[c].op = "Open"
    /\ Alive(actor'[a]) \/ Excused(a)
    /\ Knows(a) \/ \E c \in Work(a) : call[c].op = "Open"

\* A call is answered x.
Receives(c, x) ==
    /\ call[c].stage = "Sent"
    /\ \/ call[c].plan \in Relays /\ call'[c] = Out
       \/ /\ call[c].plan \notin Relays
          /\ call'[c] = [call[c] EXCEPT !.stage = "Answered", !.answer = x]

\* Who is answered, and what.
LEMMA AnswerIs ==
    ASSUME NEW reply, Answers(reply), NEW c \in Client
    PROVE  /\ call'[c] = call[c] \/ (c \in DOMAIN reply /\ Receives(c, reply[c]))
           /\ c \in DOMAIN reply /\ call[c].stage = "Sent" => Receives(c, reply[c])
  BY DEF Answers, Receives

\* The same for the replies of a release, and for one caller.
LEMMA ReleaseIs ==
    ASSUME NEW C, NEW x, NEW X, Answers(WithDropped(C, x, X)), NEW c \in Client
    PROVE  /\ \/ call'[c] = call[c]
              \/ c \in C /\ Receives(c, x)
              \/ c \in X /\ Receives(c, "SessionClosed")
           /\ c \in C /\ call[c].stage = "Sent" => Receives(c, x)
  <1> DEFINE reply == WithDropped(C, x, X)
  <1>1. /\ DOMAIN reply = C \cup X
        /\ \A d \in C \cup X : reply[d] = IF d \in C THEN x ELSE "SessionClosed"
    BY DEF WithDropped
  <1>2. Answers(reply)  OBVIOUS
  <1> HIDE DEF reply
  <1>3. /\ call'[c] = call[c] \/ (c \in DOMAIN reply /\ Receives(c, reply[c]))
        /\ c \in DOMAIN reply /\ call[c].stage = "Sent" => Receives(c, reply[c])
    BY <1>2, AnswerIs
  <1>4. QED  BY <1>1, <1>3

\* What an answer makes of a call.
LEMMA ReceivesIs ==
    ASSUME Inv, NEW c \in Client, NEW x, Receives(c, x)
    PROVE  /\ call'[c].answer \in {"None", x}
           /\ Effective(call'[c]) => Final(call[c].op, x)
           /\ Final(call[c].op, x) => Effective(call'[c])
  <1>1. call[c] \in CallState /\ Shape(call[c])  BY Callers DEF Inv
  <1>2. call[c].op \in Enders => call[c].plan \notin Relays
    BY <1>1, OpPlan DEF Enders, Relays
  <1>3. CASE call[c].plan \in Relays
    <2>1. call'[c] = Out  BY <1>3 DEF Receives
    <2>2. QED  BY <1>2, <1>3, <2>1 DEF Out, Effective, Final, Enders
  <1>4. CASE call[c].plan \notin Relays
    <2>0. call'[c] = [call[c] EXCEPT !.stage = "Answered", !.answer = x]  BY <1>4 DEF Receives
    <2>1. call'[c].stage = "Answered" /\ call'[c].answer = x /\ call'[c].op = call[c].op
      BY <1>1, <2>0, CallStateIs
    <2>2. QED  BY <2>1 DEF Effective
  <1>5. QED  BY <1>3, <1>4

\* What makes an answer true.
LEMMA TellsTrue ==
    ASSUME Inv, NEW c \in Client, NEW x, Receives(c, x),
           Final(call[c].op, x) => ~actor'[call[c].on].physical,
           call[c].op = "Close" /\ call[c].mode = "RollbackAndClose" => Shut(actor'[call[c].on]),
           call[c].op = "Open" => x # "Ok" \/ Alive(actor'[call[c].on]),
           call[c].op = "Close" /\ x \in {"Ok", "SessionLost"} =>
               /\ actor[call[c].on].physical /\ Running(call[c].on)
               /\ ~Rejected(actor[call[c].on], call[c].mode)
    PROVE  Told(c)
  <1>1. call'[c].answer \in {"None", x} /\ (Effective(call'[c]) => Final(call[c].op, x))
    BY ReceivesIs
  <1>2. QED  BY <1>1 DEF Told

\* A step of one actor touches no other.
LEMMA TouchesOne ==
    ASSUME Inv, NEW a \in Session, NEW D, Touches(a, D)
    PROVE  /\ \A b \in Session : b # a => actor'[b] = actor[b]
           /\ \A c \in Client : call'[c] = call[c] \/ Replied(c)
           /\ actor[a].life = "Running" /\ actor[a] \in ActorState
  BY DEF Touches, Running, Inv, ActorInv, Typed

\* Messages that a running actor takes from its queue.
LEMMA QueuedEffects ==
    ASSUME Inv, NEW a \in Session, NEW c \in Client, Queued(a, c)
    PROVE  Effects(a)
  <1>0. Typed /\ ActorInv  BY DEF Inv, ActorInv
  <1>1. PICK D : Touches(a, D)  BY <1>0, QueuedTouches
  <1>2. /\ \A b \in Session : b # a => actor'[b] = actor[b]
        /\ \A d \in Client : call'[d] = call[d] \/ Replied(d)
        /\ actor[a].life = "Running" /\ actor[a] \in ActorState
    BY <1>1, TouchesOne
  <1>3. /\ c \in Work(a) /\ actor'[a].life = "Running"
        /\ Opens(a, c) \/ Closes(a, c) \/ Refuses(a, c) \/ Starts(a, c) \/ Passes(a, c)
    BY <1>0, QueuedKinds
  <1>4. \A d \in Work(a) : d \in Client /\ call[d].on = a /\ call[d].op # "InvalidateWorker"
    BY <1>0, WaitersApart DEF ActorInv, MessagesOK, Waiting
  <1>5. actor[a].physical \in BOOLEAN  BY <1>2, ActorStateIs
  <1>6. ASSUME NEW x, OnlyAnswers(c, x),
               Final(call[c].op, x) => ~actor'[a].physical,
               call[c].op = "Close" =>
                   \/ UNCHANGED call
                   \/ x \notin {"Ok", "SessionLost"} /\ (call[c].mode = "RollbackAndClose" => Shut(actor'[a])),
               call[c].op = "Open" => x # "Ok" \/ Alive(actor'[a])
        PROVE  \A d \in Client : call'[d] = call[d] \/ (Replied(d) /\ Told(d))
    <2> SUFFICES ASSUME NEW d \in Client, call'[d] # call[d] PROVE Replied(d) /\ Told(d)
      OBVIOUS
    <2>1. d = c /\ Receives(c, x)  BY <1>6 DEF OnlyAnswers, Receives
    <2>2. call # call'  OBVIOUS
    <2>3. Told(c)  BY <1>3, <1>4, <1>6, <2>1, <2>2, TellsTrue
    <2>4. QED  BY <1>2, <2>1, <2>3
  <1>7. CASE Opens(a, c)
    <2>1. Alive(actor'[a]) /\ call[c].op = "Open" /\ UNCHANGED unfinished /\ OnlyAnswers(c, "Ok")
      BY <1>7 DEF Opens, Alive
    <2>2. ~Final(call[c].op, "Ok")  BY <2>1 DEF Final
    <2>3. \A d \in Client : call'[d] = call[d] \/ (Replied(d) /\ Told(d))
      BY <1>6, <2>1, <2>2
    <2>4. QED  BY <1>2, <1>3, <2>1, <2>3 DEF Effects
  <1>8. CASE Closes(a, c)
    <2>1. PICK exact, shut \in BOOLEAN :
            /\ actor'[a] = Released(Taken(a), exact, shut)
            /\ Answers(WithDropped({c}, Outcome(Taken(a), exact, shut), Elements(Taken(a).deferred)))
            /\ Ends(a, shut)
      BY <1>8 DEF Closes
    <2> DEFINE l == Taken(a)
               x == Outcome(l, exact, shut)
    <2>2. Due(a, c)  BY <1>3, <1>8 DEF Queued, Closes, PutOff, TakesInFlight
    <2>3. l \in ActorState /\ Elements(l.deferred) \subseteq Work(a)
      <3>1. QueuesOK  BY <1>0 DEF ActorInv
      <3>2. /\ Taken(a) \in ActorState
            /\ Elements(Taken(a).deferred) \subseteq Elements(actor[a].deferred) \ {c}
        BY <1>0, <2>2, <3>1, TakesIs
      <3>3. QED  BY <3>2 DEF Work
    <2>4. actor'[a].physical = FALSE /\ x \in {"Ok", "SessionLost"}
      <3>1. actor'[a] = Released(l, exact, shut)  BY <2>1
      <3> HIDE DEF l
      <3>2. QED  BY <2>3, <3>1, ReleasedIs, ZenonT(60)
    <2>5. Shut(actor'[a])  BY <2>4 DEF Shut
    <2>6. \A b \in Session : b \in unfinished' => b \in unfinished  BY <1>0, <2>1, EndsType
    <2>7. ASSUME NEW d \in Client, call'[d] # call[d] PROVE Told(d)
      <3>1. \/ d = c /\ Receives(c, x)
            \/ d \in Elements(l.deferred) /\ Receives(d, "SessionClosed")
        BY <2>1, <2>7, ReleaseIs
      <3>2. d \in Work(a) /\ call[d].on = a  BY <1>3, <1>4, <2>3, <3>1
      <3>3. CASE d = c /\ Receives(c, x)
        <4>1. call[c].op = "Close" => actor[a].physical /\ ~Rejected(actor[a], call[c].mode)
          BY <1>8 DEF Closes
        <4>2. call[c].op # "Open"  BY <1>8 DEF Closes
        <4>3. Running(a)  BY <1>2 DEF Running
        <4> HIDE DEF x
        <4>4. QED  BY <2>4, <2>5, <3>2, <3>3, <4>1, <4>2, <4>3, TellsTrue
      <3>4. CASE Receives(d, "SessionClosed")
        BY <2>4, <2>5, <3>2, <3>4, TellsTrue
      <3>5. QED  BY <3>1, <3>3, <3>4
    <2>8. Alive(actor'[a]) \/ Excused(a)
      <3>1. CASE call[c].stage = "Gone"
        BY <1>3, <1>4, <1>8, <3>1 DEF Closes, Excused, Enders
      <3>2. CASE call[c].stage = "Sent"
        <4>1. Receives(c, x)  BY <2>1, <3>2, ReleaseIs
        <4>2. Final(call[c].op, x) /\ call[c].op \in Enders
          BY <1>8, <2>4 DEF Closes, Final, Enders
        <4> HIDE DEF x
        <4>3. Effective(call'[c])  BY <4>1, <4>2, ReceivesIs
        <4>4. QED  BY <1>3, <1>4, <4>2, <4>3 DEF Excused
      <3>3. call[c].stage \in {"Sent", "Gone"}  BY <1>0, <1>3 DEF ActorInv, MessagesOK, Waiting
      <3>4. QED  BY <3>1, <3>2, <3>3
    <2>9. Knows(a)  BY <2>4 DEF Knows
    <2>10. QED  BY <1>2, <1>3, <2>5, <2>6, <2>7, <2>8, <2>9 DEF Effects
  <1>9. ASSUME Same(actor[a], actor'[a]), UNCHANGED unfinished,
               \A d \in Client : call'[d] = call[d] \/ (Replied(d) /\ Told(d))
        PROVE  Effects(a)
    <2>1. (Shut(actor'[a]) <=> Shut(actor[a])) /\ (Alive(actor'[a]) <=> Alive(actor[a]))  BY <1>9 DEF Same, Shut, Alive
    <2>2. Alive(actor'[a]) \/ Excused(a)  BY <2>1 DEF Alive, Excused
    <2>3. Knows(a)  BY <1>9 DEF Knows
    <2>4. QED  BY <1>2, <1>3, <1>9, <2>1, <2>2, <2>3 DEF Effects
  <1>10. CASE Refuses(a, c)
    <2>1. PICK x \in {"CloseRejected", "SessionClosed", "ContextRevisionMismatch"} : OnlyAnswers(c, x)
      BY <1>10 DEF Refuses
    <2>2. ~Final(call[c].op, x)  BY <2>1 DEF Final
    <2>3. call[c].op = "Close" /\ call[c].mode = "RollbackAndClose" => Shut(actor'[a])
      BY <1>10 DEF Refuses, Same, Shut
    <2>4. call[c].op # "Open"  BY <1>10 DEF Refuses
    <2>5. \A d \in Client : call'[d] = call[d] \/ (Replied(d) /\ Told(d))
      BY <1>6, <2>1, <2>2, <2>3, <2>4
    <2>6. QED  BY <1>9, <1>10, <2>5 DEF Refuses
  <1>11. CASE Starts(a, c)  BY <1>9, <1>11 DEF Starts
  <1>12. CASE Passes(a, c)
    <2>1. PICK x : OnlyAnswers(c, x) /\ (call[c].op \in {"Open", "Evict"} => x # "Ok" /\ x # "SessionLost")
      BY <1>12 DEF Passes
    <2>2. call[c].op = "Close" => UNCHANGED call  BY <1>12 DEF Passes
    <2>3. CASE call[c].op = "Close"
      <3>1. \A d \in Client : call'[d] = call[d]  BY <2>2, <2>3
      <3>2. QED  BY <1>9, <1>12, <3>1 DEF Passes
    <2>4. CASE call[c].op # "Close"
      <3>1. ~Final(call[c].op, x)  BY <1>3, <1>4, <2>1, <2>4 DEF Final
      <3>2. \A d \in Client : call'[d] = call[d] \/ (Replied(d) /\ Told(d))
        BY <1>6, <2>1, <2>4, <3>1
      <3>3. QED  BY <1>9, <1>12, <3>2 DEF Passes
    <2>5. QED  BY <2>3, <2>4
  <1>13. QED  BY <1>3, <1>7, <1>8, <1>10, <1>11, <1>12

\* A step of an actor that leaves its resource and its account alone.
LEMMA QuietEffects ==
    ASSUME Inv, NEW a \in Session, NEW D, Touches(a, D), Same(actor[a], actor'[a]),
           UNCHANGED unfinished, \A d \in Client : call'[d] = call[d] \/ Told(d)
    PROVE  Effects(a)
  <1>1. /\ \A b \in Session : b # a => actor'[b] = actor[b]
        /\ \A d \in Client : call'[d] = call[d] \/ Replied(d)
        /\ actor[a].life = "Running"
    BY TouchesOne
  <1>2. /\ Shut(actor'[a]) <=> Shut(actor[a])
        /\ Alive(actor'[a]) <=> Alive(actor[a])
        /\ actor'[a].life = "Running"
    BY <1>1 DEF Same, Shut, Alive
  <1>3. Alive(actor'[a]) \/ Excused(a)  BY <1>2 DEF Alive, Excused
  <1>4. Knows(a)  BY DEF Knows
  <1>5. QED  BY <1>1, <1>2, <1>3, <1>4 DEF Effects

\* A step of an actor that closes its resource.
LEMMA ShutEffects ==
    ASSUME Inv, NEW a \in Session, NEW D, Touches(a, D),
           actor'[a].physical = FALSE, actor'[a].life \in {"Running", "Ended"},
           unfinished' \subseteq unfinished, Excused(a),
           \A d \in Client : call'[d] = call[d] \/ Told(d)
    PROVE  Effects(a)
  <1>1. /\ \A b \in Session : b # a => actor'[b] = actor[b]
        /\ \A d \in Client : call'[d] = call[d] \/ Replied(d)
        /\ actor[a].life = "Running"
    BY TouchesOne
  <1>2. Shut(actor'[a])  BY DEF Shut
  <1>3. Knows(a)  BY DEF Knows
  <1>4. QED  BY <1>1, <1>2, <1>3 DEF Effects

\* Whoever waits for an actor that is shut may be told anything that is not final.
LEMMA WaiterTold ==
    ASSUME Inv, NEW a \in Session, NEW d \in Client, Receives(d, "SessionClosed"),
           Shut(actor'[a]), call[d].on = a \/ call[d].op \in Executes
    PROVE  Told(d)
  <1>1. ~Final(call[d].op, "SessionClosed")  BY DEF Final
  <1>2. CASE call[d].on = a  BY <1>1, <1>2, TellsTrue
  <1>3. CASE call[d].op \in Executes  BY <1>1, <1>3, TellsTrue DEF Executes
  <1>4. QED  BY <1>2, <1>3

\* Messages of control.
LEMMA ControlledEffects ==
    ASSUME Inv, NEW a \in Session, NEW c \in Client, Controlled(a, c)
    PROVE  Effects(a)
  <1>0. Typed /\ ActorInv /\ MessagesOK  BY DEF Inv, ActorInv
  <1>1. PICK D : Touches(a, D)  BY <1>0, ControlledTouches
  <1>2. c \in Control(a) /\ call[c].on = a /\ call[c].stage \in {"Sent", "Gone"}
    <2>1. TakesControl(a, c)
      BY DEF Controlled, CancelAnswered, CancelQueued, CancelDelivered, InvalidateWorker, Controls
    <2>2. ctrlQ[a] # <<>> /\ c = Head(ctrlQ[a])  BY <2>1 DEF TakesControl, ControlDue
    <2>3. ctrlQ[a] \in Seq(Client)  BY <1>0 DEF Typed
    <2>4. c \in Control(a)  BY <2>2, <2>3, SeqTail DEF Control
    <2>5. QED  BY <1>0, <2>4 DEF MessagesOK, Waiting
  <1>3. CASE CancelAnswered(a, c) \/ CancelQueued(a, c) \/ CancelDelivered(a, c)
    <2>1. PICK x : Answers(To({c}, x)) /\ call[c].op = "Cancel" /\ UNCHANGED <<actor, unfinished>>
      BY <1>3 DEF CancelAnswered, CancelQueued, CancelDelivered, Controls
    <2>2. ASSUME NEW d \in Client, call'[d] # call[d] PROVE Told(d)
      <3>1. DOMAIN To({c}, x) = {c} /\ To({c}, x)[c] = x  BY DEF To
      <3>2. d \in {c} /\ Receives(d, To({c}, x)[d])  BY <2>1, <2>2, <3>1, AnswerIs
      <3>3. d = c /\ Receives(c, x)  BY <3>1, <3>2
      <3>4. ~Final(call[c].op, x)  BY <2>1 DEF Final
      <3>5. Told(c)  BY <2>1, <3>3, <3>4, TellsTrue
      <3>6. QED  BY <3>3, <3>5
    <2>3. Same(actor[a], actor'[a])  BY <2>1 DEF Same
    <2>4. QED  BY <1>1, <2>1, <2>2, <2>3, QuietEffects
  <1>4. CASE InvalidateWorker(a, c) /\ ~actor[a].physical
    <2>1. /\ Answers(To({c}, "NotHere")) /\ call[c].op = "InvalidateWorker"
          /\ UNCHANGED <<actor, unfinished>>
      BY <1>4 DEF InvalidateWorker, Controls
    <2>2. Shut(actor'[a]) /\ Same(actor[a], actor'[a])  BY <1>4, <2>1 DEF Shut, Same
    <2>3. ASSUME NEW d \in Client, call'[d] # call[d] PROVE Told(d)
      <3>1. DOMAIN To({c}, "NotHere") = {c} /\ To({c}, "NotHere")[c] = "NotHere"  BY DEF To
      <3>2. d \in {c} /\ Receives(d, To({c}, "NotHere")[d])  BY <2>1, <2>3, <3>1, AnswerIs
      <3>3. d = c /\ Receives(c, "NotHere")  BY <3>1, <3>2
      <3>4. Told(c)  BY <1>2, <1>4, <2>1, <2>2, <3>3, TellsTrue
      <3>5. QED  BY <3>3, <3>4
    <2>4. QED  BY <1>1, <2>1, <2>2, <2>3, QuietEffects
  <1>5. CASE InvalidateWorker(a, c) /\ actor[a].physical
    <2>1. call[c].op = "InvalidateWorker"  BY <1>5 DEF InvalidateWorker, Controls
    <2>2. PICK exact, shut \in BOOLEAN :
            /\ Becomes(a, Released(actor[a], exact, shut))
            /\ Answers(WithDropped({c}, "Ok", Elements(actor[a].deferred)))
            /\ Ends(a, shut)
      BY <1>5 DEF InvalidateWorker
    <2>3. actor'[a] = Released(actor[a], exact, shut) /\ actor[a] \in ActorState
      BY <1>0, <2>2 DEF Becomes, Typed
    <2>4. actor'[a].physical = FALSE /\ actor'[a].life = actor[a].life
      <3> DEFINE l == actor[a]
                 r == Released(l, exact, shut)
      <3>1. actor'[a] = r /\ l \in ActorState  BY <2>3
      <3> HIDE DEF l
      <3>2. r.physical = FALSE /\ r.life = l.life  BY <3>1, ReleasedIs, ZenonT(60)
      <3> HIDE DEF r
      <3>3. actor'[a].physical = FALSE /\ actor'[a].life = l.life  BY <3>1, <3>2
      <3>4. QED  BY <3>3 DEF l
    <2>5. actor'[a].life = "Running" /\ Shut(actor'[a])  BY <1>1, <2>4 DEF Touches, Running, Shut
    <2>6. unfinished' \subseteq unfinished  BY <1>0, <2>2, EndsType
    <2>7. ASSUME NEW d \in Client, call'[d] # call[d] PROVE Told(d)
      <3>1. \/ d = c /\ Receives(c, "Ok")
            \/ d \in Elements(actor[a].deferred) /\ Receives(d, "SessionClosed")
        BY <2>2, <2>7, ReleaseIs
      <3>2. CASE d = c /\ Receives(c, "Ok")
        <4>1. Told(c)  BY <1>2, <2>1, <2>4, <2>5, <3>2, TellsTrue
        <4>2. QED  BY <3>2, <4>1
      <3>3. CASE d \in Elements(actor[a].deferred) /\ Receives(d, "SessionClosed")
        <4>1. call[d].on = a  BY <1>0, <3>3 DEF MessagesOK, Waiting, Work
        <4>2. QED  BY <2>5, <3>3, <4>1, WaiterTold
      <3>4. QED  BY <3>1, <3>2, <3>3
    <2>8. Excused(a)
      <3>1. CASE call[c].stage = "Gone"  BY <1>2, <2>1, <3>1 DEF Excused, Enders
      <3>2. CASE call[c].stage = "Sent"
        <4>1. Receives(c, "Ok")  BY <2>2, <3>2, ReleaseIs
        <4>2. Final(call[c].op, "Ok") /\ call[c].op \in Enders  BY <2>1 DEF Final, Enders
        <4>3. Effective(call'[c])  BY <4>1, <4>2, ReceivesIs
        <4>4. QED  BY <1>2, <4>2, <4>3 DEF Excused
      <3>3. QED  BY <1>2, <3>1, <3>2
    <2>9. QED  BY <1>1, <2>4, <2>5, <2>6, <2>7, <2>8, ShutEffects
  <1>6. QED  BY <1>3, <1>4, <1>5 DEF Controlled

\* The end of an execution.
LEMMA EndedEffects ==
    ASSUME Inv, NEW a \in Session, Ended(a)
    PROVE  Effects(a)
  <1>0. Typed /\ ActorInv /\ MessagesOK  BY DEF Inv, ActorInv
  <1>1. Lands(a)  BY DEF Ended, Complete, Fail, LoseResource
  <1> DEFINE e == actor[a].flight
  <1>2. e \in Execution /\ Running(a) /\ Flying(a) /\ actor[a] \in ActorState
    BY <1>0, <1>1, LandedIs
  <1>3. ASSUME NEW stage \in TaskStage, Settles(a, stage)
        PROVE  task'[e].stage = stage /\ task'[e].on = a
    <2>1. PICK t : task' = [task EXCEPT ![e] = t] /\ t.stage = stage /\ t.on = a
      BY <1>3, SettlesIs
    <2>2. QED  BY <1>0, <1>2, <2>1 DEF Typed
  <1>4. ASSUME NEW d \in Pilot(a), NEW x, Receives(d, x) PROVE Told(d)
    <2>1. d \in Client /\ call[d].op \in Executes  BY <1>4 DEF Pilot, Executes
    <2>2. ~Final(call[d].op, x)  BY <2>1 DEF Final, Executes
    <2>3. QED  BY <1>4, <2>1, <2>2, TellsTrue DEF Executes
  <1>5. CASE Complete(a) \/ Fail(a)
    <2>1. PICK s : \E left \in SUBSET {a}, stage \in {"Done", "Failed"}, answer \in {"Ok", "Failed"} :
                EndsAs(a, s, left, stage, answer)
      BY <1>0, <1>5, EndKinds
    <2>2. PICK left \in SUBSET {a}, stage \in {"Done", "Failed"}, answer \in {"Ok", "Failed"} :
                EndsAs(a, s, left, stage, answer)
      BY <2>1
    <2>3. /\ Stays(actor[a], s) /\ s.physical = actor[a].physical
          /\ Over(a, s, left, stage, answer)
          /\ stage = "Failed" \/ left = {} \/ s.tx # "None" \/ s.handles # {}
      BY <2>2 DEF EndsAs
    <2>4. Touches(a, Pilot(a))  BY <1>0, <1>1, <2>3, OverTouches
    <2>5. /\ actor'[a] = s /\ actor'[a].life = "Running" /\ actor[a].life = "Running"
          /\ Leaves(a, left) /\ Settles(a, stage) /\ Answers(To(Pilot(a), answer))
      BY <1>0, <1>2, <2>3 DEF Over, Becomes, Typed, Stays, Running
    <2>6. ASSUME NEW d \in Client, call'[d] # call[d] PROVE Told(d)
      <3>1. DOMAIN To(Pilot(a), answer) = Pilot(a)  BY DEF To
      <3>2. d \in Pilot(a) /\ Receives(d, To(Pilot(a), answer)[d])  BY <2>5, <2>6, <3>1, AnswerIs
      <3>3. QED  BY <1>4, <3>2
    <2>7. /\ \A b \in Session : b # a => actor'[b] = actor[b]
          /\ \A d \in Client : call'[d] = call[d] \/ Replied(d)
      BY <2>4, TouchesOne
    <2>8. /\ \A b \in Session : b # a /\ b \in unfinished' => b \in unfinished
          /\ actor[a].physical /\ a \in unfinished' => left # {}
      BY <2>5 DEF Leaves
    <2>9. /\ Shut(actor'[a]) <=> Shut(actor[a])
          /\ Alive(actor'[a]) <=> Alive(actor[a])
      BY <2>3, <2>5 DEF Shut, Alive
    <2>10. Alive(actor'[a]) \/ Excused(a)  BY <2>9 DEF Alive, Excused
    <2>11. Knows(a)
      <3>1. CASE ~actor[a].physical
        <4>1. actor[a].physical \in BOOLEAN  BY <1>2, ActorStateIs
        <4>2. QED  BY <2>3, <2>5, <3>1, <4>1 DEF Knows
      <3>2. CASE stage = "Failed"
        <4>1. FailedOn(a)'  BY <1>2, <1>3, <2>5, <3>2 DEF FailedOn, TaskStage
        <4>2. QED  BY <4>1 DEF Knows
      <3>3. CASE actor[a].physical /\ stage # "Failed"
        BY <2>3, <2>5, <2>8, <3>3 DEF Knows
      <3>4. QED  BY <3>1, <3>2, <3>3
    <2>12. QED  BY <1>2, <2>5, <2>6, <2>7, <2>8, <2>9, <2>10, <2>11 DEF Effects
  <1>6. CASE LoseResource(a)
    <2>1. /\ \E D : Touches(a, D)
          /\ actor'[a].physical = FALSE /\ actor'[a].life = "Running"
          /\ Settles(a, "Lost") /\ unfinished' \subseteq unfinished
      BY <1>0, <1>6, LoseIs
    <2>2. PICK D : Touches(a, D)  BY <2>1
    <2>3. Shut(actor'[a])  BY <2>1 DEF Shut
    <2>4. LostOn(a)'  BY <1>2, <1>3, <2>1 DEF LostOn, TaskStage
    <2>5. Excused(a)  BY <2>4 DEF Excused
    <2> DEFINE X == IF actor[a].physical THEN Elements(actor[a].deferred) ELSE {}
    <2>6. ASSUME NEW d \in Client, call'[d] # call[d] PROVE Told(d)
      <3>1. Answers(WithDropped(Pilot(a), "SessionLost", X))  BY <1>6 DEF LoseResource
      <3>2. X \subseteq Work(a)  BY DEF Work
      <3> HIDE DEF X
      <3>3. \/ d \in Pilot(a) /\ Receives(d, "SessionLost")
            \/ d \in X /\ Receives(d, "SessionClosed")
        BY <2>6, <3>1, ReleaseIs
      <3>4. CASE d \in X /\ Receives(d, "SessionClosed")
        <4>1. call[d].on = a  BY <1>0, <3>2, <3>4 DEF MessagesOK, Waiting
        <4>2. QED  BY <2>3, <3>4, <4>1, WaiterTold
      <3>5. QED  BY <1>4, <3>3, <3>4
    <2>7. QED  BY <2>1, <2>2, <2>5, <2>6, ShutEffects
  <1>7. QED  BY <1>5, <1>6 DEF Ended

\* The end of an actor.
LEMMA FinishedEffects ==
    ASSUME Inv, NEW a \in Session, Finished(a)
    PROVE  Effects(a)
  <1>0. ActorInv /\ Finish(a) /\ ~Held(a)  BY DEF Inv, Finished
  <1>1. /\ Touches(a, {}) /\ UNCHANGED call /\ unfinished' \subseteq unfinished
        /\ actor'[a] = [Unborn EXCEPT !.life = "Ended"]
    BY <1>0, FinishIs
  <1>2. actor'[a].physical = FALSE /\ actor'[a].life = "Ended"  BY <1>1 DEF Unborn
  <1>3. Excused(a)  BY <1>0 DEF Excused
  <1>4. QED  BY <1>1, <1>2, <1>3, ShutEffects

\* The crash of an actor: its resource is as it was, and nobody is left with it.
LEMMA PanicEffects ==
    ASSUME Inv, NEW a \in Session, NEW c, PanicServing(a, c) \/ PanicReleasing(a)
    PROVE  Effects(a)
  <1>0. ActorInv /\ Typed /\ MessagesOK  BY DEF Inv, ActorInv
  <1>1. Running(a) /\ \E served \in SUBSET Waiting(a) : Crashes(a, served)
    BY <1>0, PanicIs
  <1>2. PICK served \in SUBSET Waiting(a) : Crashes(a, served)  BY <1>1
  <1>3. /\ \E D : Touches(a, D)
        /\ UNCHANGED unfinished /\ actor' = [actor EXCEPT ![a] = Crashed]
    BY <1>0, <1>1, <1>2, CrashIs
  <1>4. actor'[a].life = "Crashed"  BY <1>0, <1>3 DEF Crashed, Unborn, Typed
  <1>5. Shut(actor'[a]) /\ Alive(actor'[a]) /\ Knows(a)  BY <1>4 DEF Shut, Alive, Knows
  <1>6. PICK D : Touches(a, D)  BY <1>3
  <1>7. /\ \A b \in Session : b # a => actor'[b] = actor[b]
        /\ \A d \in Client : call'[d] = call[d] \/ Replied(d)
        /\ actor[a].life = "Running"
    BY <1>6, TouchesOne
  <1>8. ASSUME NEW d \in Client, call'[d] # call[d] PROVE Told(d)
    <2> DEFINE S == served \cup Elements(actor[a].deferred) \cup Elements(execQ[a])
                      \cup Elements(ctrlQ[a]) \cup Pilot(a)
    <2>1. Answers(To(S, "SessionClosed"))  BY <1>2 DEF Crashes
    <2>2. S \subseteq Waiting(a) \cup Pilot(a)  BY DEF Waiting, Work, Control
    <2> HIDE DEF S
    <2>3. DOMAIN To(S, "SessionClosed") = S /\ \A x \in S : To(S, "SessionClosed")[x] = "SessionClosed"
      BY DEF To
    <2>4. d \in S /\ Receives(d, To(S, "SessionClosed")[d])  BY <1>8, <2>1, <2>3, AnswerIs
    <2>5. Receives(d, "SessionClosed")  BY <2>3, <2>4
    <2>6. call[d].on = a \/ call[d].op \in Executes
      BY <1>0, <2>2, <2>4 DEF MessagesOK, Pilot, Executes
    <2>7. QED  BY <1>5, <2>5, <2>6, WaiterTold
  <1>9. QED  BY <1>3, <1>4, <1>5, <1>7, <1>8 DEF Effects

\* What the steps of actors and of backends do to the resources.
LEMMA WorksEffects ==
    ASSUME Inv, Works
    PROVE  UNCHANGED <<actor, unfinished, call>> \/ \E a \in Session : Effects(a)
  <1>1. ASSUME NEW a \in Session, NEW c \in Client, PanicServing(a, c) PROVE Effects(a)
    BY <1>1, PanicEffects
  <1>2. ASSUME NEW a \in Session, PanicReleasing(a) PROVE Effects(a)
    BY <1>2, PanicEffects
  <1>3. ASSUME NEW a \in Session, Bind(a) PROVE UNCHANGED <<actor, unfinished, call>>
    BY <1>3 DEF Bind
  <1>4. ASSUME NEW e \in Execution, Publish(e) PROVE UNCHANGED <<actor, unfinished, call>>
    BY <1>4 DEF Publish
  <1>5. QED
    BY <1>1, <1>2, <1>3, <1>4, QueuedEffects, ControlledEffects, EndedEffects, FinishedEffects
       DEF Works

--------------------------------------------------------------------------------
(* The steps of the actors keep the invariant.                                  *)

Opener(a, d) == d \in Work(a) /\ call[d].op = "Open"

\* A session that is being opened is its opener's secret.
LEMMA OpenerIs ==
    ASSUME Inv, Count, NEW a \in Session, NEW d, Opener(a, d)
    PROVE  /\ d \in Client /\ call[d].stage \in {"Sent", "Gone"}
           /\ a \notin rows /\ \A c \in Client : call[c].old # a
           /\ \A c \in Client : c # d => call[c].on # a /\ call[c].cand # a
           /\ \A e \in Execution : task[e].on # a
  <1>0. Typed /\ ActorInv /\ MessagesOK /\ PrivateOK  BY DEF Inv, ActorInv, Count
  <1>1. /\ d \in Client /\ call[d].stage \in {"Sent", "Gone"} /\ call[d].on = a
        /\ call[d].op = "Open"
    BY <1>0, WaitersApart DEF Opener, MessagesOK, Waiting
  <1>2. call[d] \in CallState /\ Shape(call[d])  BY <1>0, <1>1, Callers
  <1>3. call[d].plan \in {"Register", "Replace"}  BY <1>1, <1>2, OpPlan
  <1>4. call[d].cand # NoSession /\ call[d].cand = a  BY <1>1, <1>2, <1>3 DEF Shape
  <1>5. QED  BY <1>0, <1>1, <1>4 DEF PrivateOK

\* What an answer leaves of a call.
LEMMA RepliedIs ==
    ASSUME Inv, NEW c \in Client, Replied(c)
    PROVE  \/ call'[c] = Out
           \/ /\ call'[c].plan = call[c].plan /\ call'[c].op = call[c].op
              /\ call'[c].on = call[c].on /\ call'[c].old = call[c].old
              /\ call'[c].cand = call[c].cand
              /\ call[c].stage = "Sent" /\ call'[c].stage = "Answered"
  <1>1. call[c] \in CallState  BY Callers DEF Inv
  <1>2. CASE call[c].plan \in Relays  BY <1>2 DEF Replied
  <1>3. CASE call[c].plan \notin Relays
    <2>1. PICK x : call'[c] = [call[c] EXCEPT !.stage = "Answered", !.answer = x]
      BY <1>3 DEF Replied
    <2>2. QED  BY <1>1, <2>1, CallStateIs DEF Replied
  <1>4. QED  BY <1>2, <1>3

\* What ended stays in the books.
LEMMA EndsStay ==
    ASSUME \A e \in Execution : Kept(e), NEW a
    PROVE  /\ LostOn(a) => LostOn(a)'
           /\ FailedOn(a) => FailedOn(a)'
           /\ (\E e \in Execution : task[e].on = a /\ task[e].stage # "None") =>
                 \E e \in Execution : task'[e].on = a /\ task'[e].stage # "None"
  BY DEF Kept, LostOn, FailedOn

\* A step of an actor keeps what is shut, but for the session that is being opened.
LEMMA ShutStays ==
    ASSUME Inv, Count, NEW a \in Session, Effects(a), NEW b \in Session, Shut(actor[b]),
           \E c \in Client : call[c].old = b \/ (call[c].on = b /\ call[c].stage = "Answered")
    PROVE  Shut(actor'[b])
  <1>1. CASE b # a  BY <1>1 DEF Effects
  <1>2. CASE b = a
    <2>1. ASSUME NEW d, Opener(a, d) PROVE FALSE  BY <1>2, <2>1, OpenerIs
    <2>2. QED  BY <1>2, <2>1 DEF Effects, Opener
  <1>3. QED  BY <1>1, <1>2

\* A session opened for a call keeps its resource until the call has put it in the table.
LEMMA OpenedStays ==
    ASSUME Inv, Count, RowsOK, NEW a \in Session, Effects(a), NEW c \in Client, Opened(call[c]),
           \A e \in Execution : task'[e].on = task[e].on
    PROVE  Alive(actor'[call[c].cand])
  <1>0. /\ ActorInv /\ PrivateOK /\ call[c] \in CallState /\ Shape(call[c])
        /\ Alive(actor[call[c].cand])
    BY Callers DEF Inv, Count, RowsOK
  <1> DEFINE b == call[c].cand
  <1>1. call[c].plan \in {"Register", "Replace"} /\ call[c].op \in {"Open", "Hold", "Close"}
    BY <1>0, OpPlan DEF Opened
  <1>2. b # NoSession /\ b \in Session
    <2>1. b # NoSession  BY <1>0, <1>1 DEF Shape
    <2>2. QED  BY <1>0, <2>1, CallStateIs DEF Somewhere
  <1>3. /\ call[c].old # b
        /\ \A d \in Client : d # c => call[d].on # b
        /\ \A e \in Execution : task[e].on # b
    BY <1>0, <1>2 DEF PrivateOK
  <1>4. call[c].on = b => call[c].op \notin Enders
    <2>1. call[c].op = "Close" => call[c].on = call[c].old
      BY <1>0, <1>1, OpPlan DEF Shape
    <2>2. QED  BY <1>1, <1>3, <2>1 DEF Enders
  <1>5. CASE b # a  BY <1>0, <1>2, <1>5 DEF Effects
  <1>6. CASE b = a
    <2>1. actor[a].physical  BY <1>0, <1>6 DEF Alive, Effects
    <2>2. Held(a)
      <3>1. Waits(c)  BY <1>0, <1>1 DEF Waits, Opened, Shape, Out
      <3>2. QED  BY <1>6, <3>1 DEF Held
    <2>3. ~LostOn(a)'  BY <1>3, <1>6 DEF LostOn
    <2>4. ~Excused(a)  BY <1>3, <1>4, <1>6, <2>1, <2>2, <2>3 DEF Excused
    <2>5. QED  BY <1>6, <2>4 DEF Effects
  <1>7. QED  BY <1>5, <1>6

\* Work that is left is known.
LEMMA EffectsLeft ==
    ASSUME Inv, Count, LeftOK, NEW a \in Session, Effects(a), \A e \in Execution : Kept(e),
           unfinished' \subseteq Session
    PROVE  LeftOK'
  <1> SUFFICES ASSUME NEW b \in unfinished'
               PROVE  /\ \E e \in Execution : task'[e].on = b /\ task'[e].stage # "None"
                      /\ actor'[b].life = "Running" /\ actor'[b].physical =>
                            actor'[b].tx # "None" \/ actor'[b].handles # {} \/ FailedOn(b)'
    BY DEF LeftOK, Running
  <1>1. CASE b # a /\ b \in Session
    <2>1. b \in unfinished /\ actor'[b] = actor[b]  BY <1>1 DEF Effects
    <2>2. /\ \E e \in Execution : task[e].on = b /\ task[e].stage # "None"
          /\ actor[b].life = "Running" /\ actor[b].physical =>
                actor[b].tx # "None" \/ actor[b].handles # {} \/ FailedOn(b)
      BY <2>1 DEF LeftOK, Running
    <2>3. QED  BY <2>1, <2>2, EndsStay
  <1>2. CASE b = a
    <2>1. a \in unfinished \/ Flying(a)  BY <1>2 DEF Effects
    <2>2. \E e \in Execution : task[e].on = a /\ task[e].stage # "None"
      <3>1. CASE a \in unfinished  BY <3>1 DEF LeftOK
      <3>2. CASE Flying(a)  BY <3>2, FlightIs DEF Inv
      <3>3. QED  BY <2>1, <3>1, <3>2
    <2>3. ASSUME NEW d, Opener(a, d) PROVE FALSE  BY <2>2, <2>3, OpenerIs
    <2>4. Knows(a)  BY <2>3 DEF Effects, Opener
    <2>5. a \in unfinished /\ Same(actor[a], actor'[a]) =>
             (actor'[a].life = "Running" /\ actor'[a].physical =>
                 actor'[a].tx # "None" \/ actor'[a].handles # {} \/ FailedOn(a)')
      BY EndsStay DEF Same, LeftOK, Running
    <2>6. actor'[a].life = "Running" /\ actor'[a].physical =>
             actor'[a].tx # "None" \/ actor'[a].handles # {} \/ FailedOn(a)'
      BY <1>2, <2>4, <2>5 DEF Knows
    <2>7. QED  BY <1>2, <2>2, <2>6, EndsStay
  <1>3. QED  BY <1>1, <1>2

\* What callers were told stays true.
LEMMA EffectsRetired ==
    ASSUME Inv, Count, RetiredOK, NEW a \in Session, Effects(a), UNCHANGED rows
    PROVE  RetiredOK'
  <1> SUFFICES ASSUME NEW c \in Client
               PROVE  /\ Effective(call'[c]) => Shut(actor'[call'[c].on])
                      /\ call'[c].plan = "Replace" /\ call'[c].op = "Close"
                         /\ call'[c].stage \in {"Answered", "Publishing"}
                         => Shut(actor'[call'[c].old])
                      /\ call'[c].old # NoSession /\ call'[c].old \notin rows
                         => Shut(actor'[call'[c].old])
    BY DEF RetiredOK, Effective
  <1>0. call[c] \in CallState /\ Shape(call[c])  BY Callers DEF Inv
  <1>1. /\ call[c].old # NoSession => call[c].old \in Session
        /\ Effective(call[c]) => call[c].on \in Session
    BY <1>0, CallStateIs DEF Somewhere, Shape, Effective
  <1>2. call[c].plan = "Replace" => call[c].old # NoSession  BY <1>0 DEF Shape
  <1>3. call[c].old # NoSession /\ call[c].old \notin rows => Shut(actor'[call[c].old])
    BY <1>1, ShutStays DEF RetiredOK
  <1>4. CASE call'[c] = call[c]
    <2>1. Effective(call[c]) => Shut(actor'[call[c].on])
      BY <1>1, ShutStays DEF RetiredOK, Effective
    <2>2. call[c].plan = "Replace" /\ call[c].op = "Close" /\ call[c].stage \in {"Answered", "Publishing"}
          => Shut(actor'[call[c].old])
      BY <1>1, <1>2, ShutStays DEF RetiredOK
    <2>3. QED  BY <1>3, <1>4, <2>1, <2>2
  <1>5. CASE Replied(c) /\ Told(c)
    <2>1. CASE call'[c] = Out  BY <2>1 DEF Out, Effective
    <2>2. CASE /\ call'[c].plan = call[c].plan /\ call'[c].op = call[c].op
               /\ call'[c].on = call[c].on /\ call'[c].old = call[c].old
      <3>1. Effective(call'[c]) => Shut(actor'[call[c].on])  BY <1>5 DEF Told, Shut
      <3>2. call[c].plan = "Replace" /\ call[c].op = "Close" => Shut(actor'[call[c].old])
        <4>1. call[c].plan = "Replace" /\ call[c].op = "Close" =>
                 call[c].mode = "RollbackAndClose" /\ call[c].on = call[c].old
          BY <1>0 DEF Shape
        <4>2. QED  BY <1>5, <4>1 DEF Told
      <3>3. QED  BY <1>3, <2>2, <3>1, <3>2
    <2>3. QED  BY <1>5, <2>1, <2>2, RepliedIs
  <1>6. QED  BY <1>4, <1>5 DEF Effects

\* The rows have their resources still.
LEMMA EffectsRows ==
    ASSUME Inv, Count, RowsOK, NEW a \in Session, Effects(a), UNCHANGED rows,
           \A e \in Execution : Kept(e) /\ task'[e].on = task[e].on
    PROVE  RowsOK'
  <1>1. ASSUME NEW c \in Client, Opened(call'[c])
        PROVE  Alive(actor'[call'[c].cand])
    <2>1. CASE call'[c] = call[c]  BY <1>1, <2>1, OpenedStays
    <2>2. CASE Replied(c) /\ Told(c)
      <3>0. call[c] \in CallState /\ Shape(call[c])  BY Callers DEF Inv
      <3>1. /\ call'[c].plan = call[c].plan /\ call'[c].op = call[c].op
            /\ call'[c].cand = call[c].cand /\ call[c].stage = "Sent"
            /\ call'[c].stage = "Answered"
        BY <1>1, <2>2, RepliedIs DEF Opened, Out
      <3>2. CASE call[c].op = "Open" /\ call'[c].answer = "Ok"
        <4>1. call[c].plan \in {"Register", "Replace"}  BY <3>0, <3>2, OpPlan
        <4>2. call[c].on = call[c].cand  BY <3>0, <3>2, <4>1 DEF Shape
        <4>3. QED  BY <2>2, <3>1, <3>2, <4>2 DEF Told
      <3>3. CASE call[c].plan = "Replace" /\ call[c].op \in {"Hold", "Close"}
        <4>1. Opened(call[c])  BY <3>1, <3>3 DEF Opened
        <4>2. QED  BY <3>1, <4>1, OpenedStays
      <3>4. QED  BY <1>1, <3>1, <3>2, <3>3 DEF Opened
    <2>3. QED  BY <2>1, <2>2 DEF Effects
  <1>2. ASSUME NEW b \in rows
        PROVE  Alive(actor'[b]) \/ LostOn(b)' \/ \E c \in Client : Gives(c, b)'
    <2>0. b \in Session  BY DEF Inv, ActorInv, Typed
    <2>1. \A c \in Client : Gives(c, b) => Gives(c, b)'
      BY DEF Gives, Effective, Effects, Replied
    <2>2. LostOn(b) => LostOn(b)'  BY EndsStay
    <2>3. Alive(actor[b]) => Alive(actor'[b]) \/ LostOn(b)' \/ \E c \in Client : Gives(c, b)'
      <3>1. CASE b # a  BY <2>0, <3>1 DEF Effects
      <3>2. CASE b = a /\ Alive(actor[b]) /\ ~Alive(actor'[b])
        <4>1. actor[a].physical /\ Held(a)  BY <1>2, <3>2 DEF Effects, Alive, Held
        <4>2. \/ LostOn(a)'
              \/ \E c \in Client : /\ call[c].on = a /\ call[c].op \in Enders
                                   /\ call[c].stage = "Gone" \/ Effective(call'[c])
          BY <3>2, <4>1 DEF Effects, Excused
        <4>3. ASSUME NEW c \in Client, call[c].on = a, call[c].op \in Enders,
                     call[c].stage = "Gone" \/ Effective(call'[c])
              PROVE  Gives(c, a)'
          <5>1. CASE call'[c] = call[c]  BY <4>3, <5>1 DEF Gives, Effective
          <5>2. CASE Replied(c)
            <6>1. call[c].stage = "Sent"  BY <5>2 DEF Replied
            <6>2. Effective(call'[c])  BY <4>3, <6>1
            <6>3. call'[c].on = a /\ call'[c].op \in Enders
              BY <4>3, <5>2, <6>2, RepliedIs DEF Effective, Out
            <6>4. QED  BY <6>2, <6>3 DEF Gives, Effective
          <5>3. QED  BY <5>1, <5>2 DEF Effects
        <4>4. QED  BY <3>2, <4>2, <4>3
      <3>3. QED  BY <3>1, <3>2
    <2>4. QED  BY <2>1, <2>2, <2>3 DEF RowsOK
  <1>3. QED  BY <1>1, <1>2 DEF RowsOK, Opened, Gives, Effective, LostOn

\* A step that touches neither actors nor calls.
LEMMA QuietResources ==
    ASSUME Resources, UNCHANGED <<actor, unfinished, call, rows>>, \A e \in Execution : Kept(e)
    PROVE  Resources'
  <1>0. EndedOK /\ LeftOK /\ RetiredOK /\ RowsOK  BY DEF Resources
  <1>1. EndedOK'  BY <1>0 DEF EndedOK
  <1>2. LeftOK'
    <2> SUFFICES ASSUME NEW b \in unfinished
                 PROVE  /\ \E e \in Execution : task'[e].on = b /\ task'[e].stage # "None"
                        /\ Running(b) /\ actor[b].physical =>
                              actor[b].tx # "None" \/ actor[b].handles # {} \/ FailedOn(b)'
      BY DEF LeftOK, Running
    <2>1. QED  BY <1>0, EndsStay DEF LeftOK
  <1>3. RetiredOK'  BY <1>0 DEF RetiredOK, Effective
  <1>4. RowsOK'
    <2>1. \A b : LostOn(b) => LostOn(b)'  BY EndsStay
    <2>2. \A c \in Client, b \in rows : Gives(c, b) => Gives(c, b)'  BY DEF Gives, Effective
    <2>3. QED  BY <1>0, <2>1, <2>2 DEF RowsOK, Opened
  <1>5. QED  BY <1>1, <1>2, <1>3, <1>4 DEF Resources

\* No step of an actor or of a backend breaks what is known of the resources.
LEMMA WorksResources ==
    ASSUME Inv, Count, Resources, Works, UNCHANGED <<registryVars, begun>>
    PROVE  Resources'
  <1>0. /\ EndedOK /\ LeftOK /\ RetiredOK /\ RowsOK /\ UNCHANGED rows
        /\ unfinished' \subseteq Session
    <2>1. Inv'  BY WorksInv
    <2>2. unfinished' \subseteq Session  BY <2>1 DEF Inv, ActorInv, Typed
    <2>3. QED  BY <2>2 DEF Resources, registryVars
  <1>1. \A e \in Execution : Kept(e) /\ task'[e].on = task[e].on
    BY WorksKeep, WorksPasses
  <1>2. CASE UNCHANGED <<actor, unfinished, call>>  BY <1>0, <1>1, <1>2, QuietResources
  <1>3. ASSUME NEW a \in Session, Effects(a) PROVE Resources'
    <2>1. EndedOK'  BY <1>0, <1>3 DEF EndedOK, Effects
    <2>2. QED
      BY <1>0, <1>1, <1>3, <2>1, EffectsLeft, EffectsRetired, EffectsRows DEF Resources
  <1>4. QED  BY <1>2, <1>3, WorksEffects

--------------------------------------------------------------------------------
(* The steps of the calls keep the invariant.                                   *)

\* A step of one call: what it must have made sure of before it goes on as n.
LEMMA CallResources ==
    ASSUME Inv, Inv', Count, Resources, NEW c \in Client, NEW n, call' = [call EXCEPT ![c] = n],
           UNCHANGED unfinished, \A e \in Execution : Kept(e),
           \A b \in Session :
              \/ actor'[b] = actor[b]
              \/ actor[b].life = "Unborn" /\ actor'[b].physical = FALSE,
           \* what it is told is closed, and what it replaces
           Effective(n) => Shut(actor[n.on]),
           n.plan = "Replace" /\ n.op = "Close" /\ n.stage \in {"Answered", "Publishing"} =>
              Shut(actor[n.old]),
           n.old # NoSession => n.old \in rows \/ n.old = call[c].old,
           \* what it takes out of the table is closed, what it puts there is open
           \A b \in rows \ rows' : Shut(actor[b]),
           \A b \in rows' \ rows : Alive(actor[b]),
           Opened(n) => Alive(actor[n.cand]),
           \* and it does not forget what it has closed
           Effective(call[c]) => \/ call[c].on \notin rows'
                                 \/ n.on = call[c].on /\ n.op = call[c].op /\ n.stage = "Gone",
           call[c].stage # "Gone"
    PROVE  Resources'
  <1>0. /\ EndedOK /\ LeftOK /\ RetiredOK /\ RowsOK
        /\ call'[c] = n /\ \A d \in Client : d # c => call'[d] = call[d]
        /\ rows \subseteq Session /\ rows' \subseteq Session /\ unfinished \subseteq Session
        /\ \A d \in Client : call'[d] \in CallState /\ Shape(call'[d])
    <2>1. \A d \in Client : call'[d] \in CallState /\ Shape(call'[d])
      BY DEF Inv, ActorInv, Typed, ShapesOK
    <2>2. QED  BY <2>1 DEF Resources, Inv, ActorInv, Typed
  <1>1. \A b \in Session : /\ Shut(actor[b]) => Shut(actor'[b])
                           /\ Alive(actor[b]) => Alive(actor'[b])
    BY <1>0 DEF EndedOK, Shut, Alive
  <1>2. EndedOK'  BY <1>0 DEF EndedOK
  <1>3. LeftOK'
    <2> SUFFICES ASSUME NEW b \in unfinished
                 PROVE  /\ \E e \in Execution : task'[e].on = b /\ task'[e].stage # "None"
                        /\ actor'[b].life = "Running" /\ actor'[b].physical =>
                              actor'[b].tx # "None" \/ actor'[b].handles # {} \/ FailedOn(b)'
      BY DEF LeftOK, Running
    <2>1. b \in Session  BY <1>0
    <2>2. /\ \E e \in Execution : task[e].on = b /\ task[e].stage # "None"
          /\ actor[b].life = "Running" /\ actor[b].physical =>
                actor[b].tx # "None" \/ actor[b].handles # {} \/ FailedOn(b)
      BY <1>0 DEF LeftOK, Running
    <2>3. \E e \in Execution : task'[e].on = b /\ task'[e].stage # "None"  BY <2>2, EndsStay
    <2>4. actor'[b].physical => actor'[b] = actor[b]  BY <2>1
    <2>5. QED  BY <2>2, <2>3, <2>4, EndsStay
  <1>4. RetiredOK'
    <2> SUFFICES ASSUME NEW d \in Client
                 PROVE  /\ Effective(call'[d]) => Shut(actor'[call'[d].on])
                        /\ call'[d].plan = "Replace" /\ call'[d].op = "Close"
                           /\ call'[d].stage \in {"Answered", "Publishing"}
                           => Shut(actor'[call'[d].old])
                        /\ call'[d].old # NoSession /\ call'[d].old \notin rows'
                           => Shut(actor'[call'[d].old])
      BY DEF RetiredOK, Effective
    <2>1. /\ Effective(call'[d]) => Shut(actor[call'[d].on])
          /\ call'[d].plan = "Replace" /\ call'[d].op = "Close"
             /\ call'[d].stage \in {"Answered", "Publishing"}
             => Shut(actor[call'[d].old])
      BY <1>0 DEF RetiredOK
    <2>2. call'[d].old # NoSession => call'[d].old \in rows \/ Shut(actor[call'[d].old])
      <3>1. CASE d = c  BY <1>0, <3>1 DEF RetiredOK
      <3>2. CASE d # c  BY <1>0, <3>2 DEF RetiredOK
      <3>3. QED  BY <3>1, <3>2
    <2>3. call'[d].old # NoSession /\ call'[d].old \notin rows' => Shut(actor[call'[d].old])
      BY <2>2
    <2>4. /\ Effective(call'[d]) => call'[d].on \in Session
          /\ call'[d].old # NoSession => call'[d].old \in Session
          /\ call'[d].plan = "Replace" => call'[d].old # NoSession
      BY <1>0, CallStateIs DEF Somewhere, Shape, Effective
    <2>5. QED  BY <1>1, <2>1, <2>3, <2>4
  <1>5. RowsOK'
    <2>1. ASSUME NEW d \in Client, Opened(call'[d]) PROVE Alive(actor'[call'[d].cand])
      <3>1. Alive(actor[call'[d].cand])  BY <1>0, <2>1 DEF RowsOK
      <3>2. call'[d].cand \in Session
        <4>1. call'[d].plan \in {"Register", "Replace"} /\ call'[d].op \in {"Open", "Hold", "Close"}
          BY <1>0, <2>1, OpPlan DEF Opened
        <4>2. call'[d].cand # NoSession  BY <1>0, <4>1 DEF Shape
        <4>3. QED  BY <1>0, <4>2, CallStateIs DEF Somewhere
      <3>3. QED  BY <1>1, <3>1, <3>2
    <2>2. ASSUME NEW b \in rows'
          PROVE  Alive(actor'[b]) \/ LostOn(b)' \/ \E d \in Client : Gives(d, b)'
      <3>1. CASE Alive(actor[b])  BY <1>0, <1>1, <3>1
      <3>2. CASE b \in rows /\ LostOn(b)  BY <3>2, EndsStay
      <3>3. ASSUME NEW d \in Client, Gives(d, b) PROVE Gives(d, b)'
        <4>1. CASE d # c  BY <1>0, <3>3, <4>1 DEF Gives, Effective
        <4>2. CASE d = c
          <5>1. Effective(call[c]) /\ call[c].on = b /\ call[c].op \in Enders
            BY <3>3, <4>2 DEF Gives
          <5>2. n.on = b /\ n.op \in Enders /\ n.stage = "Gone"  BY <5>1
          <5>3. QED  BY <1>0, <4>2, <5>2 DEF Gives
        <4>3. QED  BY <4>1, <4>2
      <3>4. QED  BY <1>0, <3>1, <3>2, <3>3 DEF RowsOK
    <2>3. QED  BY <2>1, <2>2 DEF RowsOK, Opened, Gives, Effective, LostOn
  <1>6. QED  BY <1>2, <1>3, <1>4, <1>5 DEF Resources

\* A message that a call sends.
LEMMA SendResources ==
    ASSUME Inv, Inv', Count, Resources, NEW c \in Client, call[c].stage # "Gone",
           NEW r \in CallState, r.on \in Session, Send(c, r) \/ SendControl(c, r),
           UNCHANGED <<actor, unfinished, rows>>, \A e \in Execution : Kept(e),
           r.op # "Open", r.old # NoSession => r.old \in rows \/ r.old = call[c].old,
           r.plan = "Replace" /\ r.op = "Close" => r.on = r.old,
           r.plan = "Replace" /\ r.op \in {"Hold", "Close"} =>
               Opened(call[c]) /\ r.cand = call[c].cand,
           Effective(call[c]) => call[c].on \notin rows
    PROVE  Resources'
  <1> DEFINE m == [r EXCEPT !.stage = "Sent", !.answer = "None"]
             u == [r EXCEPT !.stage = "Answered", !.answer = "UnknownSession"]
  <1>1. \/ call' = [call EXCEPT ![c] = m]
        \/ ~Running(r.on) /\ call' = [call EXCEPT ![c] = u]
        \/ call' = [call EXCEPT ![c] = Out]
    BY DEF Send, SendControl, Posted
  <1>2. /\ m.plan = r.plan /\ m.op = r.op /\ m.on = r.on /\ m.old = r.old /\ m.cand = r.cand
        /\ m.stage = "Sent"
    BY CallStateIs
  <1>3. /\ u.plan = r.plan /\ u.op = r.op /\ u.on = r.on /\ u.old = r.old /\ u.cand = r.cand
        /\ u.stage = "Answered" /\ u.answer = "UnknownSession"
    BY CallStateIs
  <1>4. /\ Out.stage = "Out" /\ Out.plan = "Out" /\ Out.old = NoSession /\ Out.op = "None"
    BY DEF Out
  <1> HIDE DEF m, u
  <1>5. ~Effective(m) /\ ~Effective(u) /\ ~Effective(Out)
    BY <1>2, <1>3, <1>4 DEF Effective, Final
  <1>6. RetiredOK /\ RowsOK /\ EndedOK /\ actor \in [Session -> ActorState]
    BY DEF Resources, Inv, ActorInv, Typed
  <1>7. Opened(call[c]) => Alive(actor[call[c].cand])  BY <1>6 DEF RowsOK
  <1>8. ~Running(r.on) => Shut(actor[r.on])
    <2>1. actor[r.on].life \in Life  BY <1>6, ActorStateIs
    <2>2. QED  BY <1>6, <2>1 DEF EndedOK, Shut, Running, Life
  <1>9. CASE call' = [call EXCEPT ![c] = m]
    <2>1. Opened(m) => Alive(actor[m.cand])  BY <1>2, <1>7 DEF Opened
    <2>2. QED  BY <1>2, <1>5, <1>9, <2>1, CallResources
  <1>10. CASE ~Running(r.on) /\ call' = [call EXCEPT ![c] = u]
    <2>1. Opened(u) => Alive(actor[u.cand])  BY <1>3, <1>7 DEF Opened
    <2>2. QED  BY <1>3, <1>5, <1>8, <1>10, <2>1, CallResources
  <1>11. CASE call' = [call EXCEPT ![c] = Out]
    <2>1. ~Opened(Out)  BY <1>4 DEF Opened
    <2>2. QED  BY <1>4, <1>5, <1>11, <2>1, CallResources
  <1>12. QED  BY <1>1, <1>9, <1>10, <1>11

\* A call that returns, or only moves on, with what it takes out and puts in.
LEMMA ReturnResources ==
    ASSUME Inv, Inv', Count, Resources, NEW c \in Client, call[c].stage # "Gone",
           NEW n, call' = [call EXCEPT ![c] = n], UNCHANGED <<actor, unfinished, task>>,
           n.stage \in {"Out", "Choosing"}, n.plan # "Replace",
           n.old = NoSession, n.op # "Open" \/ n.stage = "Out",
           \A b \in rows \ rows' : Shut(actor[b]), \A b \in rows' \ rows : Alive(actor[b]),
           Effective(call[c]) => call[c].on \notin rows'
    PROVE  Resources'
  <1>1. ~Effective(n) /\ ~Opened(n)  BY DEF Effective, Opened
  <1>2. \A e \in Execution : Kept(e)  BY DEF Kept
  <1>3. QED  BY <1>1, <1>2, CallResources

\* A new actor.
LEMMA SpawnResources ==
    ASSUME Inv, Inv', Count, Resources, NEW c \in Client, call[c].stage # "Gone",
           NEW r \in CallState, r.cand \in Session, NEW deadline, Spawn(c, r, deadline), UNCHANGED rows,
           r.old # NoSession => r.old = call[c].old, ~Effective(call[c])
    PROVE  Resources'
  <1> DEFINE n == [r EXCEPT !.op = "Open", !.on = r.cand, !.stage = "Sent", !.answer = "None"]
             s == [Unborn EXCEPT !.life = "Running", !.deadline = deadline]
  <1>1. /\ actor[r.cand].life = "Unborn" /\ actor' = [actor EXCEPT ![r.cand] = s]
        /\ call' = [call EXCEPT ![c] = n] /\ UNCHANGED <<task, unfinished>>
    BY DEF Spawn
  <1>2. n.stage = "Sent" /\ n.old = r.old /\ n.op = "Open"  BY CallStateIs
  <1>3. s.physical = FALSE  BY DEF Unborn
  <1> HIDE DEF n, s
  <1>4. actor \in [Session -> ActorState]  BY DEF Inv, ActorInv, Typed
  <1>5. \A b \in Session : \/ actor'[b] = actor[b]
                           \/ actor[b].life = "Unborn" /\ actor'[b].physical = FALSE
    BY <1>1, <1>3, <1>4
  <1>6. ~Effective(n) /\ ~Opened(n)  BY <1>2 DEF Effective, Opened
  <1>7. \A e \in Execution : Kept(e)  BY <1>1 DEF Kept
  <1>8. QED  BY <1>1, <1>2, <1>5, <1>6, <1>7, CallResources

\* A call that sends its first message.
LEMMA FirstSendResources ==
    ASSUME Inv, Inv', Count, Resources, NEW c \in Client, NEW what, Calls(c, what),
           NEW r \in CallState, r.on \in Session, Send(c, r) \/ SendControl(c, r),
           UNCHANGED <<actor, unfinished, registryVars>>, \A e \in Execution : Kept(e),
           r.op \in {"View", "Close", "SetIdleDeadline", "Cancel", "Execute", "ExecuteBound"},
           r.plan = "Replace" => r.op = "View",
           r.old \in rows \cup {NoSession}
    PROVE  Resources'
  <1>1. call[c].stage = "Out" /\ ~Effective(call[c])  BY DEF Calls, Effective
  <1>2. UNCHANGED rows  BY DEF registryVars
  <1>3. QED  BY <1>1, <1>2, SendResources

\* A call that begins knows of nothing yet.
LEMMA BeginsResources ==
    ASSUME Inv, Count, Resources, NEW c \in Client, Begins(c)
    PROVE  Resources'
  <1>1. Typed /\ Inv' /\ \A e \in Execution : Kept(e)
    BY BeginsInv, CallsKeep DEF Inv, ActorInv
  <1>2. ASSUME ConfirmQuarantined(c) PROVE Resources'
    BY <1>1, <1>2, QuietResources DEF ConfirmQuarantined, actorVars
  <1>3. ASSUME NEW what \in {"Evict", "InvalidateWorker"}, Scan(c, what) PROVE Resources'
    <2> DEFINE n == [Out EXCEPT !.plan = what, !.left = rows, !.stage = "Choosing"]
    <2>1. Calls(c, what) /\ call' = [call EXCEPT ![c] = n]
          /\ UNCHANGED <<actor, unfinished, task, rows>>
      BY <1>3 DEF Scan, actorVars, registryVars
    <2>2. n.stage = "Choosing" /\ n.plan # "Replace" /\ n.old = NoSession /\ n.op = "None"
      BY DEF Out
    <2> HIDE DEF n
    <2>3. call[c].stage = "Out" /\ ~Effective(call[c])  BY <2>1 DEF Calls, Effective
    <2>4. QED  BY <1>1, <2>1, <2>2, <2>3, ReturnResources
  <1>4. ASSUME NEW a \in Session, Register(c, a) PROVE Resources'
    <2> DEFINE r == [Out EXCEPT !.plan = "Register", !.cand = a]
    <2>1. Calls(c, "Register") /\ Spawn(c, r, IdleEviction) /\ UNCHANGED rows
      BY <1>4 DEF Register
    <2>2. r \in CallState  BY OutType, CallStateIs DEF Plan, Somewhere
    <2>3. r.cand = a /\ r.old = NoSession  BY DEF Out
    <2> HIDE DEF r
    <2>4. call[c].stage = "Out" /\ ~Effective(call[c])  BY <2>1 DEF Calls, Effective
    <2>5. QED  BY <1>1, <2>1, <2>2, <2>3, <2>4, SpawnResources
  <1>5. ASSUME NEW a \in Session, CallView(c, a) PROVE Resources'
    <2> DEFINE r == [Out EXCEPT !.plan = "View", !.op = "View", !.on = a]
    <2>1. Calls(c, "View") /\ Send(c, r) /\ UNCHANGED <<actor, unfinished, registryVars>>
      BY <1>5 DEF CallView
    <2>2. r \in CallState
      BY OutType, CallStateIs, ZenonT(60) DEF Plan, Operation, Somewhere
    <2>3. r.op = "View" /\ r.on = a /\ r.old = NoSession /\ r.plan = "View"  BY DEF Out
    <2> HIDE DEF r
    <2>4. QED  BY <1>1, <2>1, <2>2, <2>3, FirstSendResources
  <1>6. ASSUME NEW a \in Session, CallReplace(c, a) PROVE Resources'
    <2> DEFINE r == [Out EXCEPT !.plan = "Replace", !.op = "View", !.on = a, !.old = a]
    <2>1. /\ Calls(c, "Replace") /\ Send(c, r) /\ UNCHANGED <<actor, unfinished, registryVars>>
          /\ a \in rows
      BY <1>6 DEF CallReplace
    <2>2. r \in CallState
      BY OutType, CallStateIs, ZenonT(60) DEF Plan, Operation, Somewhere
    <2>3. r.op = "View" /\ r.on = a /\ r.old = a  BY DEF Out
    <2> HIDE DEF r
    <2>4. QED  BY <1>1, <2>1, <2>2, <2>3, FirstSendResources
  <1>7. ASSUME NEW a \in Session, NEW arms \in BOOLEAN, CallSetIdleDeadline(c, a, arms)
        PROVE  Resources'
    <2> DEFINE r == [Out EXCEPT !.plan = "SetIdleDeadline", !.op = "SetIdleDeadline", !.on = a,
                                !.arms = arms]
    <2>1. Calls(c, "SetIdleDeadline") /\ Send(c, r)
          /\ UNCHANGED <<actor, unfinished, registryVars>>
      BY <1>7 DEF CallSetIdleDeadline
    <2>2. r \in CallState
      BY OutType, CallStateIs, ZenonT(60) DEF Plan, Operation, Somewhere
    <2>3. r.op = "SetIdleDeadline" /\ r.on = a /\ r.old = NoSession /\ r.plan = "SetIdleDeadline"
      BY DEF Out
    <2> HIDE DEF r
    <2>4. QED  BY <1>1, <2>1, <2>2, <2>3, FirstSendResources
  <1>8. ASSUME NEW a \in Session, NEW mode \in {"RequireNoTransaction", "RollbackAndClose"},
               CallClose(c, a, mode)
        PROVE  Resources'
    <2> DEFINE r == [Out EXCEPT !.plan = "Close", !.op = "Close", !.on = a, !.mode = mode]
    <2>1. Calls(c, "Close") /\ Send(c, r) /\ UNCHANGED <<actor, unfinished, registryVars>>
      BY <1>8 DEF CallClose
    <2>2. r \in CallState
      BY OutType, CallStateIs, ZenonT(60) DEF Plan, Operation, Somewhere
    <2>3. r.op = "Close" /\ r.on = a /\ r.old = NoSession /\ r.plan = "Close"  BY DEF Out
    <2> HIDE DEF r
    <2>4. QED  BY <1>1, <2>1, <2>2, <2>3, FirstSendResources
  <1>9. ASSUME NEW a \in Session, NEW e \in Execution, CallCancel(c, a, e) PROVE Resources'
    <2> DEFINE r == [Out EXCEPT !.plan = "Cancel", !.op = "Cancel", !.on = a, !.exec = e]
    <2>1. Calls(c, "Cancel") /\ SendControl(c, r)
          /\ UNCHANGED <<actor, unfinished, registryVars>>
      BY <1>9 DEF CallCancel
    <2>2. r \in CallState
      BY OutType, CallStateIs, ZenonT(60) DEF Plan, Operation, Somewhere
    <2>3. r.op = "Cancel" /\ r.on = a /\ r.old = NoSession /\ r.plan = "Cancel"  BY DEF Out
    <2> HIDE DEF r
    <2>4. QED  BY <1>1, <2>1, <2>2, <2>3, FirstSendResources
  <1>10. ASSUME NEW a \in Session, NEW e \in Execution, NEW op \in {"Execute", "ExecuteBound"},
                CallExecute(c, a, op, e)
         PROVE  Resources'
    <2> DEFINE r == [Out EXCEPT !.plan = "Execute", !.op = op, !.on = a, !.exec = e,
                                !.revision = actor[a].revision]
    <2>1. Calls(c, op) /\ Send(c, r) /\ UNCHANGED <<actor, unfinished, registryVars>>
      BY <1>10 DEF CallExecute
    <2>2. r \in CallState
      <3>1. actor[a].revision \in 0..MaxRevision  BY <1>1, ActorStateIs DEF Typed
      <3>2. QED  BY <3>1, OutType, CallStateIs, ZenonT(60) DEF Plan, Operation, Somewhere
    <2>3. r.op = op /\ r.on = a /\ r.old = NoSession /\ r.plan = "Execute"  BY DEF Out
    <2> HIDE DEF r
    <2>4. QED  BY <1>1, <2>1, <2>2, <2>3, FirstSendResources
  <1>11. QED
    BY <1>2, <1>3, <1>4, <1>5, <1>6, <1>7, <1>8, <1>9, <1>10 DEF Begins

\* What a call that goes on is, by its plan: none has gone, and a session that waits to be
\* published is open.
LEMMA StepIs ==
    ASSUME Inv, Count, Resources, NEW c \in Client
    PROVE  /\ call[c] \in CallState /\ Shape(call[c])
           /\ call[c].plan = "Replace" => /\ call[c].old \in Session
                                          /\ call[c].op # "Open" => call[c].on = call[c].old
           /\ call[c].plan \in {"Register", "Replace"} => call[c].stage # "Out"
           /\ call[c].plan \in {"Undo", "UndoHeld"} =>
                 /\ call[c].old \in Session
                 /\ call[c].op = "Close" => call[c].on = call[c].cand /\ call[c].on \notin rows
           /\ Effective(call[c]) => Shut(actor[call[c].on])
           /\ Opened(call[c]) => Alive(actor[call[c].cand])
  <1>1. call[c] \in CallState /\ Shape(call[c]) /\ PrivateOK /\ RetiredOK /\ RowsOK
    BY Callers DEF Inv, Count, Resources
  <1>2. call[c].plan \in {"Replace", "Undo", "UndoHeld"} => call[c].old \in Session
    <2>1. call[c].plan \in {"Replace", "Undo", "UndoHeld"} => call[c].old # NoSession
      BY <1>1 DEF Shape
    <2>2. QED  BY <1>1, <2>1, CallStateIs DEF Somewhere
  <1>3. call[c].plan = "Replace" /\ call[c].op # "Open" => call[c].on = call[c].old
    BY <1>1 DEF Shape
  <1>4. call[c].plan \in {"Register", "Replace"} => call[c].stage # "Out"
    BY <1>1 DEF Shape, Out
  <1>5. call[c].plan \in {"Undo", "UndoHeld"} /\ call[c].op = "Close" =>
           call[c].on = call[c].cand /\ call[c].on \notin rows
    <2>1. call[c].plan \in {"Undo", "UndoHeld"} /\ call[c].op = "Close" =>
             call[c].cand # NoSession /\ call[c].on = call[c].cand
      BY <1>1 DEF Shape
    <2>2. call[c].cand # NoSession => call[c].cand \notin rows  BY <1>1 DEF PrivateOK
    <2>3. QED  BY <2>1, <2>2
  <1>6. QED  BY <1>1, <1>2, <1>3, <1>4, <1>5 DEF RetiredOK, RowsOK

\* The calls that end.
LEMMA ClosesResources ==
    ASSUME Inv, Inv', Count, Resources, NEW c \in Client,
           Registered(c) \/ Closed(c) \/ ScanDone(c) \/ AbandonReplace(c) \/ PublishCandidate(c)
           \/ Resumed(c)
    PROVE  Resources'
  <1>1. call' = [call EXCEPT ![c] = Out] /\ UNCHANGED <<actor, unfinished, task>>
    BY DEF Registered, Closed, ScanDone, AbandonReplace, PublishCandidate, Resumed, actorVars, Returns
  <1>2. /\ Out.stage = "Out" /\ Out.plan = "Out" /\ Out.old = NoSession /\ Out.op = "None"
    BY DEF Out
  <1>3. /\ call[c] \in CallState /\ Shape(call[c])
        /\ Effective(call[c]) => Shut(actor[call[c].on])
        /\ Opened(call[c]) => Alive(actor[call[c].cand])
    BY StepIs
  <1>4. call[c].stage # "Gone"
    BY DEF Registered, Closed, ScanDone, AbandonReplace, PublishCandidate, Resumed, AtStep, Answered
  <1>5. SUFFICES /\ \A b \in rows \ rows' : Shut(actor[b])
                 /\ \A b \in rows' \ rows : Alive(actor[b])
                 /\ Effective(call[c]) => call[c].on \notin rows'
    BY <1>1, <1>2, <1>4, ReturnResources
  <1>6. CASE Registered(c)
    <2>1. call[c].op = "Open" /\ call[c].stage = "Answered"
      BY <1>3, <1>6 DEF Registered, Answered, Shape
    <2>2. ~Effective(call[c])  BY <2>1 DEF Effective, Final
    <2>3. \/ rows' = rows
          \/ Opened(call[c]) /\ rows' = rows \cup {call[c].cand}
      BY <1>6, <2>1 DEF Registered, Opened
    <2>4. QED  BY <1>3, <2>2, <2>3
  <1>7. CASE Closed(c)
    <2>1. call[c].op = "Close" /\ call[c].stage = "Answered"
      BY <1>3, <1>7 DEF Closed, Answered, Shape
    <2>2. Effective(call[c]) <=> call[c].answer \in {"Ok", "SessionLost"}
      BY <2>1 DEF Effective, Final
    <2>3. rows' = IF Effective(call[c]) THEN rows \ {call[c].on} ELSE rows
      BY <1>7, <2>2 DEF Closed, Forget
    <2>4. QED  BY <1>3, <2>3
  <1>8. CASE ScanDone(c)  BY <1>8 DEF ScanDone, Effective
  <1>9. CASE AbandonReplace(c)
    <2>1. call[c].op \in {"View", "Open"} /\ rows' = rows
      BY <1>9 DEF AbandonReplace, AtStep
    <2>2. QED  BY <2>1 DEF Effective, Final
  <1>10. CASE PublishCandidate(c)
    <2>1. call[c].stage = "Publishing" /\ rows' = rows \cup {call[c].cand}
      BY <1>10 DEF PublishCandidate
    <2>2. Opened(call[c]) /\ ~Effective(call[c])  BY <1>3, <2>1 DEF Shape, Opened, Effective
    <2>3. QED  BY <1>3, <2>1, <2>2
  <1>11. CASE Resumed(c)
    <2>1. call[c].op = "Resume" /\ rows' = rows  BY <1>11 DEF Resumed, AtStep, registryVars
    <2>2. QED  BY <2>1 DEF Effective, Final
  <1>12. QED  BY <1>6, <1>7, <1>8, <1>9, <1>10, <1>11

\* The scans.
LEMMA ScansResources ==
    ASSUME Inv, Inv', Count, Resources, NEW c \in Client,
           Evicted(c) \/ Invalidated(c) \/ \E a \in Session : Visit(c, a)
    PROVE  Resources'
  <1>1. /\ call[c] \in CallState /\ Shape(call[c])
        /\ Effective(call[c]) => Shut(actor[call[c].on])
    BY StepIs
  <1>2. ASSUME NEW r \in CallState, call[c].stage # "Gone", MovesOn(c, r),
               r.plan \in {"Evict", "InvalidateWorker"},
               r.old = NoSession, r.op # "Open", UNCHANGED <<actor, unfinished, task>>,
               rows' = IF Effective(call[c]) THEN rows \ {call[c].on} ELSE rows
        PROVE  Resources'
    <2> DEFINE n == [r EXCEPT !.stage = "Choosing", !.on = NoSession]
    <2>1. call' = [call EXCEPT ![c] = n]  BY <1>2 DEF MovesOn
    <2>2. n.stage = "Choosing" /\ n.plan = r.plan /\ n.old = r.old /\ n.op = r.op
      BY <1>2, CallStateIs
    <2> HIDE DEF n
    <2>3. /\ \A b \in rows \ rows' : Shut(actor[b])
          /\ \A b \in rows' \ rows : Alive(actor[b])
          /\ Effective(call[c]) => call[c].on \notin rows'
      BY <1>1, <1>2
    <2>4. QED  BY <1>2, <2>1, <2>2, <2>3, ReturnResources
  <1>3. ASSUME call[c].plan \in {"Evict", "InvalidateWorker"}
        PROVE  /\ call[c].old = NoSession /\ call[c].op # "Open"
               /\ call[c].stage = "Answered" => call[c].op = call[c].plan
    BY <1>1, <1>3 DEF Shape
  <1>4. CASE Evicted(c)
    <2>1. /\ call[c].plan = "Evict" /\ call[c].stage = "Answered" /\ MovesOn(c, call[c])
          /\ UNCHANGED <<actor, unfinished, task>>
      BY <1>4 DEF Evicted, Answered, actorVars
    <2>2. call[c].op = "Evict"  BY <1>3, <2>1
    <2>3. Effective(call[c]) <=> call[c].answer \in {"Ok", "SessionLost"}
      BY <2>1, <2>2 DEF Effective, Final
    <2>4. rows' = IF Effective(call[c]) THEN rows \ {call[c].on} ELSE rows
      BY <1>4, <2>3 DEF Evicted, Forget
    <2>5. QED  BY <1>1, <1>2, <1>3, <2>1, <2>4
  <1>5. CASE Invalidated(c)
    <2>1. /\ call[c].plan = "InvalidateWorker" /\ call[c].stage = "Answered"
          /\ UNCHANGED <<actor, unfinished, task>>
      BY <1>5 DEF Invalidated, Answered, actorVars
    <2>2. call[c].op = "InvalidateWorker"  BY <1>3, <2>1
    <2>3. Effective(call[c]) <=> call[c].answer \in {"Ok", "NotHere"}
      BY <2>1, <2>2 DEF Effective, Final
    <2>4. rows' = IF Effective(call[c]) THEN rows \ {call[c].on} ELSE rows
      BY <1>5, <2>3 DEF Invalidated
    <2> DEFINE X == call[c].lost \cup (rows \cap {call[c].on})
               r == [call[c] EXCEPT !.lost = X]
    <2>5. MovesOn(c, call[c]) \/ MovesOn(c, r)  BY <1>5 DEF Invalidated
    <2>6. CASE MovesOn(c, call[c])  BY <1>1, <1>2, <1>3, <2>1, <2>4, <2>6
    <2>7. CASE MovesOn(c, r)
      <3>1. X \in SUBSET Session  BY <1>1, CallStateIs DEF Inv, ActorInv, Typed
      <3>2. r \in CallState  BY <1>1, <3>1, CallTypes
      <3>3. r.plan = call[c].plan /\ r.old = call[c].old /\ r.op = call[c].op
        BY <1>1, CallStateIs
      <3> HIDE DEF r, X
      <3>4. QED  BY <1>2, <1>3, <2>1, <2>4, <2>7, <3>2, <3>3
    <2>8. QED  BY <2>5, <2>6, <2>7
  <1>6. ASSUME NEW a \in Session, Visit(c, a) PROVE Resources'
    <2> DEFINE n == [call[c] EXCEPT !.on = a, !.left = @ \ {a}, !.op = call[c].plan]
    <2>1. /\ call[c].stage = "Choosing" /\ UNCHANGED <<actor, task, unfinished, registryVars>>
          /\ \/ call[c].plan = "Evict" /\ Send(c, n)
             \/ call[c].plan = "InvalidateWorker" /\ SendControl(c, n)
      BY <1>6, ZenonT(60) DEF Visit
    <2>2. n \in CallState /\ n.on = a /\ n.op = call[c].plan  BY <1>1, <2>1, VisitShape
    <2>3. n.old = call[c].old /\ n.plan = call[c].plan  BY <1>1, CallStateIs
    <2> HIDE DEF n
    <2>4. /\ \A e \in Execution : Kept(e)
          /\ UNCHANGED <<actor, unfinished, rows>> /\ ~Effective(call[c])
      BY <2>1 DEF Kept, registryVars, Effective
    <2>5. n.old = NoSession /\ n.op # "Open" /\ n.plan # "Replace" /\ (Send(c, n) \/ SendControl(c, n))
      BY <1>3, <2>1, <2>2, <2>3
    <2>6. QED  BY <2>1, <2>2, <2>4, <2>5, SendResources
  <1>7. QED  BY <1>4, <1>5, <1>6

\* A replacement: the candidate is published after the old session is closed, and undone
\* when that cannot be.
LEMMA ReplacesResources ==
    ASSUME Inv, Inv', Count, Resources, NEW c \in Client,
           \/ HoldOld(c) \/ RetireOld(c) \/ OldRetired(c) \/ UndoReplace(c) \/ CandidateDestroyed(c)
           \/ \E a \in Session : OpenCandidate(c, a)
    PROVE  Resources'
  <1>1. /\ call[c] \in CallState /\ Shape(call[c]) /\ RetiredOK
        /\ Effective(call[c]) => Shut(actor[call[c].on])
        /\ Opened(call[c]) => Alive(actor[call[c].cand])
        /\ call[c].plan = "Replace" => /\ call[c].old \in Session
                                       /\ call[c].op # "Open" => call[c].on = call[c].old
        /\ call[c].plan \in {"Undo", "UndoHeld"} =>
              /\ call[c].old \in Session
              /\ call[c].op = "Close" => call[c].on = call[c].cand /\ call[c].on \notin rows
    BY StepIs DEF Resources
  <1>2. UNCHANGED task => \A e \in Execution : Kept(e)  BY DEF Kept
  <1>3. call[c].op \in {"View", "Open", "Hold", "Resume"} => ~Effective(call[c])
    BY DEF Effective, Final
  <1>4. call[c].stage = "Answered"
    BY DEF HoldOld, RetireOld, OldRetired, UndoReplace, CandidateDestroyed, OpenCandidate,
           AtStep, Answered
  <1>5. ASSUME NEW a \in Session, OpenCandidate(c, a) PROVE Resources'
    <2> DEFINE r == [call[c] EXCEPT !.cand = a]
    <2>1. AtStep(c, "Replace", "View") /\ Spawn(c, r, FALSE) /\ UNCHANGED rows
      BY <1>5, Zenon DEF OpenCandidate
    <2>2. call[c].plan = "Replace" /\ call[c].op = "View"  BY <2>1 DEF AtStep, Answered
    <2>3. r \in CallState /\ r.cand = a  BY <1>1, <1>4, <2>2, ReplaceShape, Zenon
    <2>4. r.old = call[c].old  BY <1>1, CallStateIs
    <2> HIDE DEF r
    <2>5. QED  BY <1>3, <1>4, <2>1, <2>2, <2>3, <2>4, SpawnResources
  <1>6. CASE HoldOld(c)
    <2> DEFINE n == [call[c] EXCEPT !.op = "Hold", !.on = call[c].old]
    <2>1. /\ AtStep(c, "Replace", "Open") /\ call[c].answer = "Ok" /\ Send(c, n)
          /\ UNCHANGED <<actor, unfinished, rows, task>>
      BY <1>6 DEF HoldOld, registryVars
    <2>2. call[c].plan = "Replace" /\ call[c].op = "Open"  BY <2>1 DEF AtStep, Answered
    <2>3. n \in CallState /\ n.on \in Session /\ n.op = "Hold"
      BY <1>1, <1>4, <2>2, ReplaceShape, Zenon
    <2>4. n.cand = call[c].cand /\ n.old = call[c].old /\ n.plan = call[c].plan
      BY <1>1, CallStateIs
    <2> HIDE DEF n
    <2>5. Opened(call[c])  BY <1>4, <2>1, <2>2 DEF Opened
    <2>6. QED  BY <1>2, <1>3, <1>4, <2>1, <2>2, <2>3, <2>4, <2>5, SendResources
  <1>7. CASE RetireOld(c)
    <2> DEFINE n == [call[c] EXCEPT !.op = "Close", !.on = call[c].old]
               p == [n EXCEPT !.stage = "Publishing"]
    <2>1. /\ AtStep(c, "Replace", "Hold") /\ UNCHANGED <<actor, unfinished, rows, task>>
          /\ \/ Send(c, n)
             \/ call[c].old \notin rows /\ call' = [call EXCEPT ![c] = p]
      BY <1>7 DEF RetireOld, registryVars
    <2>2. call[c].plan = "Replace" /\ call[c].op = "Hold"  BY <2>1 DEF AtStep, Answered
    <2>3. n \in CallState /\ n.on \in Session /\ n.op = "Close"
      BY <1>1, <1>4, <2>2, ReplaceShape, Zenon
    <2>4. /\ n.cand = call[c].cand /\ n.old = call[c].old /\ n.plan = call[c].plan
          /\ n.on = call[c].old
      BY <1>1, CallStateIs
    <2>5. /\ p.cand = call[c].cand /\ p.old = call[c].old /\ p.plan = call[c].plan
          /\ p.on = call[c].old /\ p.op = "Close" /\ p.stage = "Publishing"
      BY <1>1, CallStateIs
    <2> HIDE DEF n, p
    <2>6. Opened(call[c]) /\ ~Effective(call[c])  BY <1>3, <1>4, <2>2 DEF Opened
    <2>7. CASE Send(c, n)
      BY <1>2, <1>4, <2>1, <2>2, <2>3, <2>4, <2>6, <2>7, SendResources
    <2>8. CASE call[c].old \notin rows /\ call' = [call EXCEPT ![c] = p]
      <3>1. Shut(actor[p.old])  BY <1>1, <2>2, <2>5, <2>8, ActorAssumption DEF RetiredOK
      <3>2. ~Effective(p) /\ Alive(actor[p.cand])  BY <1>1, <2>5, <2>6 DEF Effective
      <3>3. QED  BY <1>2, <1>4, <2>1, <2>5, <2>6, <2>8, <3>1, <3>2, CallResources
    <2>9. QED  BY <2>1, <2>7, <2>8
  <1>8. CASE OldRetired(c)
    <2> DEFINE p == [call[c] EXCEPT !.stage = "Publishing"]
    <2>1. /\ AtStep(c, "Replace", "Close") /\ UNCHANGED <<actor, unfinished, task>>
          /\ call' = [call EXCEPT ![c] = p]
      BY <1>8 DEF OldRetired, actorVars
    <2>2. call[c].plan = "Replace" /\ call[c].op = "Close"  BY <2>1 DEF AtStep, Answered
    <2>3. /\ p.cand = call[c].cand /\ p.old = call[c].old /\ p.plan = call[c].plan
          /\ p.on = call[c].on /\ p.op = "Close" /\ p.stage = "Publishing"
      BY <1>1, <2>2, CallStateIs
    <2> HIDE DEF p
    <2>4. Shut(actor[call[c].old])  BY <1>1, <1>4, <2>2 DEF RetiredOK
    <2>5. Effective(call[c]) <=> call[c].answer \in {"Ok", "SessionLost"}
      BY <1>4, <2>2 DEF Effective, Final
    <2>6. rows' = IF Effective(call[c]) THEN rows \ {call[c].old} ELSE rows
      BY <1>8, <2>5 DEF OldRetired, Forget
    <2>7. call[c].on = call[c].old  BY <1>1, <2>2
    <2>8. Opened(call[c])  BY <1>4, <2>2 DEF Opened
    <2>9. ~Effective(p) /\ Alive(actor[p.cand]) /\ Shut(actor[p.old])
      BY <1>1, <2>3, <2>4, <2>8 DEF Effective
    <2>10. QED  BY <1>2, <1>4, <2>1, <2>3, <2>4, <2>6, <2>7, <2>9, CallResources
  <1>9. CASE UndoReplace(c)
    <2> DEFINE plan == IF call[c].op = "Hold" /\ call[c].answer = "Ok" THEN "UndoHeld" ELSE "Undo"
               n == [call[c] EXCEPT !.plan = plan, !.op = "Close", !.on = call[c].cand]
    <2>1. /\ AtStep(c, "Replace", "Open") \/ AtStep(c, "Replace", "Hold")
          /\ Send(c, n) /\ UNCHANGED <<actor, unfinished, rows, task>>
      BY <1>9 DEF UndoReplace, registryVars
    <2>2. call[c].plan = "Replace" /\ call[c].op \in {"Open", "Hold"}
      BY <2>1 DEF AtStep, Answered
    <2>3. plan \in {"Undo", "UndoHeld"}  OBVIOUS
    <2> HIDE DEF plan
    <2>4. n \in CallState /\ n.op = "Close"  BY <1>1, <1>4, <2>2, <2>3, ReplaceShape, Zenon
    <2>5. n.old = call[c].old /\ n.plan = plan /\ n.on = call[c].cand
      BY <1>1, <2>3, CallStateIs DEF Plan
    <2>6. call[c].cand \in Session  BY <1>1, <1>4, <2>2, ReplaceShape, Zenon
    <2> HIDE DEF n
    <2>7. QED  BY <1>2, <1>3, <1>4, <2>1, <2>2, <2>3, <2>4, <2>5, <2>6, SendResources
  <1>10. CASE CandidateDestroyed(c)
    <2> DEFINE n == [call[c] EXCEPT !.op = "Resume", !.on = call[c].old, !.cand = NoSession]
    <2>1. /\ AtStep(c, "Undo", "Close") \/ AtStep(c, "UndoHeld", "Close")
          /\ UNCHANGED <<actor, unfinished, rows, task>>
          /\ \/ call[c].plan = "UndoHeld" /\ Send(c, n)
             \/ Returns(c)
      BY <1>10 DEF CandidateDestroyed
    <2>2. call[c].plan \in {"Undo", "UndoHeld"} /\ call[c].op = "Close"
      BY <2>1 DEF AtStep, Answered
    <2>3. call[c].on \notin rows  BY <1>1, <2>2
    <2>4. CASE call[c].plan = "UndoHeld" /\ Send(c, n)
      <3>1. n \in CallState /\ n.on \in Session /\ n.op = "Resume"
        BY <1>1, <1>4, <2>4, ResumeShape
      <3>2. n.old = call[c].old /\ n.plan = call[c].plan  BY <1>1, CallStateIs
      <3> HIDE DEF n
      <3>3. QED  BY <1>2, <1>4, <2>1, <2>3, <2>4, <3>1, <3>2, SendResources, SMTT(60)
    <2>5. CASE Returns(c)
      <3>1. call' = [call EXCEPT ![c] = Out]  BY <2>5 DEF Returns
      <3>2. /\ Out.stage = "Out" /\ Out.plan = "Out" /\ Out.old = NoSession
        BY DEF Out
      <3>3. QED  BY <1>4, <2>1, <2>3, <3>1, <3>2, ReturnResources
    <2>6. QED  BY <2>1, <2>4, <2>5
  <1>11. QED  BY <1>5, <1>6, <1>7, <1>8, <1>9, <1>10

\* A caller that is dropped leaves the row as it is.
LEMMA GiveUpResources ==
    ASSUME Inv, Inv', Count, Resources, NEW c \in Client, GiveUp(c), UNCHANGED rows
    PROVE  Resources'
  <1> DEFINE n == [call[c] EXCEPT !.stage = "Gone", !.answer = "None"]
  <1>1. /\ call' = [call EXCEPT ![c] = n] /\ UNCHANGED <<actor, unfinished, task>>
        /\ call[c].stage # "Gone"
    BY DEF GiveUp, actorVars
  <1>2. call[c] \in CallState  BY StepIs
  <1>3. n.stage = "Gone" /\ n.on = call[c].on /\ n.op = call[c].op /\ n.old = call[c].old
    BY <1>2, CallStateIs
  <1> HIDE DEF n
  <1>4. ~Effective(n) /\ ~Opened(n)  BY <1>3 DEF Effective, Opened
  <1>5. \A e \in Execution : Kept(e)  BY <1>1 DEF Kept
  <1>6. QED  BY <1>1, <1>3, <1>4, <1>5, CallResources

\* Every step keeps what is known of the resources.
LEMMA NextResources == ASSUME Inv, Count, Resources, Next PROVE Resources'
  <1>1. Inv'  BY NextInv
  <1>2. ASSUME NEW c \in Client, GoesOn(c) PROVE Resources'
    BY <1>1, <1>2, ClosesResources, ScansResources, ReplacesResources DEF GoesOn, Continues
  <1>3. ASSUME NEW c \in Client, Begins(c) PROVE Resources'  BY <1>3, BeginsResources
  <1>4. ASSUME NEW c \in Client, Apart(GiveUp(c)) PROVE Resources'
    BY <1>1, <1>4, GiveUpResources DEF Apart, registryVars
  <1>5. ASSUME Works, UNCHANGED <<registryVars, begun>> PROVE Resources'
    BY <1>5, WorksResources
  <1>6. (\E c \in Client : GoesOn(c) \/ Begins(c) \/ Apart(GiveUp(c)))
        \/ (Works /\ UNCHANGED <<registryVars, begun>>)
    BY DEF Next, Proceeds, Apart, Works
  <1>7. QED  BY <1>2, <1>3, <1>4, <1>5, <1>6

--------------------------------------------------------------------------------
(* The theorems.                                                                *)

\* A step of a call leaves the other calls as they are.
LEMMA OthersStay ==
    ASSUME Typed, NEW c \in Client, GoesOn(c) \/ Begins(c) \/ GiveUp(c)
    PROVE  \A d \in Client : d # c => call'[d] = call[d]
  <1>1. ASSUME NEW n, call' = [call EXCEPT ![c] = n]
        PROVE  \A d \in Client : d # c => call'[d] = call[d]
    BY <1>1 DEF Typed
  <1>2. ASSUME NEW r, Send(c, r) \/ SendControl(c, r)
        PROVE  \A d \in Client : d # c => call'[d] = call[d]
    <2>1. \E n : call' = [call EXCEPT ![c] = n]  BY <1>2 DEF Send, SendControl, Posted
    <2>2. QED  BY <1>1, <2>1
  <1>3. ASSUME NEW r, NEW deadline, Spawn(c, r, deadline)
        PROVE  \A d \in Client : d # c => call'[d] = call[d]
    BY <1>1, <1>3 DEF Spawn
  <1>4. ASSUME NEW r, MovesOn(c, r) PROVE \A d \in Client : d # c => call'[d] = call[d]
    BY <1>1, <1>4 DEF MovesOn
  <1>5. CASE GiveUp(c)  BY <1>5, SMTT(60) DEF GiveUp, Typed
  <1>6. CASE Begins(c)
    BY <1>1, <1>2, <1>3, <1>6, ZenonT(60) DEF Begins, ConfirmQuarantined, Scan, Register, CallView, CallReplace,
       CallSetIdleDeadline, CallClose, CallCancel, CallExecute
  <1>7. CASE GoesOn(c)
    <2>1. ASSUME \/ Registered(c) \/ Closed(c) \/ ScanDone(c) \/ AbandonReplace(c)
                 \/ PublishCandidate(c) \/ Resumed(c)
          PROVE  \A d \in Client : d # c => call'[d] = call[d]
      BY <1>1, <2>1 DEF Registered, Closed, ScanDone, AbandonReplace, PublishCandidate, Resumed,
         Returns
    <2>2. ASSUME Evicted(c) \/ Invalidated(c) \/ \E a \in Session : Visit(c, a)
          PROVE  \A d \in Client : d # c => call'[d] = call[d]
      BY <1>2, <1>4, <2>2 DEF Evicted, Invalidated, Visit
    <2>3. ASSUME \/ HoldOld(c) \/ UndoReplace(c) \/ CandidateDestroyed(c)
                 \/ \E a \in Session : OpenCandidate(c, a)
          PROVE  \A d \in Client : d # c => call'[d] = call[d]
      BY <1>1, <1>2, <1>3, <2>3 DEF HoldOld, UndoReplace, CandidateDestroyed, OpenCandidate,
         Returns
    <2>4. ASSUME RetireOld(c) PROVE \A d \in Client : d # c => call'[d] = call[d]
      BY <1>1, <1>2, <2>4 DEF RetireOld
    <2>5. ASSUME OldRetired(c) PROVE \A d \in Client : d # c => call'[d] = call[d]
      BY <2>5 DEF OldRetired, Typed
    <2>6. QED  BY <1>7, <2>1, <2>2, <2>3, <2>4, <2>5 DEF GoesOn, Continues
  <1>8. QED  BY <1>5, <1>6, <1>7

\* Who puts a session into the table: the call that opened it.
LEMMA NewRows ==
    ASSUME NEW c \in Client, GoesOn(c) \/ Begins(c)
    PROVE  \/ rows' \subseteq rows
           \/ /\ Registered(c) \/ PublishCandidate(c)
              /\ rows' \subseteq rows \cup {call[c].cand}
  <1>1. CASE Begins(c)
    BY <1>1, ZenonT(60) DEF Begins, ConfirmQuarantined, Scan, Register, CallView, CallReplace,
       CallSetIdleDeadline, CallClose, CallCancel, CallExecute, registryVars
  <1>2. CASE GoesOn(c)
    <2>1. ASSUME Closed(c) \/ Evicted(c) \/ Invalidated(c) \/ OldRetired(c)
          PROVE  rows' \subseteq rows
      BY <2>1 DEF Closed, Evicted, Invalidated, OldRetired, Forget
    <2>2. ASSUME \/ ScanDone(c) \/ AbandonReplace(c) \/ HoldOld(c) \/ RetireOld(c)
                 \/ UndoReplace(c) \/ CandidateDestroyed(c) \/ Resumed(c)
                 \/ \E a \in Session : Visit(c, a) \/ OpenCandidate(c, a)
          PROVE  rows' = rows
      BY <2>2 DEF ScanDone, AbandonReplace, HoldOld, RetireOld, UndoReplace, CandidateDestroyed,
         Resumed, Visit, OpenCandidate, registryVars
    <2>3. CASE Registered(c)  BY <2>3 DEF Registered
    <2>4. CASE PublishCandidate(c)  BY <2>4 DEF PublishCandidate
    <2>5. QED  BY <1>2, <2>1, <2>2, <2>3, <2>4 DEF GoesOn, Continues
  <1>3. QED  BY <1>1, <1>2

\* The sessions' resources are where the table, the calls and the books say.
THEOREM ResourcesHold == Spec => []Resources
  <1>1. Init => Resources
    <2> SUFFICES ASSUME Init PROVE Resources
      OBVIOUS
    <2>1. /\ \A a \in Session : actor[a] = Unborn
          /\ \A c \in Client : call[c] = Out
          /\ unfinished = {} /\ rows = {}
      BY DEF Init
    <2>2. Unborn.physical = FALSE  BY DEF Unborn
    <2>3. ~Effective(Out) /\ Out.plan = "Out" /\ Out.op = "None" /\ Out.old = NoSession
      BY DEF Out, Effective
    <2>4. ~Opened(Out)  BY <2>3 DEF Opened
    <2>5. EndedOK /\ LeftOK  BY <2>1, <2>2 DEF EndedOK, LeftOK
    <2>6. RetiredOK  BY <2>1, <2>3 DEF RetiredOK
    <2>7. RowsOK  BY <2>1, <2>4 DEF RowsOK
    <2>8. QED  BY <2>5, <2>6, <2>7 DEF Resources
  <1>2. Resources /\ UNCHANGED vars => Resources'
    <2> SUFFICES ASSUME Resources, UNCHANGED vars PROVE Resources'
      OBVIOUS
    <2>1. UNCHANGED <<actor, unfinished, call, rows>> /\ UNCHANGED task
      BY DEF vars, registryVars, actorVars
    <2>2. \A e \in Execution : Kept(e)  BY <2>1 DEF Kept
    <2>3. QED  BY <2>1, <2>2, QuietResources
  <1>3. QED  BY <1>1, <1>2, NextResources, InvariantHolds, CountHolds, PTL DEF Spec

\* A session in the table has its resource, unless a call that closed it has yet to take it
\* out or was dropped, its actor has crashed, or an execution has lost the resource.
THEOREM RowsHaveThem == Spec => []RowsHaveResources
  <1>1. Resources => RowsHaveResources
    <2> SUFFICES ASSUME Resources, NEW a \in rows,
                        ~Alive(actor[a]), ~LostOn(a)
                 PROVE  \E c \in Client :
                           /\ call[c].on = a /\ call[c].op \in {"Close", "Evict", "InvalidateWorker"}
                           /\ call[c].stage \in {"Answered", "Gone"}
      BY DEF RowsHaveResources, Alive, LostOn
    <2>1. PICK c \in Client : Gives(c, a)  BY DEF Resources, RowsOK
    <2>2. QED  BY <2>1 DEF Gives, Effective, Enders
  <1>2. QED  BY <1>1, ResourcesHold, PTL

\* Nothing but a replacement publishes its candidate, and it has seen the old session closed.
LEMMA PublishesClosed ==
    ASSUME Inv, Count, Resources, Next, NEW c \in Client,
           call[c].plan = "Replace", call[c].cand \in rows' \ rows
    PROVE  Shut(actor[call[c].old])
  <1>1. PrivateOK /\ RetiredOK /\ \A d \in Client : Shape(call[d])
    BY StepIs DEF Count, Resources
  <1>2. PICK d \in Client : /\ Registered(d) \/ PublishCandidate(d)
                            /\ call[c].cand = call[d].cand
    <2>1. ASSUME NEW d \in Client, GoesOn(d) \/ Begins(d)
          PROVE  /\ Registered(d) \/ PublishCandidate(d)
                 /\ call[c].cand = call[d].cand
      BY <2>1, NewRows
    <2>2. \/ \E d \in Client : GoesOn(d) \/ Begins(d)
          \/ UNCHANGED registryVars
      BY DEF Next, Proceeds, Apart
    <2>3. QED  BY <2>1, <2>2 DEF registryVars
  <1>3. \/ call[d].plan = "Register"
        \/ call[d].stage = "Publishing" /\ call[d].plan = "Replace" /\ call[d].op = "Close"
    BY <1>1, <1>2 DEF Registered, PublishCandidate, Answered, Shape
  <1>4. call[d].cand # NoSession  BY <1>1, <1>3 DEF Shape
  <1>5. c = d  BY <1>1, <1>2, <1>4 DEF PrivateOK
  <1>6. QED  BY <1>1, <1>3, <1>5 DEF RetiredOK

\* When the candidate of a replacement can be found, the resource of the old session is
\* closed, unless its actor crashed over it: never are both at work.
THEOREM OldFirst == Spec => OldIsClosedBeforeNewIsFound
  <1> DEFINE Retires == \A c \in Client :
          call[c].plan = "Replace" /\ call[c].cand \in rows' \ rows
          => LET old == actor[call[c].old] IN ~old.physical \/ old.life = "Crashed"
  <1>1. ASSUME Inv, Count, Resources, Next PROVE Retires
    BY <1>1, PublishesClosed DEF Shut
  <1>2. Inv /\ Count /\ Resources /\ [Next]_vars => [Retires]_vars
    <2> HIDE DEF Retires
    <2>1. QED  BY <1>1
  <1>3. OldIsClosedBeforeNewIsFound <=> [][Retires]_vars
    BY DEF OldIsClosedBeforeNewIsFound
  <1> HIDE DEF Retires
  <1>4. QED  BY <1>2, <1>3, InvariantHolds, CountHolds, ResourcesHold, PTL DEF Spec

\* A polite close is answered by the actor, which knows of no work on its resource.
LEMMA ClosesPolitely ==
    ASSUME Inv, Resources, Next, NEW c \in Client,
           call[c].op = "Close", call[c].mode = "RequireNoTransaction",
           call[c].stage = "Sent", call'[c].answer \in {"Ok", "SessionLost"}
    PROVE  call[c].on \notin unfinished \/ FailedOn(call[c].on)
  <1>1. Typed /\ LeftOK /\ call[c].answer = "None" /\ Shape(call[c]) /\ call[c] \in CallState
    BY Callers DEF Inv, ActorInv, Resources, Shape
  <1>2. CASE Works
    <2>1. PICK a \in Session : Effects(a)  BY <1>1, <1>2, WorksEffects
    <2>2. Told(c)  BY <1>1, <2>1 DEF Effects
    <2>3. /\ actor[call[c].on].physical /\ Running(call[c].on)
          /\ ~Rejected(actor[call[c].on], call[c].mode)
      BY <2>2 DEF Told
    <2>4. actor[call[c].on].handles = {} /\ actor[call[c].on].tx = "None"
      BY <2>3 DEF Rejected
    <2>5. QED  BY <1>1, <2>3, <2>4 DEF LeftOK
  <1>3. ASSUME NEW d \in Client, GoesOn(d) \/ Begins(d) \/ GiveUp(d) PROVE FALSE
    <2>1. d = c  BY <1>1, <1>3, OthersStay
    <2>2. ~GoesOn(c)  BY DEF GoesOn
    <2>3. CASE GiveUp(c)
      <3> DEFINE n == [call[c] EXCEPT !.stage = "Gone", !.answer = "None"]
      <3>1. call'[c] = n  BY <1>1, <2>3 DEF GiveUp, Typed
      <3>2. n.answer = "None"  BY <1>1, CallStateIs
      <3>3. QED  BY <3>1, <3>2
    <2>4. CASE Begins(c)
      <3>1. UNCHANGED call
        BY <2>4 DEF Begins, ConfirmQuarantined, Scan, Register, CallView, CallReplace,
           CallSetIdleDeadline, CallClose, CallCancel, CallExecute, Calls
      <3>2. QED  BY <1>1, <3>1
    <2>5. QED  BY <1>3, <2>1, <2>2, <2>3, <2>4
  <1>4. Works \/ \E d \in Client : GoesOn(d) \/ Begins(d) \/ GiveUp(d)
    BY DEF Next, Proceeds, Apart, Works
  <1>5. QED  BY <1>2, <1>3, <1>4

\* A close that asked for no transaction and went through ended no work: there was none,
\* or an execution that failed had left it unreported.
THEOREM PoliteEndsNothing == Spec => PoliteCloseEndsNothing
  <1> DEFINE Polite == \A c \in Client :
          /\ call[c].op = "Close" /\ call[c].mode = "RequireNoTransaction"
          /\ call[c].stage = "Sent" /\ call'[c].answer \in {"Ok", "SessionLost"}
          => \/ call[c].on \notin unfinished
             \/ \E e \in Execution : task[e].on = call[c].on /\ task[e].stage = "Failed"
  <1>1. ASSUME Inv, Resources, Next PROVE Polite
    BY <1>1, ClosesPolitely DEF FailedOn
  <1>2. Inv /\ Resources /\ [Next]_vars => [Polite]_vars
    <2> HIDE DEF Polite
    <2>1. QED  BY <1>1
  <1>3. PoliteCloseEndsNothing <=> [][Polite]_vars  BY DEF PoliteCloseEndsNothing
  <1> HIDE DEF Polite
  <1>4. QED  BY <1>2, <1>3, InvariantHolds, ResourcesHold, PTL DEF Spec

--------------------------------------------------------------------------------
(* The sessions keep the promise of SessionLife: what their resources, the      *)
(* table and the executions are to it.                                          *)

\* What has become of the resource of a session: nothing while its Open is under way.
ResourceOf(a) ==
    IF actor[a].life = "Unborn" \/ \E d \in Client : Opener(a, d) THEN "None"
    ELSE IF actor[a].life = "Crashed" THEN "Leaked"
    ELSE IF actor[a].physical THEN "Open" ELSE "Closed"

Phase(stage) ==
    CASE stage = "None" -> "Idle" [] stage = "Posted" -> "Waiting"
      [] stage = "Running" -> "Running" [] OTHER -> "Over"

Resource == [a \in Session |-> ResourceOf(a)]
Progress == [e \in Execution |-> [stage |-> Phase(task[e].stage), on |-> task[e].on]]

Promise == INSTANCE SessionLife WITH resource <- Resource, table <- rows, work <- Progress

\* A crash is one over an open resource.
CrashedOK == \A a \in Session : actor[a].life = "Crashed" => actor[a].physical

\* Before the answer to its Open, a session has no resource.
SecretOK ==
    /\ \A c \in Client : call[c].op = "Open" /\ call[c].stage = "Sent" =>
          actor[call[c].on].physical = FALSE
    /\ \A a \in Session : \A d \in Client : Opener(a, d) => actor[a].physical = FALSE

\* What a caller gives up is closed: the session it was told is closed, the one that did
\* not open, and the candidate it has undone.
ToldOK ==
    \A c \in Client :
        /\ Effective(call[c]) => actor[call[c].on].physical = FALSE
        /\ call[c].op = "Open" /\ call[c].stage = "Answered" /\ call[c].answer # "Ok" =>
              Shut(actor[call[c].on])
        /\ call[c].plan \in {"Undo", "UndoHeld"} =>
              /\ call[c].mode = "RollbackAndClose"
              /\ call[c].op = "Close" /\ call[c].stage = "Answered" => Shut(actor[call[c].on])

\* What waits for the quarantine is closed, what is open has a slot, and there are no more
\* slots than the limit.
ConnectedOK ==
    /\ \A b \in stale \cup Detained : Shut(actor[b])
    /\ \A b \in Session : Shut(actor[b]) \/ b \in Slots
    /\ quota <= SessionLimit

Lives == CrashedOK /\ SecretOK /\ ToldOK /\ ConnectedOK

--------------------------------------------------------------------------------
(* The executions, as the promise sees them.                                    *)

Moves(e, from, to) ==
    Progress[e].stage = from /\ Progress' = [Progress EXCEPT ![e].stage = to]

LEMMA ProgressStays ==
    ASSUME \A e \in Execution : task'[e].stage = task[e].stage /\ task'[e].on = task[e].on
    PROVE  Progress' = Progress
  BY DEF Progress

LEMMA ProgressMoves ==
    ASSUME Typed, NEW e \in Execution, NEW t, task' = [task EXCEPT ![e] = t], t.on = task[e].on
    PROVE  Moves(e, Phase(task[e].stage), Phase(t.stage))
  <1>1. Progress[e] = [stage |-> Phase(task[e].stage), on |-> task[e].on]  BY DEF Progress
  <1>2. \A f \in Execution : task'[f] = IF f = e THEN t ELSE task[f]  BY DEF Typed
  <1>3. Progress' = [f \in Execution |-> [stage |-> Phase(task'[f].stage), on |-> task'[f].on]]
    BY DEF Progress
  <1>4. Progress' = [Progress EXCEPT ![e] = [Progress[e] EXCEPT !.stage = Phase(t.stage)]]
    BY <1>1, <1>2, <1>3 DEF Progress
  <1>5. QED  BY <1>1, <1>4 DEF Moves

\* A step of an actor moves one execution on at most.
Advances(a) ==
    \/ Progress' = Progress
    \/ \E e \in Execution :
          /\ task[e].on = a /\ actor'[a].life = "Running"
          /\ \/ /\ Moves(e, "Waiting", "Running") /\ ~Flying(a)
                /\ actor[a].physical /\ actor'[a].physical
             \/ Moves(e, "Waiting", "Over") /\ actor'[a].physical = actor[a].physical
             \/ Moves(e, "Running", "Over")

LEMMA QueuedAdvances ==
    ASSUME Inv, NEW a \in Session, NEW c \in Client, Queued(a, c)
    PROVE  Advances(a)
  <1>0. Typed /\ ActorInv /\ PostedOK /\ call[c] \in CallState
    BY Callers DEF Inv, ActorInv
  <1>1. /\ c \in Work(a) /\ actor'[a].life = "Running"
        /\ Opens(a, c) \/ Closes(a, c) \/ Refuses(a, c) \/ Starts(a, c) \/ Passes(a, c)
    BY <1>0, QueuedKinds
  <1> DEFINE f == call[c].exec
  <1>2. f # NoExecution => f \in Execution /\ task[f].stage = "Posted" /\ task[f].on = a
    BY <1>0, <1>1, CallStateIs DEF PostedOK
  <1>3. ASSUME NEW x, f # NoExecution, task' = [task EXCEPT ![f].stage = x]
        PROVE  Moves(f, "Waiting", Phase(x))
    <2> DEFINE t == [task[f] EXCEPT !.stage = x]
    <2>1. task' = [task EXCEPT ![f] = t]  BY <1>3
    <2>2. t.on = task[f].on /\ t.stage = x  BY <1>0, <1>2, <1>3, TaskStateIs DEF Typed
    <2> HIDE DEF t
    <2>3. Moves(f, Phase(task[f].stage), Phase(t.stage))
      BY <1>0, <1>2, <1>3, <2>1, <2>2, ProgressMoves
    <2>4. QED  BY <1>2, <1>3, <2>2, <2>3 DEF Phase
  <1>4. CASE UNCHANGED task  BY <1>4, ProgressStays DEF Advances
  <1>5. CASE Refuses(a, c) /\ task' # task
    <2>1. /\ f # NoExecution /\ task' = [task EXCEPT ![f].stage = "Refused"]
          /\ actor'[a].physical = actor[a].physical
      BY <1>5 DEF Refuses, Same
    <2>2. Phase("Refused") = "Over"  BY DEF Phase
    <2>3. Moves(f, "Waiting", "Over")  BY <1>3, <2>1, <2>2
    <2>4. QED  BY <1>1, <1>2, <2>1, <2>3 DEF Advances
  <1>6. CASE Starts(a, c)
    <2>1. /\ task' = [task EXCEPT ![f].stage = "Running"] /\ call[c].op \in Executes
          /\ actor'[a].physical = actor[a].physical /\ ~Flying(a)
      BY <1>6 DEF Starts, Same
    <2>2. f # NoExecution
      <3>1. f \in Execution  BY <1>0, <2>1, Callers, OpPlan
      <3>2. QED  BY <3>1, ActorAssumption
    <2>3. Moves(f, "Waiting", "Running")  BY <1>3, <2>1, <2>2 DEF Phase
    <2>4. actor[a].physical
      <3>1. task'[f].stage = "Running" /\ task[f].stage = "Posted"
        BY <1>0, <1>2, <2>1, <2>2, TaskStateIs DEF Typed
      <3>2. ~Refuse(a, c)
        BY <1>0, <1>2, <2>2, <3>1, TaskStateIs DEF Refuse, Typed
      <3>3. StartExecution(a, c)
        BY <3>1, <3>2, Zenon DEF Queued, Open, ReadView, SetIdleDeadline, Close, Evict, Hold, Resume, PutOff
      <3>4. QED  BY <2>1, <3>3 DEF StartExecution, Refusal, Executes
    <2>5. QED  BY <1>1, <1>2, <2>1, <2>2, <2>3, <2>4 DEF Advances
  <1>7. QED  BY <1>1, <1>4, <1>5, <1>6 DEF Opens, Closes, Passes

LEMMA ControlledAdvances ==
    ASSUME Inv, NEW a \in Session, NEW c \in Client, Controlled(a, c)
    PROVE  Advances(a) /\ actor'[a].life = "Running"
  <1>0. Typed /\ ActorInv  BY DEF Inv, ActorInv
  <1>1. \A e \in Execution : task'[e].stage = task[e].stage /\ task'[e].on = task[e].on
    <2>1. \/ UNCHANGED task
          \/ task' = [task EXCEPT ![call[c].exec].asked = TRUE]
          \/ task' = [task EXCEPT ![call[c].exec].told = TRUE]
      BY DEF Controlled, CancelAnswered, CancelQueued, CancelDelivered, InvalidateWorker
    <2>2. task \in [Execution -> TaskState]  BY <1>0 DEF Typed
    <2>3. QED  BY <2>1, <2>2, TaskStateIs
  <1>2. actor[a].life = "Running" /\ actor[a] \in ActorState
    BY <1>0 DEF Controlled, ControlDue, Running, Typed
  <1>3. CASE UNCHANGED actor  BY <1>1, <1>2, <1>3, ProgressStays DEF Advances
  <1>4. CASE \E exact, shut \in BOOLEAN : Becomes(a, Released(actor[a], exact, shut))
    <2>1. PICK exact, shut \in BOOLEAN : Becomes(a, Released(actor[a], exact, shut))  BY <1>4
    <2>2. Released(actor[a], exact, shut).life = "Running"  BY <1>2, ReleasedIs, ZenonT(60)
    <2>3. actor'[a].life = "Running"  BY <1>0, <2>1, <2>2 DEF Becomes, Typed
    <2>4. QED  BY <1>1, <2>3, ProgressStays DEF Advances
  <1>5. QED
    BY <1>3, <1>4 DEF Controlled, CancelAnswered, CancelQueued, CancelDelivered, InvalidateWorker

LEMMA EndedAdvances ==
    ASSUME Inv, NEW a \in Session, Ended(a)
    PROVE  Advances(a) /\ actor'[a].life = "Running" /\ Flying(a)
  <1>0. Typed /\ ActorInv  BY DEF Inv, ActorInv
  <1>1. Lands(a)  BY DEF Ended, Complete, Fail, LoseResource
  <1> DEFINE e == actor[a].flight
  <1>2. /\ e \in Execution /\ Running(a) /\ Flying(a) /\ actor[a] \in ActorState
        /\ task[e].stage = "Running" /\ task[e].on = a
    BY <1>0, <1>1, LandedIs, FlightIs
  <1>3. actor'[a].life = "Running" /\ \E stage \in {"Done", "Failed", "Lost"} : Settles(a, stage)
    <2>1. CASE Complete(a) \/ Fail(a)
      <3>1. PICK s : \E left \in SUBSET {a}, stage \in {"Done", "Failed"}, answer \in {"Ok", "Failed"} :
                  EndsAs(a, s, left, stage, answer)
        BY <1>0, <2>1, EndKinds
      <3>2. PICK left \in SUBSET {a}, stage \in {"Done", "Failed"}, answer \in {"Ok", "Failed"} :
                  EndsAs(a, s, left, stage, answer)
        BY <3>1
      <3>3. Stays(actor[a], s) /\ Over(a, s, left, stage, answer)  BY <3>2 DEF EndsAs
      <3>4. actor'[a] = s /\ Settles(a, stage)  BY <1>0, <3>3 DEF Over, Becomes, Typed
      <3>5. QED  BY <1>2, <3>3, <3>4 DEF Stays, Running
    <2>2. CASE LoseResource(a)  BY <1>0, <2>2, LoseIs
    <2>3. QED  BY <2>1, <2>2 DEF Ended
  <1>4. PICK stage \in {"Done", "Failed", "Lost"} : Settles(a, stage)  BY <1>3
  <1>5. PICK t : task' = [task EXCEPT ![e] = t] /\ t.stage = stage /\ t.on = a
    BY <1>4, SettlesIs DEF TaskStage
  <1>6. t.stage = stage /\ t.on = a  BY <1>5
  <1>7. Moves(e, Phase(task[e].stage), Phase(t.stage))
    BY <1>0, <1>2, <1>5, <1>6, ProgressMoves
  <1>8. Phase("Running") = "Running" /\ Phase(stage) = "Over"  BY DEF Phase
  <1>9. Moves(e, "Running", "Over")  BY <1>2, <1>6, <1>7, <1>8
  <1>10. QED  BY <1>2, <1>3, <1>9 DEF Advances

--------------------------------------------------------------------------------
(* What a step of an actor does to its resource.                                *)

Turns(a) ==
    /\ Effects(a) /\ \E D : Touches(a, D)
    /\ actor'[a].life = "Crashed" => actor[a].physical /\ actor'[a].physical
    /\ \A d \in Client : Opener(a, d) =>
          /\ Work(a)' = {} /\ UNCHANGED task /\ actor'[a].life = "Running"
          /\ call[d].stage = "Sent" =>
                call'[d] # call[d] /\ (call'[d].answer = "Ok" <=> actor'[a].physical)

\* The Open of a session is the only message it has.
LEMMA OpenerAlone ==
    ASSUME Inv, Count, NEW a \in Session, NEW d \in Client, Opener(a, d)
    PROVE  /\ Waiting(a) \subseteq {d} /\ Work(a) = {d} /\ ~Flying(a) /\ Running(a)
           /\ d \in Work(a) /\ call[d].op = "Open" /\ call[d].plan \notin Relays
           /\ call[d].on = a /\ a \in Charged
           /\ call[d].stage \in {"Sent", "Gone"}
  <1>0. ActorInv /\ QueuesOK /\ MessagesOK  BY DEF Inv, ActorInv
  <1>1. d \in Work(a) /\ call[d].op = "Open"  BY DEF Opener
  <1>2. /\ \A c \in Client : c # d => call[c].on # a
        /\ \A e \in Execution : task[e].on # a
        /\ call[d].stage \in {"Sent", "Gone"}
    BY OpenerIs
  <1>3. Waiting(a) \subseteq {d}
    BY <1>0, <1>2, WaitersApart DEF MessagesOK
  <1>4. Work(a) = {d}  BY <1>1, <1>3 DEF Waiting
  <1>5. ~Flying(a)  BY <1>0, <1>2, FlightIs
  <1>6. Running(a)  BY <1>0, <1>1 DEF QueuesOK, Waiting
  <1>7. call[d] \in CallState /\ Shape(call[d])  BY <1>0, Callers
  <1>8. call[d].plan \in {"Register", "Replace"}  BY <1>1, <1>7, OpPlan
  <1>9. call[d].on = a  BY <1>0, <1>1 DEF MessagesOK, Waiting
  <1>10. call[d].cand # NoSession /\ call[d].cand = a
    BY <1>1, <1>7, <1>8, <1>9 DEF Shape
  <1>11. a \in Charged  BY <1>10 DEF Charged
  <1>12. QED  BY <1>1, <1>2, <1>3, <1>4, <1>5, <1>6, <1>8, <1>9, <1>11 DEF Relays

LEMMA QueuedTurns ==
    ASSUME Inv, Count, SecretOK, NEW a \in Session, NEW c \in Client, Queued(a, c)
    PROVE  Turns(a)
  <1>0. Typed /\ ActorInv  BY DEF Inv, ActorInv
  <1>1. Effects(a) /\ (\E D : Touches(a, D)) /\ actor'[a].life = "Running" /\ c \in Work(a)
    BY <1>0, QueuedEffects, QueuedTouches, QueuedKinds
  <1>2. ASSUME NEW d \in Client, Opener(a, d)
        PROVE  /\ Work(a)' = {} /\ UNCHANGED task
               /\ call[d].stage = "Sent" =>
                     call'[d] # call[d] /\ (call'[d].answer = "Ok" <=> actor'[a].physical)
    <2>1. /\ Work(a) = {d} /\ ~Flying(a) /\ call[d].op = "Open" /\ call[d].plan \notin Relays
          /\ actor[a].physical = FALSE
      BY <1>2, OpenerAlone DEF SecretOK
    <2>2. c = d  BY <1>1, <2>1
    <2>3. Open(a, c)
      BY <2>1, <2>2, Zenon DEF Queued, ReadView, Refuse, StartExecution, SetIdleDeadline, Close, Evict, Hold,
         Resume, PutOff, TakesInFlight, Serves
    <2>4. Takes(a, c) /\ UNCHANGED task  BY <2>3 DEF Open, Serves
    <2>5. /\ Taken(a) \in ActorState /\ Taken(a).physical = FALSE
      BY <1>0, <2>1, <2>4, TakenIs
    <2>6. PICK s, x : /\ actor' = [actor EXCEPT ![a] = s] /\ s.deferred = Taken(a).deferred
                      /\ Answers(To({c}, x)) /\ (x = "Ok" <=> s.physical)
      <3> DEFINE u == Taken(a)
                 t == [u EXCEPT !.physical = TRUE, !.view = "Ready", !.revision = 1]
      <3>1. t.deferred = u.deferred /\ t.physical = TRUE /\ u.physical = FALSE
        BY <2>5, ActorStateIs
      <3>2. \/ actor' = [actor EXCEPT ![a] = t] /\ Answers(To({c}, "Ok"))
            \/ actor' = [actor EXCEPT ![a] = u] /\ Answers(To({c}, "OpenFailed"))
        BY <2>3 DEF Open, Becomes
      <3> HIDE DEF t, u
      <3>3. \E s, x : /\ actor' = [actor EXCEPT ![a] = s] /\ s.deferred = u.deferred
                      /\ Answers(To({c}, x)) /\ (x = "Ok" <=> s.physical)
        BY <3>1, <3>2
      <3>4. QED  BY <3>3 DEF u
    <2>7. c \notin Work(a)' /\ actor'[a] = s  BY <1>0, <2>4, <2>6, TakenOut
    <2>8. Work(a)' \subseteq Work(a)  BY <1>0, <1>1, TouchesKeeps
    <2>9. ASSUME call[d].stage = "Sent"
          PROVE  call'[d] # call[d] /\ (call'[d].answer = "Ok" <=> actor'[a].physical)
      <3>1. DOMAIN To({c}, x) = {c} /\ To({c}, x)[c] = x  BY DEF To
      <3>2. Receives(d, x)  BY <2>2, <2>6, <2>9, <3>1, AnswerIs
      <3>3. call'[d] = [call[d] EXCEPT !.stage = "Answered", !.answer = x]
        BY <2>1, <3>2 DEF Receives
      <3>4. call[d] \in CallState  BY <1>0, Callers
      <3>5. call'[d].stage = "Answered" /\ call'[d].answer = x  BY <3>3, <3>4, CallStateIs
      <3>6. QED  BY <2>6, <2>7, <2>9, <3>5
    <2>10. QED  BY <2>1, <2>2, <2>4, <2>7, <2>8, <2>9
  <1>3. QED  BY <1>1, <1>2 DEF Turns

LEMMA ControlledTurns ==
    ASSUME Inv, Count, NEW a \in Session, NEW c \in Client, Controlled(a, c)
    PROVE  Turns(a)
  <1>0. Typed /\ ActorInv /\ MessagesOK  BY DEF Inv, ActorInv
  <1>1. Effects(a) /\ (\E D : Touches(a, D)) /\ actor'[a].life = "Running"
    BY <1>0, ControlledEffects, ControlledTouches, ControlledAdvances
  <1>2. c \in Control(a) /\ call[c].op \in {"Cancel", "InvalidateWorker"}
    <2>1. TakesControl(a, c)
      BY DEF Controlled, CancelAnswered, CancelQueued, CancelDelivered, InvalidateWorker, Controls
    <2>2. ctrlQ[a] # <<>> /\ c = Head(ctrlQ[a])  BY <2>1 DEF TakesControl, ControlDue
    <2>3. ctrlQ[a] \in Seq(Client)  BY <1>0 DEF Typed
    <2>4. c \in Control(a)  BY <2>2, <2>3, SeqTail DEF Control
    <2>5. QED  BY <1>0, <2>4 DEF MessagesOK, Waiting
  <1>3. ASSUME NEW d \in Client, Opener(a, d) PROVE FALSE
    BY <1>2, <1>3, OpenerAlone DEF Waiting
  <1>4. QED  BY <1>1, <1>3 DEF Turns

\* The steps of an actor that has no Open to serve.
LEMMA PanicTurns ==
    ASSUME Inv, Count, SecretOK, NEW a \in Session, NEW c, PanicServing(a, c) \/ PanicReleasing(a)
    PROVE  Turns(a) /\ UNCHANGED task
  <1>0. Typed /\ ActorInv  BY DEF Inv, ActorInv
  <1>1. Running(a) /\ \E served \in SUBSET Waiting(a) : Crashes(a, served)
    BY <1>0, PanicIs
  <1>2. PICK served \in SUBSET Waiting(a) : Crashes(a, served)  BY <1>1
  <1>3. /\ \E D : Touches(a, D)
        /\ UNCHANGED task /\ actor' = [actor EXCEPT ![a] = Crashed]
    BY <1>0, <1>1, <1>2, CrashIs
  <1>4. actor'[a].physical  BY <1>0, <1>3 DEF Crashed, Unborn, Typed
  <1>5. actor[a].physical  BY <1>2 DEF Crashes
  <1>6. Effects(a)  BY PanicEffects
  <1>7. ASSUME NEW d \in Client, Opener(a, d) PROVE FALSE  BY <1>5, <1>7 DEF SecretOK
  <1>8. QED  BY <1>3, <1>4, <1>5, <1>6, <1>7 DEF Turns

LEMMA FinishedTurns ==
    ASSUME Inv, NEW a \in Session, Finished(a)
    PROVE  Turns(a) /\ UNCHANGED task
  <1>0. ActorInv /\ Finish(a)  BY DEF Inv, Finished
  <1>1. /\ Touches(a, {}) /\ UNCHANGED task /\ Waiting(a) = {}
        /\ actor'[a] = [Unborn EXCEPT !.life = "Ended"]
    BY <1>0, FinishIs
  <1>2. actor'[a].life = "Ended"  BY <1>1 DEF Unborn
  <1>3. ASSUME NEW d \in Client, Opener(a, d) PROVE FALSE  BY <1>1, <1>3 DEF Opener, Waiting
  <1>4. QED  BY <1>1, <1>2, <1>3, FinishedEffects DEF Turns

LEMMA EndedTurns ==
    ASSUME Inv, Count, NEW a \in Session, Ended(a)
    PROVE  Turns(a)
  <1>1. actor'[a].life = "Running" /\ Flying(a)  BY EndedAdvances
  <1>2. \E D : Touches(a, D)  BY EndedTouches DEF Inv
  <1>3. ASSUME NEW d \in Client, Opener(a, d) PROVE FALSE  BY <1>1, <1>3, OpenerAlone
  <1>4. QED  BY <1>1, <1>2, <1>3, EndedEffects DEF Turns

\* Every step of an actor or of a backend.
LEMMA WorksTurns ==
    ASSUME Inv, Count, SecretOK, Works
    PROVE  \/ UNCHANGED <<actor, execQ, call>> /\ Progress' = Progress
           \/ \E a \in Session : Turns(a) /\ Advances(a)
  <1>0. Typed /\ ActorInv  BY DEF Inv, ActorInv
  <1>1. ASSUME NEW a \in Session, NEW c \in Client, Controlled(a, c)
        PROVE  Turns(a) /\ Advances(a)
    BY <1>1, ControlledTurns, ControlledAdvances
  <1>2. ASSUME NEW a \in Session, NEW c \in Client, Queued(a, c) PROVE Turns(a) /\ Advances(a)
    BY <1>2, QueuedTurns, QueuedAdvances
  <1>3. ASSUME NEW a \in Session, NEW c, PanicServing(a, c) \/ PanicReleasing(a)
        PROVE  Turns(a) /\ Advances(a)
    <2>1. Turns(a) /\ UNCHANGED task  BY <1>3, PanicTurns
    <2>2. QED  BY <2>1, ProgressStays DEF Advances
  <1>4. ASSUME NEW a \in Session, Finished(a) PROVE Turns(a) /\ Advances(a)
    <2>1. Turns(a) /\ UNCHANGED task  BY <1>4, FinishedTurns
    <2>2. QED  BY <2>1, ProgressStays DEF Advances
  <1>5. ASSUME NEW a \in Session, Ended(a) PROVE Turns(a) /\ Advances(a)
    BY <1>5, EndedTurns, EndedAdvances
  <1>6. ASSUME NEW a \in Session, Bind(a)
        PROVE  UNCHANGED <<actor, execQ, call>> /\ Progress' = Progress
    <2>1. \A e \in Execution : task'[e].stage = task[e].stage /\ task'[e].on = task[e].on
      BY <1>0, <1>6, TaskStateIs DEF Bind, Typed
    <2>2. QED  BY <1>6, <2>1, ProgressStays DEF Bind
  <1>7. ASSUME NEW e \in Execution, Publish(e)
        PROVE  UNCHANGED <<actor, execQ, call>> /\ Progress' = Progress
    <2>1. \A f \in Execution : task'[f].stage = task[f].stage /\ task'[f].on = task[f].on
      BY <1>0, <1>7, TaskStateIs DEF Publish, Typed
    <2>2. QED  BY <1>7, <2>1, ProgressStays DEF Publish
  <1>8. QED  BY <1>1, <1>2, <1>3, <1>4, <1>5, <1>6, <1>7 DEF Works

\* What a step of an actor leaves shut.
LEMMA TurnsShut ==
    ASSUME Inv, NEW a \in Session, Turns(a), NEW b \in Session,
           b # a \/ \A d \in Client : ~Opener(a, d)
    PROVE  /\ Shut(actor[b]) => Shut(actor'[b])
           /\ actor[b].physical = FALSE => actor'[b].physical = FALSE
  <1>1. CASE b # a  BY <1>1 DEF Turns, Effects
  <1>2. CASE b = a /\ \A d \in Client : ~Opener(a, d)
    <2>1. Work(a) \subseteq Client  BY WaitersApart DEF Inv, Waiting
    <2>2. Shut(actor[a]) => Shut(actor'[a])  BY <1>2, <2>1 DEF Turns, Effects, Opener
    <2>3. actor'[a].life = "Crashed" => actor[a].physical  BY DEF Turns
    <2>4. actor'[a].physical \in BOOLEAN  BY ActorStateIs DEF Turns, Touches
    <2>5. QED  BY <1>2, <2>2, <2>3, <2>4 DEF Shut
  <1>3. QED  BY <1>1, <1>2

\* Where its messages and those of the others are.
LEMMA TurnsOpeners ==
    ASSUME Inv, NEW a \in Session, Turns(a), NEW b \in Session, NEW d \in Client
    PROVE  /\ Opener(b, d)' => b # a /\ Opener(b, d)
           /\ b # a => actor'[b] = actor[b] /\ (Opener(b, d)' <=> Opener(b, d))
  <1>1. PICK D : Touches(a, D)  BY DEF Turns
  <1>2. /\ Work(b)' \subseteq Work(b)
        /\ \A c \in Waiting(b)' : call'[c] = call[c]
        /\ b # a => actor'[b] = actor[b] /\ Work(b)' = Work(b)
    BY <1>1, TouchesKeeps DEF Inv
  <1>3. Work(b)' \subseteq Waiting(b)'  BY DEF Waiting
  <1>4. Opener(b, d)' => Opener(b, d)  BY <1>2, <1>3 DEF Opener
  <1>5. b # a /\ Opener(b, d) => Opener(b, d)'  BY <1>2, <1>3 DEF Opener
  <1>6. Opener(a, d) => ~Opener(a, d)'  BY DEF Turns, Opener
  <1>7. QED  BY <1>2, <1>4, <1>5, <1>6

LEMMA QuietLives ==
    ASSUME Lives, UNCHANGED <<actor, execQ, call, rows, quota, stale>>
    PROVE  Lives'
  <1>1. \A a : Work(a)' = Work(a)  BY DEF Work
  <1>2. CrashedOK'  BY DEF Lives, CrashedOK
  <1>3. SecretOK'  BY <1>1 DEF Lives, SecretOK, Opener
  <1>4. ToldOK'  BY DEF Lives, ToldOK, Effective
  <1>5. ConnectedOK'  BY DEF Lives, ConnectedOK, Slots, Charged, Detained
  <1>6. QED  BY <1>2, <1>3, <1>4, <1>5 DEF Lives

\* No step of an actor breaks what is known of the lives.
LEMMA TurnsLives ==
    ASSUME Inv, Count, Lives, NEW a \in Session, Turns(a), UNCHANGED registryVars
    PROVE  Lives'
  <1>0. /\ ActorInv /\ Typed /\ PrivateOK /\ CrashedOK /\ SecretOK /\ ToldOK /\ ConnectedOK
        /\ UNCHANGED <<rows, quota, stale>>
    BY DEF Inv, ActorInv, Count, Lives, registryVars
  <1>1. \A c \in Client : /\ call[c] \in CallState /\ Shape(call[c])
                          /\ call'[c] = call[c] \/ (Replied(c) /\ Told(c))
    BY <1>0, Callers DEF Turns, Effects
  <1>2. \A c \in Client : call[c].stage \in {"Sent", "Answered"} => call[c].on \in Session
    BY <1>1 DEF Shape
  <1>3. ASSUME NEW c \in Client, NEW b \in Session, call[c].on = b, call[c].stage = "Answered"
        PROVE  /\ Shut(actor[b]) => Shut(actor'[b])
               /\ actor[b].physical = FALSE => actor'[b].physical = FALSE
    <2>1. ASSUME NEW d \in Client, Opener(b, d) PROVE FALSE  BY <1>3, <2>1, OpenerIs
    <2>2. QED  BY <2>1, TurnsShut
  <1>4. CrashedOK'  BY <1>0 DEF CrashedOK, Turns, Effects
  <1>5. ASSUME NEW c \in Client, call[c].op = "Open", call[c].stage = "Sent"
        PROVE  /\ call'[c] = call[c] => actor'[call[c].on].physical = FALSE
               /\ call'[c].answer # "Ok" => actor'[call[c].on].physical = FALSE
    <2>1. call[c].on \in Session /\ actor[call[c].on].physical = FALSE
      BY <1>0, <1>2, <1>5 DEF SecretOK
    <2>2. ASSUME NEW d \in Client, Opener(a, d), call[c].on = a
          PROVE  call'[c] # call[c] /\ (call'[c].answer = "Ok" <=> actor'[a].physical)
      <3>1. c = d  BY <2>2, OpenerIs
      <3>2. QED  BY <1>5, <2>2, <3>1 DEF Turns
    <2>3. CASE call[c].on # a \/ \A d \in Client : ~Opener(a, d)
      BY <2>1, <2>3, TurnsShut
    <2>4. actor'[a].physical \in BOOLEAN  BY ActorStateIs DEF Turns, Touches
    <2>5. QED  BY <2>2, <2>3, <2>4
  <1>6. SecretOK'
    <2>1. ASSUME NEW c \in Client, call'[c].op = "Open", call'[c].stage = "Sent"
          PROVE  actor'[call'[c].on].physical = FALSE
      <3>1. call'[c] = call[c]  BY <1>1, <2>1, RepliedIs DEF Out
      <3>2. QED  BY <1>5, <2>1, <3>1
    <2>2. ASSUME NEW b \in Session, NEW d \in Client, Opener(b, d)'
          PROVE  actor'[b].physical = FALSE
      <3>1. b # a /\ Opener(b, d) /\ actor'[b] = actor[b]  BY <2>2, TurnsOpeners
      <3>2. QED  BY <1>0, <3>1 DEF SecretOK
    <2>3. QED  BY <2>1, <2>2 DEF SecretOK
  <1>7. ToldOK'
    <2> SUFFICES ASSUME NEW c \in Client
                 PROVE  /\ Effective(call'[c]) => actor'[call'[c].on].physical = FALSE
                        /\ call'[c].op = "Open" /\ call'[c].stage = "Answered" /\ call'[c].answer # "Ok"
                           => Shut(actor'[call'[c].on])
                        /\ call'[c].plan \in {"Undo", "UndoHeld"} =>
                             /\ call'[c].mode = "RollbackAndClose"
                             /\ call'[c].op = "Close" /\ call'[c].stage = "Answered" =>
                                   Shut(actor'[call'[c].on])
      BY DEF ToldOK, Effective
    <2>1. /\ Effective(call[c]) => actor[call[c].on].physical = FALSE
          /\ call[c].op = "Open" /\ call[c].stage = "Answered" /\ call[c].answer # "Ok" =>
                Shut(actor[call[c].on])
          /\ call[c].plan \in {"Undo", "UndoHeld"} =>
                /\ call[c].mode = "RollbackAndClose"
                /\ call[c].op = "Close" /\ call[c].stage = "Answered" => Shut(actor[call[c].on])
      BY <1>0 DEF ToldOK
    <2>2. CASE call'[c] = call[c]
      <3>1. call[c].stage = "Answered" =>
               /\ Shut(actor[call[c].on]) => Shut(actor'[call[c].on])
               /\ actor[call[c].on].physical = FALSE => actor'[call[c].on].physical = FALSE
        BY <1>2, <1>3
      <3>2. Effective(call[c]) => call[c].stage = "Answered"  BY DEF Effective
      <3>3. QED  BY <2>1, <2>2, <3>1, <3>2
    <2>3. CASE Replied(c) /\ Told(c) /\ call'[c] = Out  BY <2>3 DEF Out, Effective
    <2>4. CASE Replied(c) /\ Told(c) /\ call'[c] # Out
      <3>1. /\ call'[c].plan = call[c].plan /\ call'[c].op = call[c].op
            /\ call'[c].on = call[c].on /\ call[c].stage = "Sent"
            /\ call'[c].stage = "Answered"
        BY <2>4, RepliedIs
      <3>2. call'[c].mode = call[c].mode
        <4>1. PICK x : call'[c] = [call[c] EXCEPT !.stage = "Answered", !.answer = x]
          BY <2>4 DEF Replied
        <4>2. QED  BY <1>1, <4>1, CallStateIs
      <3>3. /\ Effective(call'[c]) => ~actor'[call[c].on].physical
            /\ call[c].op = "Close" /\ call[c].mode = "RollbackAndClose" => Shut(actor'[call[c].on])
        BY <2>4 DEF Told
      <3>4. call[c].on \in Session  BY <1>2, <3>1
      <3>5. actor'[call[c].on].physical \in BOOLEAN
        <4>1. actor' \in [Session -> ActorState]  BY <1>0, TouchesKeeps DEF Turns
        <4>2. QED  BY <3>4, <4>1, ActorStateIs
      <3>6. call[c].op = "Open" /\ call'[c].answer # "Ok" => Shut(actor'[call[c].on])
        BY <1>5, <3>1 DEF Shut
      <3>7. QED  BY <2>1, <3>1, <3>2, <3>3, <3>5, <3>6
    <2>5. QED  BY <1>1, <2>2, <2>3, <2>4
  <1>8. ConnectedOK'
    <2>1. \A c \in Client : call'[c].cand = call[c].cand /\ call'[c].lost = call[c].lost
      BY <1>1, RepliedLessens DEF Lessens
    <2>2. Detained' = Detained /\ Charged' = Charged  BY <2>1 DEF Detained, Charged
    <2>3. Slots' = Slots  BY <1>0, <2>2 DEF Slots
    <2>4. stale \cup Detained \subseteq Session /\ rows \subseteq Session
      BY <1>0, <1>1, CallStateIs DEF Detained, Typed
    <2>5. ASSUME NEW d \in Client, Opener(a, d)
          PROVE  a \notin stale \cup Detained /\ a \in Slots
      <3>1. a \in Charged  BY <2>5, OpenerAlone
      <3>2. PICK c \in Client : call[c].cand = a /\ a # NoSession  BY <3>1 DEF Charged
      <3>3. a \notin stale \cup Detained  BY <1>0, <3>2 DEF PrivateOK, Detained
      <3>4. QED  BY <3>1, <3>3 DEF Slots
    <2>6. \A b \in stale \cup Detained : Shut(actor'[b])
      BY <1>0, <2>4, <2>5, TurnsShut DEF ConnectedOK
    <2>7. \A b \in Session : Shut(actor'[b]) \/ b \in Slots
      BY <1>0, <2>5, TurnsShut DEF ConnectedOK
    <2>8. QED  BY <1>0, <2>2, <2>3, <2>6, <2>7 DEF ConnectedOK
  <1>9. QED  BY <1>4, <1>6, <1>7, <1>8 DEF Lives

--------------------------------------------------------------------------------
(* Every step of an actor is one of the promise.                                *)

Promised == Promise!LifeNext \/ UNCHANGED <<Resource, rows, Progress>>

\* What a change of one resource is to the promise.
LEMMA ResourceMoves ==
    ASSUME NEW a \in Session, \A b \in Session : b # a => ResourceOf(b)' = ResourceOf(b)
    PROVE  /\ Resource[a] = ResourceOf(a)
           /\ Resource' = [Resource EXCEPT ![a] = ResourceOf(a)']
           /\ ResourceOf(a)' = ResourceOf(a) => Resource' = Resource
  <1>1. Resource' = [b \in Session |-> ResourceOf(b)']  BY DEF Resource
  <1>2. Resource[a] = ResourceOf(a)  BY DEF Resource
  <1>3. Resource' = [Resource EXCEPT ![a] = ResourceOf(a)']  BY <1>1 DEF Resource
  <1>4. ResourceOf(a)' = ResourceOf(a) => Resource' = Resource  BY <1>1 DEF Resource
  <1>5. QED  BY <1>2, <1>3, <1>4

\* The promise counts as the registry does.
LEMMA SizeIs == \A S : Promise!Cardinality(S) = Cardinality(S)
  BY Zenon DEF Promise!Cardinality, Cardinality

\* What is open has a slot: with one for the session to be opened, the limit has room.
LEMMA ConnectedFits ==
    ASSUME Inv, Count, Lives, NEW a \in Slots, Resource[a] # "Open"
    PROVE  Cardinality(Promise!Connected) < SessionLimit
  <1>0. /\ IsFiniteSet(Slots) /\ Slots \subseteq Session /\ quota = Cardinality(Slots)
        /\ ConnectedOK /\ quota \in Int
    <2>1. IsFiniteSet(Slots) /\ Slots \subseteq Session
      <3>1. Slots \subseteq Session  BY KnownTyped
      <3>2. QED  BY <3>1, FiniteAssumption, FS_Subset
    <2>2. QED  BY <2>1 DEF Count, Lives, Inv, ActorInv, Typed
  <1>1. Promise!Connected \subseteq Slots \ {a}
    <2> SUFFICES ASSUME NEW b \in Session, Resource[b] = "Open" PROVE b \in Slots \ {a}
      BY DEF Promise!Connected
    <2>1. ResourceOf(b) = "Open"  BY DEF Resource
    <2>2. actor[b].physical /\ actor[b].life # "Crashed"  BY <2>1 DEF ResourceOf
    <2>3. b \in Slots  BY <1>0, <2>2 DEF ConnectedOK, Shut
    <2>4. QED  BY <2>3
  <1>2. IsFiniteSet(Slots \ {a}) /\ Cardinality(Slots \ {a}) = Cardinality(Slots) - 1
    BY <1>0, FS_RemoveElement
  <1>3. Cardinality(Promise!Connected) <= Cardinality(Slots \ {a})
        /\ Cardinality(Promise!Connected) \in Nat
    BY <1>1, <1>2, FS_Subset, FS_CardinalityType
  <1>4. QED
    <2>1. quota <= SessionLimit  BY <1>0 DEF ConnectedOK
    <2>2. QED  BY <1>0, <1>2, <1>3, <2>1, RegistryAssumption

LEMMA TurnsPromise ==
    ASSUME Inv, Count, Lives, NEW a \in Session, Turns(a), Advances(a), UNCHANGED registryVars
    PROVE  Promised
  <1>0. /\ ActorInv /\ Typed /\ SecretOK /\ UNCHANGED rows /\ FlightsOK
        /\ actor[a].life = "Running" /\ actor'[a].life # "Unborn"
        /\ actor[a].physical \in BOOLEAN /\ actor'[a].physical \in BOOLEAN
    <2>1. actor[a].life = "Running" /\ actor'[a].life # "Unborn" /\ actor'[a] \in ActorState
      BY DEF Turns, Effects, Touches
    <2>2. actor[a] \in ActorState  BY DEF Inv, ActorInv, Typed
    <2>3. QED  BY <2>1, <2>2, ActorStateIs DEF Inv, ActorInv, Lives, registryVars
  <1>1. ASSUME NEW b \in Session, b # a PROVE ResourceOf(b)' = ResourceOf(b)
    <2>1. actor'[b] = actor[b]  BY <1>1 DEF Turns, Effects
    <2>2. \A d \in Client : Opener(b, d)' <=> Opener(b, d)  BY <1>1, TurnsOpeners
    <2>3. QED  BY <2>1, <2>2 DEF ResourceOf
  <1>2. \A d \in Client : ~Opener(a, d)'  BY TurnsOpeners
  <1>3. ResourceOf(a)' = IF actor'[a].life = "Crashed" THEN "Leaked"
                         ELSE IF actor'[a].physical THEN "Open" ELSE "Closed"
    BY <1>0, <1>2 DEF ResourceOf
  <1> DEFINE now == ResourceOf(a)
             next == ResourceOf(a)'
  <1>4. /\ Resource[a] = now /\ Resource' = [Resource EXCEPT ![a] = next]
        /\ next = now => Resource' = Resource
    BY <1>1, ResourceMoves
  <1>5. ASSUME <<now, next>> \in {<<"None", "Closed">>, <<"Open", "Closed">>, <<"Open", "Leaked">>},
               Progress' = Progress
        PROVE  Promised
    <2>1. Promise!Turns(a, now, next)  BY <1>4 DEF Promise!Turns
    <2>2. Promise!Departs(a)  BY <1>0, <1>5, <2>1 DEF Promise!Departs
    <2>3. QED  BY <2>2 DEF Promised, Promise!LifeNext
  <1>6. CASE \E d \in Client : Opener(a, d)
    <2>1. PICK d \in Client : Opener(a, d)  BY <1>6
    <2>2. UNCHANGED task /\ actor'[a].life = "Running"  BY <2>1 DEF Turns
    <2>3. Progress' = Progress  BY <2>2, ProgressStays
    <2>4. now = "None" /\ next \in {"Open", "Closed"}  BY <1>3, <1>6, <2>2 DEF ResourceOf
    <2>5. CASE next = "Closed"  BY <1>5, <2>3, <2>4, <2>5
    <2>6. CASE next = "Open"
      <3>1. Promise!Turns(a, "None", "Open")  BY <1>4, <2>4, <2>6 DEF Promise!Turns
      <3>2. a \in Slots  BY <2>1, OpenerAlone DEF Slots
      <3>3. Cardinality(Promise!Connected) < SessionLimit
        BY <1>4, <2>4, <3>2, ConnectedFits
      <3>4. Promise!Connects(a)  BY <1>0, <2>3, <3>1, <3>3, SizeIs DEF Promise!Connects
      <3>5. QED  BY <3>4 DEF Promised, Promise!LifeNext
    <2>7. QED  BY <2>4, <2>5, <2>6
  <1>7. CASE \A d \in Client : ~Opener(a, d)
    <2>1. now = IF actor[a].physical THEN "Open" ELSE "Closed"  BY <1>0, <1>7 DEF ResourceOf
    <2>2. actor[a].physical = FALSE => actor'[a].physical = FALSE  BY <1>7, TurnsShut
    <2>3. actor'[a].life = "Crashed" => actor[a].physical  BY DEF Turns
    <2>4. CASE Progress' = Progress
      <3>1. \/ <<now, next>> \in {<<"Open", "Closed">>, <<"Open", "Leaked">>}
            \/ now = next
        BY <1>0, <1>3, <2>1, <2>2, <2>3
      <3>2. QED  BY <1>0, <1>4, <1>5, <2>4, <3>1 DEF Promised
    <2>5. ASSUME NEW e \in Execution, task[e].on = a, actor'[a].life = "Running",
                 Moves(e, "Waiting", "Running"), ~Flying(a),
                 actor[a].physical, actor'[a].physical
          PROVE  Promised
      <3>1. now = "Open" /\ next = "Open"  BY <1>3, <2>1, <2>5
      <3>2. Progress[e].on = a  BY <2>5 DEF Progress
      <3>3. Resource[a] = "Open" /\ Resource' = Resource  BY <1>4, <3>1
      <3>4. ~Promise!Runs(a)
        <4> SUFFICES ASSUME NEW f \in Execution, Progress[f].stage = "Running", Progress[f].on = a
                     PROVE  FALSE
          BY DEF Promise!Runs
        <4>1. Phase(task[f].stage) = "Running" /\ task[f].on = a  BY DEF Progress
        <4>2. task[f].stage = "Running"  BY <4>1 DEF Phase
        <4>3. actor[a].flight = f  BY <1>0, <4>1, <4>2 DEF FlightsOK
        <4>4. QED  BY <2>5, <4>3, ActorAssumption DEF Flying
      <3>5. Promise!Starts(e)
        BY <1>0, <2>5, <3>2, <3>3, <3>4 DEF Promise!Starts, Promise!Passes, Moves
      <3>6. QED  BY <3>5 DEF Promised, Promise!LifeNext
    <2>6. ASSUME NEW e \in Execution, actor'[a].life = "Running",
                 Moves(e, "Waiting", "Over") \/ Moves(e, "Running", "Over"),
                 actor'[a].physical = actor[a].physical
          PROVE  Promised
      <3>1. now = next  BY <1>3, <2>1, <2>6
      <3>2. Promise!Ends(e)
        BY <1>0, <1>4, <2>6, <3>1 DEF Promise!Ends, Promise!Passes, Moves
      <3>3. QED  BY <3>2 DEF Promised, Promise!LifeNext
    <2>7. ASSUME NEW e \in Execution, task[e].on = a, actor'[a].life = "Running",
                 Moves(e, "Running", "Over"), actor'[a].physical # actor[a].physical
          PROVE  Promised
      <3>1. now = "Open" /\ next = "Closed"  BY <1>0, <1>3, <2>1, <2>2, <2>7
      <3>2. Progress[e].on = a  BY <2>7 DEF Progress
      <3>3. Promise!Turns(a, "Open", "Closed")  BY <1>4, <3>1 DEF Promise!Turns
      <3>4. Promise!Loses(e)
        BY <1>0, <2>7, <3>2, <3>3 DEF Promise!Loses, Promise!Passes, Moves
      <3>5. QED  BY <3>4 DEF Promised, Promise!LifeNext
    <2>8. QED  BY <2>4, <2>5, <2>6, <2>7 DEF Advances
  <1>8. QED  BY <1>6, <1>7

--------------------------------------------------------------------------------
(* The steps of the calls.                                                      *)

\* A call touches no actor but the one it starts, whose Open is its first message.
Brings(b) ==
    \/ actor'[b] = actor[b] /\ \A d \in Client : Opener(b, d)' <=> Opener(b, d)
    \/ /\ actor[b].life = "Unborn" /\ actor'[b].life = "Running" /\ actor'[b].physical = FALSE
       /\ \E d \in Client : Opener(b, d)'

\* An execution that is asked for.
Asked ==
    \E e \in Execution, a \in rows :
        /\ Progress[e].stage = "Idle"
        /\ \E stage \in {"Waiting", "Over"} :
              Progress' = [Progress EXCEPT ![e] = [stage |-> stage, on |-> a]]

LEMMA StayBrings ==
    ASSUME Inv, NEW c \in Client, call[c].stage \notin {"Sent", "Gone"},
           NEW n, call' = [call EXCEPT ![c] = n], UNCHANGED actor,
           \A b \in Session : Work(b) \subseteq Work(b)' /\ Work(b)' \subseteq Work(b) \cup {c},
           n.op # "Open" \/ \A b \in Session : Work(b)' = Work(b)
    PROVE  \A b \in Session : Brings(b)
  <1>1. /\ call'[c] = n /\ \A d \in Client : d # c => call'[d] = call[d]
        /\ \A b \in Session : c \notin Work(b)
    BY Nowhere DEF Inv, ActorInv, Typed, Waiting
  <1>2. ASSUME NEW b \in Session, NEW d \in Client PROVE Opener(b, d)' <=> Opener(b, d)
    BY <1>1 DEF Opener
  <1>3. QED  BY <1>2 DEF Brings

LEMMA SpawnBrings ==
    ASSUME Inv, NEW c \in Client, call[c].stage \notin {"Sent", "Gone"},
           NEW r \in CallState, r.cand \in Session, NEW deadline, Spawn(c, r, deadline)
    PROVE  \A b \in Session : Brings(b)
  <1> DEFINE n == [r EXCEPT !.op = "Open", !.on = r.cand, !.stage = "Sent", !.answer = "None"]
             s == [Unborn EXCEPT !.life = "Running", !.deadline = deadline]
             a == r.cand
  <1>1. /\ actor[a].life = "Unborn" /\ actor' = [actor EXCEPT ![a] = s]
        /\ call' = [call EXCEPT ![c] = n] /\ execQ' = [execQ EXCEPT ![a] = <<c>>]
    BY DEF Spawn
  <1>2. n.op = "Open"  BY CallStateIs
  <1>3. s.physical = FALSE /\ s.life = "Running"  BY DEF Unborn
  <1> HIDE DEF n, s
  <1>4. /\ call'[c] = n /\ \A d \in Client : d # c => call'[d] = call[d]
        /\ actor'[a] = s /\ execQ'[a] = <<c>>
        /\ \A b \in Session : b # a => actor'[b] = actor[b] /\ execQ'[b] = execQ[b]
        /\ \A b \in Session : c \notin Work(b)
    BY <1>1, Nowhere DEF Inv, ActorInv, Typed, Waiting
  <1>5. c \in Elements(<<c>>)  BY SmallSeqs
  <1>6. Opener(a, c)'  BY <1>2, <1>4, <1>5 DEF Opener, Work
  <1>7. ASSUME NEW b \in Session, b # a, NEW d \in Client PROVE Opener(b, d)' <=> Opener(b, d)
    <2>1. Work(b)' = Work(b)  BY <1>4, <1>7 DEF Work
    <2>2. QED  BY <1>4, <2>1 DEF Opener
  <1>8. QED  BY <1>1, <1>3, <1>4, <1>6, <1>7 DEF Brings

\* A step of one call: what it must have made sure of before it goes on as n.
LEMMA CallLives ==
    ASSUME Inv, Inv', Count, Resources, Lives, NEW c \in Client, NEW n,
           call' = [call EXCEPT ![c] = n], \A b \in Session : Brings(b),
           \* what it is told
           ~Effective(n), n.op = "Open" => n.stage # "Answered",
           n.op = "Open" /\ n.stage = "Sent" => actor'[n.on].physical = FALSE,
           n.plan \in {"Undo", "UndoHeld"} =>
               /\ n.mode = "RollbackAndClose"
               /\ n.op = "Close" /\ n.stage = "Answered" => Shut(actor[n.on]),
           \* what it keeps is closed, what it gives up too
           \A b \in stale' \cup n.lost : b \in stale \cup call[c].lost \/ Shut(actor[b]),
           \A b \in rows \cup stale \cup Own(c) :
               Shut(actor[b]) \/ b \in rows' \cup stale' \cup n.lost \cup {n.cand},
           quota' <= SessionLimit,
           \* and what the promise sees of it
           \/ UNCHANGED rows /\ (Progress' = Progress \/ Asked)
           \/ Opened(call[c]) /\ rows' = rows \cup {call[c].cand} /\ Progress' = Progress
           \/ Effective(call[c]) /\ rows' = rows \ {call[c].on} /\ Progress' = Progress
    PROVE  Lives' /\ Promised
  <1>0. /\ CrashedOK /\ SecretOK /\ ToldOK /\ ConnectedOK /\ Typed /\ BornOK
        /\ call'[c] = n /\ \A d \in Client : d # c => call'[d] = call[d]
        /\ \A d \in Client : call[d] \in CallState /\ Shape(call[d])
        /\ \A d \in Client : call'[d] \in CallState /\ Shape(call'[d])
        /\ stale' \subseteq Session /\ rows' \subseteq Session
    <2>1. \A d \in Client : call'[d] \in CallState /\ Shape(call'[d])
      BY DEF Inv, ActorInv, Typed, ShapesOK
    <2>2. \A d \in Client : call[d] \in CallState /\ Shape(call[d])  BY Callers DEF Inv
    <2>3. QED  BY <2>1, <2>2 DEF Lives, Count, Inv, ActorInv, Typed
  <1>1. \A b \in Session : /\ Shut(actor[b]) => Shut(actor'[b])
                           /\ actor[b].physical = FALSE => actor'[b].physical = FALSE
                           /\ Shut(actor'[b]) \/ ~Shut(actor[b])
                           /\ ~Shut(actor'[b]) => ~Shut(actor[b])
    BY DEF Brings, Shut
  <1>2. \A d \in Client : call'[d].stage = "Answered" => call'[d].on \in Session
    BY <1>0 DEF Shape
  <1>3. CrashedOK'  BY <1>0 DEF CrashedOK, Brings
  <1>4. SecretOK'
    <2>1. ASSUME NEW d \in Client, call'[d].op = "Open", call'[d].stage = "Sent"
          PROVE  actor'[call'[d].on].physical = FALSE
      <3>1. CASE d = c  BY <1>0, <2>1, <3>1
      <3>2. CASE d # c
        <4>1. call[d].on \in Session  BY <1>0, <2>1, <3>2 DEF Shape
        <4>2. QED  BY <1>0, <1>1, <2>1, <3>2, <4>1 DEF SecretOK
      <3>3. QED  BY <3>1, <3>2
    <2>2. ASSUME NEW b \in Session, NEW d \in Client, Opener(b, d)'
          PROVE  actor'[b].physical = FALSE
      BY <1>0, <2>2 DEF SecretOK, Brings
    <2>3. QED  BY <2>1, <2>2 DEF SecretOK
  <1>5. ToldOK'
    <2> SUFFICES ASSUME NEW d \in Client
                 PROVE  /\ Effective(call'[d]) => actor'[call'[d].on].physical = FALSE
                        /\ call'[d].op = "Open" /\ call'[d].stage = "Answered" /\ call'[d].answer # "Ok"
                           => Shut(actor'[call'[d].on])
                        /\ call'[d].plan \in {"Undo", "UndoHeld"} =>
                             /\ call'[d].mode = "RollbackAndClose"
                             /\ call'[d].op = "Close" /\ call'[d].stage = "Answered" =>
                                   Shut(actor'[call'[d].on])
      BY DEF ToldOK, Effective
    <2>1. Effective(call'[d]) => call'[d].stage = "Answered"  BY DEF Effective
    <2>2. CASE d = c  BY <1>0, <1>1, <1>2, <2>2
    <2>3. CASE d # c
      <3>1. call'[d] = call[d]  BY <1>0, <2>3
      <3>2. /\ Effective(call[d]) => actor[call[d].on].physical = FALSE
            /\ call[d].op = "Open" /\ call[d].stage = "Answered" /\ call[d].answer # "Ok" =>
                  Shut(actor[call[d].on])
            /\ call[d].plan \in {"Undo", "UndoHeld"} =>
                  /\ call[d].mode = "RollbackAndClose"
                  /\ call[d].op = "Close" /\ call[d].stage = "Answered" => Shut(actor[call[d].on])
        BY <1>0 DEF ToldOK
      <3>3. QED  BY <1>1, <1>2, <2>1, <3>1, <3>2
    <2>4. QED  BY <2>2, <2>3
  <1>6. ConnectedOK'
    <2>1. /\ Rest(c)' = Rest(c) /\ Own(c)' = ({n.cand} \ {NoSession}) \cup n.lost
          /\ Slots = rows \cup stale \cup Rest(c) \cup Own(c)
          /\ Slots' = rows' \cup stale' \cup Rest(c)' \cup Own(c)'
      BY <1>0, RestStays, SlotsAre, NewSlots
    <2>2. ASSUME NEW b \in Session, ~Shut(actor'[b]) PROVE b \in Slots'
      <3>1. ~Shut(actor[b]) /\ b \in Slots  BY <1>0, <1>1, <2>2 DEF ConnectedOK
      <3>2. CASE b \in Rest(c)  BY <2>1, <3>2
      <3>3. CASE b \in rows \cup stale \cup Own(c)
        <4>1. b \in rows' \cup stale' \cup n.lost \cup {n.cand}  BY <3>1, <3>3
        <4>2. b # NoSession  BY ActorAssumption
        <4>3. QED  BY <2>1, <4>1, <4>2
      <3>4. QED  BY <2>1, <3>1, <3>2, <3>3
    <2>3. ASSUME NEW b \in stale' \cup Detained' PROVE Shut(actor'[b])
      <3>1. b \in Session  BY <1>0, <2>3, CallStateIs DEF Detained
      <3>2. b \in stale' \cup n.lost \/ b \in Detained
        BY <1>0, <2>3 DEF Detained
      <3>3. b \in stale \cup Detained \/ Shut(actor[b])
        <4>1. call[c].lost \subseteq Detained  BY DEF Detained
        <4>2. QED  BY <3>2, <4>1
      <3>4. QED  BY <1>0, <1>1, <3>1, <3>3 DEF ConnectedOK
    <2>4. QED  BY <2>2, <2>3 DEF ConnectedOK
  <1>7. Resource' = Resource
    <2>1. \A b \in Session : ResourceOf(b)' = ResourceOf(b)  BY DEF Brings, ResourceOf
    <2>2. QED  BY <2>1 DEF Resource
  <1>8. Promised
    <2>1. CASE UNCHANGED rows /\ Progress' = Progress  BY <1>7, <2>1 DEF Promised
    <2>2. CASE UNCHANGED rows /\ Asked
      <3>1. PICK e \in Execution, a \in rows :
               /\ Progress[e].stage = "Idle"
               /\ \E stage \in {"Waiting", "Over"} :
                     Progress' = [Progress EXCEPT ![e] = [stage |-> stage, on |-> a]]
        BY <2>2 DEF Asked
      <3>2. Promise!Asks(e, a)  BY <1>7, <2>2, <3>1 DEF Promise!Asks
      <3>3. a \in Session  BY <1>0 DEF Typed
      <3>4. QED  BY <3>2, <3>3 DEF Promised, Promise!LifeNext
    <2>3. ASSUME NEW a \in Session, a \in Mine(c), NEW d \in Client, Opener(a, d),
                 a = call[c].cand \/ a = call[c].on
          PROVE  call[c].op = "Open" /\ call[c].stage \in {"Sent", "Gone"}
      <3>1. c = d  BY <2>3, OpenerIs
      <3>2. QED  BY <2>3, <3>1, OpenerAlone
    <2>4. \A a \in Mine(c) : a \in Session /\ actor[a].life # "Unborn"
      <3>1. Mine(c) \subseteq Known  BY DEF Mine, Known
      <3>2. QED  BY <1>0, <3>1, KnownTyped DEF BornOK
    <2>5. CASE Opened(call[c]) /\ rows' = rows \cup {call[c].cand} /\ Progress' = Progress
      <3> DEFINE a == call[c].cand
      <3>1. Alive(actor[a])  BY <2>5, StepIs
      <3>2. a \in Mine(c)
        <4>1. call[c].plan \in {"Register", "Replace"} /\ call[c].op \in {"Open", "Hold", "Close"}
          BY <1>0, <2>5, OpPlan DEF Opened
        <4>2. a # NoSession  BY <1>0, <4>1 DEF Shape
        <4>3. QED  BY <4>2 DEF Mine
      <3>3. ~(call[c].op = "Open" /\ call[c].stage \in {"Sent", "Gone"})  BY <2>5 DEF Opened
      <3>4. a \in Session /\ actor[a].life # "Unborn" /\ \A d \in Client : ~Opener(a, d)
        BY <2>3, <2>4, <3>2, <3>3
      <3>5. Resource[a] \in {"Open", "Leaked"}
        BY <3>1, <3>4 DEF Resource, ResourceOf, Alive
      <3>6. Promise!Enters(a)  BY <1>7, <2>5, <3>5 DEF Promise!Enters
      <3>7. QED  BY <3>4, <3>6 DEF Promised, Promise!LifeNext
    <2>6. CASE Effective(call[c]) /\ rows' = rows \ {call[c].on} /\ Progress' = Progress
      <3> DEFINE a == call[c].on
      <3>1. actor[a].physical = FALSE  BY <1>0, <2>6 DEF ToldOK
      <3>2. call[c].stage = "Answered"  BY <2>6 DEF Effective
      <3>3. a \in Session  BY <1>0, <3>2 DEF Shape
      <3>4. a \in Mine(c)  BY <3>3, ActorAssumption DEF Mine
      <3>5. actor[a].life # "Unborn" /\ \A d \in Client : ~Opener(a, d)
        BY <2>3, <2>4, <3>2, <3>3, <3>4
      <3>6. actor[a].life # "Crashed"  BY <1>0, <3>1, <3>3 DEF CrashedOK
      <3>7. Resource[a] = "Closed"  BY <3>1, <3>3, <3>5, <3>6 DEF Resource, ResourceOf
      <3>8. Promise!Leaves(a)  BY <1>7, <2>6, <3>7 DEF Promise!Leaves
      <3>9. QED  BY <3>3, <3>8 DEF Promised, Promise!LifeNext
    <2>7. QED  BY <2>1, <2>2, <2>5, <2>6
  <1>9. QED  BY <1>3, <1>4, <1>5, <1>6, <1>8 DEF Lives

\* A message that a call sends.
LEMMA SendLives ==
    ASSUME Inv, Inv', Count, Resources, Lives, NEW c \in Client,
           call[c].stage \notin {"Sent", "Gone"},
           NEW r \in CallState, r.on \in Session, Send(c, r) \/ SendControl(c, r),
           UNCHANGED <<actor, rows, stale>>, r.op # "Open",
           r.plan \in {"Undo", "UndoHeld"} => r.mode = "RollbackAndClose",
           r.lost = call[c].lost, r.cand = call[c].cand \/ Shut(actor[call[c].cand]),
           r.plan \in Relays => Own(c) = {},
           quota' <= SessionLimit, Progress' = Progress \/ Asked
    PROVE  Lives' /\ Promised
  <1> DEFINE m == [r EXCEPT !.stage = "Sent", !.answer = "None"]
             u == [r EXCEPT !.stage = "Answered", !.answer = "UnknownSession"]
  <1>1. \/ call' = [call EXCEPT ![c] = m]
        \/ ~Running(r.on) /\ call' = [call EXCEPT ![c] = u]
        \/ r.plan \in Relays /\ call' = [call EXCEPT ![c] = Out]
    BY DEF Send, SendControl, Posted
  <1>2. /\ m.plan = r.plan /\ m.op = r.op /\ m.on = r.on /\ m.cand = r.cand
        /\ m.mode = r.mode /\ m.lost = r.lost /\ m.stage = "Sent"
    BY CallStateIs
  <1>3. /\ u.plan = r.plan /\ u.op = r.op /\ u.on = r.on /\ u.cand = r.cand
        /\ u.mode = r.mode /\ u.lost = r.lost
        /\ u.stage = "Answered" /\ u.answer = "UnknownSession"
    BY CallStateIs
  <1>4. /\ Out.stage = "Out" /\ Out.plan = "Out" /\ Out.op = "None" /\ Out.lost = {}
    BY DEF Out
  <1> HIDE DEF m, u
  <1>5. ~Effective(m) /\ ~Effective(u) /\ ~Effective(Out)
    BY <1>2, <1>3, <1>4 DEF Effective, Final
  <1>6. /\ Typed /\ EndedOK /\ call[c].lost \subseteq Own(c)
        /\ Own(c) \subseteq call[c].lost \cup {call[c].cand}
    BY DEF Inv, ActorInv, Resources, Own
  <1>7. ~Running(r.on) => Shut(actor[r.on])
    <2>1. actor[r.on].life \in Life  BY <1>6, ActorStateIs DEF Typed
    <2>2. QED  BY <1>6, <2>1 DEF EndedOK, Shut, Running, Life
  <1>8. \A b \in Session : Work(b) \subseteq Work(b)' /\ Work(b)' \subseteq Work(b) \cup {c}
    <2>1. \/ execQ' = execQ
          \/ execQ' = [execQ EXCEPT ![r.on] = Append(@, c)]
      BY DEF Send, SendControl
    <2>2. \A b \in Session : Elements(Append(execQ[b], c)) = Elements(execQ[b]) \cup {c}
      BY <1>6, SeqAppend DEF Typed
    <2>3. \A b \in Session : /\ Elements(execQ[b]) \subseteq Elements(execQ'[b])
                             /\ Elements(execQ'[b]) \subseteq Elements(execQ[b]) \cup {c}
      BY <1>6, <2>1, <2>2 DEF Typed
    <2>4. QED  BY <2>3 DEF Work
  <1>9. ASSUME NEW n, n.op # "Open", call' = [call EXCEPT ![c] = n]
        PROVE  \A b \in Session : Brings(b)
    BY <1>8, <1>9, StayBrings
  <1>10. CASE call' = [call EXCEPT ![c] = m]
    <2>1. \A b \in Session : Brings(b)  BY <1>2, <1>9, <1>10
    <2>2. \A b \in stale' \cup m.lost : b \in stale \cup call[c].lost  BY <1>2
    <2>3. \A b \in rows \cup stale \cup Own(c) :
              Shut(actor[b]) \/ b \in rows' \cup stale' \cup m.lost \cup {m.cand}
      BY <1>2, <1>6
    <2>4. QED  BY <1>2, <1>5, <1>10, <2>1, <2>2, <2>3, CallLives
  <1>11. CASE ~Running(r.on) /\ call' = [call EXCEPT ![c] = u]
    <2>1. \A b \in Session : Brings(b)  BY <1>3, <1>9, <1>11
    <2>2. \A b \in stale' \cup u.lost : b \in stale \cup call[c].lost  BY <1>3
    <2>3. \A b \in rows \cup stale \cup Own(c) :
              Shut(actor[b]) \/ b \in rows' \cup stale' \cup u.lost \cup {u.cand}
      BY <1>3, <1>6
    <2>4. QED  BY <1>3, <1>5, <1>7, <1>11, <2>1, <2>2, <2>3, CallLives
  <1>12. CASE r.plan \in Relays /\ call' = [call EXCEPT ![c] = Out]
    <2>1. \A b \in Session : Brings(b)  BY <1>4, <1>9, <1>12
    <2>2. \A b \in stale' \cup Out.lost : b \in stale \cup call[c].lost  BY <1>4
    <2>3. \A b \in rows \cup stale \cup Own(c) :
              Shut(actor[b]) \/ b \in rows' \cup stale' \cup Out.lost \cup {Out.cand}
      BY <1>12
    <2>4. QED  BY <1>4, <1>5, <1>12, <2>1, <2>2, <2>3, CallLives
  <1>13. QED  BY <1>1, <1>10, <1>11, <1>12

\* A new actor.
LEMMA SpawnLives ==
    ASSUME Inv, Inv', Count, Resources, Lives, NEW c \in Client,
           call[c].stage \notin {"Sent", "Gone"},
           NEW r \in CallState, r.cand \in Session, NEW deadline, Spawn(c, r, deadline),
           UNCHANGED <<rows, stale>>, r.plan \notin {"Undo", "UndoHeld"},
           call[c].cand = NoSession, r.lost = call[c].lost
    PROVE  Lives' /\ Promised
  <1> DEFINE n == [r EXCEPT !.op = "Open", !.on = r.cand, !.stage = "Sent", !.answer = "None"]
             s == [Unborn EXCEPT !.life = "Running", !.deadline = deadline]
  <1>1. /\ actor' = [actor EXCEPT ![r.cand] = s] /\ UNCHANGED task
        /\ call' = [call EXCEPT ![c] = n] /\ quota < SessionLimit /\ quota' = quota + 1
    BY DEF Spawn
  <1>2. /\ n.stage = "Sent" /\ n.op = "Open" /\ n.on = r.cand /\ n.plan = r.plan
        /\ n.lost = r.lost
    BY CallStateIs
  <1>3. s.physical = FALSE  BY DEF Unborn
  <1> HIDE DEF n, s
  <1>4. actor'[n.on].physical = FALSE  BY <1>1, <1>2, <1>3 DEF Inv, ActorInv, Typed
  <1>5. quota' <= SessionLimit
    <2>1. quota \in Int  BY DEF Inv, ActorInv, Typed
    <2>2. QED  BY <1>1, <2>1, RegistryAssumption
  <1>6. \A b \in Session : Brings(b)  BY SpawnBrings
  <1>7. ~Effective(n)  BY <1>2 DEF Effective
  <1>8. Progress' = Progress  BY <1>1, ProgressStays
  <1>9. \A b \in stale' \cup n.lost : b \in stale \cup call[c].lost  BY <1>2
  <1>10. \A b \in rows \cup stale \cup Own(c) :
            Shut(actor[b]) \/ b \in rows' \cup stale' \cup n.lost \cup {n.cand}
    BY <1>2 DEF Own
  <1>11. QED
    BY <1>1, <1>2, <1>4, <1>5, <1>6, <1>7, <1>8, <1>9, <1>10, CallLives

\* A call that returns, or only moves on, with what it takes out and puts in.
LEMMA ReturnLives ==
    ASSUME Inv, Inv', Count, Resources, Lives, NEW c \in Client,
           call[c].stage \notin {"Sent", "Gone"},
           NEW n, call' = [call EXCEPT ![c] = n], UNCHANGED <<actor, execQ, task>>,
           n.stage \in {"Out", "Choosing", "Publishing"}, n.plan \notin {"Undo", "UndoHeld"},
           \A b \in stale' \cup n.lost : b \in stale \cup call[c].lost \/ Shut(actor[b]),
           \A b \in rows \cup stale \cup Own(c) :
               Shut(actor[b]) \/ b \in rows' \cup stale' \cup n.lost \cup {n.cand},
           quota' <= SessionLimit,
           \/ UNCHANGED rows
           \/ Opened(call[c]) /\ rows' = rows \cup {call[c].cand}
           \/ Effective(call[c]) /\ rows' = rows \ {call[c].on}
    PROVE  Lives' /\ Promised
  <1>1. ~Effective(n) /\ n.stage # "Sent" /\ n.stage # "Answered"  BY DEF Effective
  <1>2. \A b \in Session : Work(b)' = Work(b)  BY DEF Work
  <1>3. \A b \in Session : Brings(b)  BY <1>2, StayBrings
  <1>4. Progress' = Progress  BY ProgressStays
  <1>5. QED  BY <1>1, <1>3, <1>4, CallLives

\* A slot given back.
LEMMA QuotaFits ==
    ASSUME Inv, Lives, quota' \in {quota, quota - 1}
    PROVE  quota' <= SessionLimit
  <1>1. quota \in Int /\ quota <= SessionLimit  BY DEF Inv, ActorInv, Typed, Lives, ConnectedOK
  <1>2. QED  BY <1>1, RegistryAssumption

\* A call that sends its first message.
LEMMA FirstSendLives ==
    ASSUME Inv, Inv', Count, Resources, Lives, NEW c \in Client, NEW what, Calls(c, what),
           NEW r \in CallState, r.on \in Session, Send(c, r) \/ SendControl(c, r),
           UNCHANGED <<actor, registryVars>>, r.op # "Open", r.plan \notin {"Undo", "UndoHeld"},
           r.lost = {}, r.cand = NoSession, Progress' = Progress \/ Asked
    PROVE  Lives' /\ Promised
  <1>1. call[c] = Out /\ call[c].stage = "Out"  BY OutCount DEF Calls
  <1>2. call[c].cand = NoSession /\ call[c].lost = {}  BY <1>1, MineOut
  <1>3. Own(c) = {}  BY <1>2 DEF Own
  <1>4. UNCHANGED <<rows, stale>> /\ quota' <= SessionLimit  BY QuotaFits DEF registryVars
  <1>5. QED  BY <1>1, <1>2, <1>3, <1>4, SendLives

\* An execution that is asked for, of a session in the table.
LEMMA ExecuteAsks ==
    ASSUME Inv, NEW c \in Client, NEW a \in Session, NEW e \in Execution,
           NEW op, CallExecute(c, a, op, e)
    PROVE  Asked
  <1>1. /\ a \in rows /\ task[e].stage = "None" /\ task \in [Execution -> TaskState]
        /\ task' = [task EXCEPT ![e].stage = IF Running(a) THEN "Posted" ELSE "Refused",
                                ![e].on = a]
    BY DEF CallExecute, Inv, ActorInv, Typed
  <1> DEFINE stage == IF Running(a) THEN "Posted" ELSE "Refused"
             t == [task[e] EXCEPT !.stage = stage, !.on = a]
  <1>2. task' = [task EXCEPT ![e] = t]  BY <1>1
  <1>3. t.stage = stage /\ t.on = a  BY <1>1, TaskStateIs
  <1>4. stage \in {"Posted", "Refused"}  OBVIOUS
  <1> HIDE DEF t, stage
  <1>5. \A f \in Execution : task'[f] = IF f = e THEN t ELSE task[f]  BY <1>1, <1>2
  <1>6. Progress' = [f \in Execution |-> [stage |-> Phase(task'[f].stage), on |-> task'[f].on]]
    BY DEF Progress
  <1>7. Progress' = [Progress EXCEPT ![e] = [stage |-> Phase(stage), on |-> a]]
    BY <1>3, <1>5, <1>6 DEF Progress
  <1>8. Phase(stage) \in {"Waiting", "Over"}
    <2>1. Phase("Posted") = "Waiting" /\ Phase("Refused") = "Over"  BY DEF Phase
    <2>2. QED  BY <1>4, <2>1
  <1>9. Progress[e].stage = "Idle"
    <2>1. Phase("None") = "Idle"  BY DEF Phase
    <2>2. QED  BY <1>1, <2>1 DEF Progress
  <1>10. QED  BY <1>1, <1>7, <1>8, <1>9 DEF Asked

\* A call that begins knows of nothing yet.
LEMMA BeginsLives ==
    ASSUME Inv, Count, Resources, Lives, NEW c \in Client, Begins(c)
    PROVE  Lives' /\ Promised
  <1>1. Typed /\ Inv'  BY BeginsInv DEF Inv, ActorInv
  <1>2. UNCHANGED task => Progress' = Progress  BY ProgressStays
  <1>3. ASSUME NEW what, Calls(c, what)
        PROVE  /\ call[c].stage \notin {"Sent", "Gone"} /\ ~Effective(call[c])
               /\ call[c].cand = NoSession /\ call[c].lost = {} /\ Own(c) = {}
    <2>1. call[c] = Out /\ call[c].stage = "Out"  BY <1>3, OutCount DEF Calls
    <2>2. call[c].cand = NoSession /\ call[c].lost = {}  BY <2>1, MineOut
    <2>3. QED  BY <2>1, <2>2 DEF Own, Effective
  <1>4. ASSUME ConfirmQuarantined(c) PROVE Lives' /\ Promised
    <2>1. /\ Calls(c, "Confirm") /\ quota' = quota - Cardinality(stale) /\ stale' = {}
          /\ UNCHANGED <<actor, execQ, task, call, rows>>
      BY <1>4 DEF ConfirmQuarantined, actorVars
    <2>2. call[c] = Out  BY <2>1, OutCount
    <2>3. call' = [call EXCEPT ![c] = Out]  BY <1>1, <2>1, <2>2 DEF Typed
    <2>4. Out.stage = "Out" /\ Out.op = "None" /\ Out.plan = "Out" /\ Out.lost = {}  BY DEF Out
    <2>5. quota' <= SessionLimit
      <3>1. /\ Cardinality(stale) \in Nat /\ quota \in Int /\ quota <= SessionLimit
        BY <1>1, TableKeeps DEF Typed, Lives, ConnectedOK
      <3>2. QED  BY <2>1, <3>1, RegistryAssumption
    <2>6. \A b \in Session : Brings(b)
      <3>1. \A b \in Session : Work(b)' = Work(b)  BY <2>1 DEF Work
      <3>2. QED  BY <1>3, <2>1, <2>3, <3>1, StayBrings
    <2>7. \A b \in rows \cup stale \cup Own(c) :
             Shut(actor[b]) \/ b \in rows' \cup stale' \cup Out.lost \cup {Out.cand}
      BY <1>3, <2>1 DEF Lives, ConnectedOK
    <2>8. ~Effective(Out)  BY <2>4 DEF Effective
    <2>9. QED
      BY <1>1, <1>2, <1>3, <2>1, <2>3, <2>4, <2>5, <2>6, <2>7, <2>8, CallLives
  <1>5. ASSUME NEW what \in {"Evict", "InvalidateWorker"}, Scan(c, what)
        PROVE  Lives' /\ Promised
    <2> DEFINE n == [Out EXCEPT !.plan = what, !.left = rows, !.stage = "Choosing"]
    <2>1. /\ Calls(c, what) /\ call' = [call EXCEPT ![c] = n]
          /\ UNCHANGED <<actor, execQ, task>> /\ UNCHANGED <<rows, stale, quota>>
      BY <1>5 DEF Scan, actorVars, registryVars
    <2>2. n.stage = "Choosing" /\ n.plan = what /\ n.lost = {}  BY DEF Out
    <2> HIDE DEF n
    <2>3. quota' <= SessionLimit  BY <2>1, QuotaFits
    <2>4. n.plan \notin {"Undo", "UndoHeld"}  BY <2>2
    <2>5. /\ \A b \in stale' \cup n.lost : b \in stale \cup call[c].lost
          /\ \A b \in rows \cup stale \cup Own(c) :
                b \in rows' \cup stale' \cup n.lost \cup {n.cand}
      BY <1>3, <2>1, <2>2
    <2>6. QED  BY <1>1, <1>3, <2>1, <2>2, <2>3, <2>4, <2>5, ReturnLives
  <1>6. ASSUME NEW a \in Session, Register(c, a) PROVE Lives' /\ Promised
    <2> DEFINE r == [Out EXCEPT !.plan = "Register", !.cand = a]
    <2>1. Calls(c, "Register") /\ Spawn(c, r, IdleEviction) /\ UNCHANGED <<rows, stale>>
      BY <1>6 DEF Register
    <2>2. r \in CallState  BY OutType, CallStateIs DEF Plan, Somewhere
    <2>3. r.cand = a /\ r.lost = {} /\ r.plan = "Register"  BY DEF Out
    <2> HIDE DEF r
    <2>4. QED  BY <1>1, <1>3, <2>1, <2>2, <2>3, SpawnLives
  <1>7. ASSUME NEW a \in Session, CallView(c, a) PROVE Lives' /\ Promised
    <2> DEFINE r == [Out EXCEPT !.plan = "View", !.op = "View", !.on = a]
    <2>1. Calls(c, "View") /\ Send(c, r) /\ UNCHANGED <<actor, registryVars>> /\ UNCHANGED task
      BY <1>7 DEF CallView
    <2>2. r \in CallState
      BY OutType, CallStateIs, ZenonT(60) DEF Plan, Operation, Somewhere
    <2>3. r.op = "View" /\ r.on = a /\ r.plan = "View" /\ r.lost = {} /\ r.cand = NoSession
      BY DEF Out
    <2> HIDE DEF r
    <2>4. QED  BY <1>1, <1>2, <2>1, <2>2, <2>3, FirstSendLives
  <1>8. ASSUME NEW a \in Session, CallReplace(c, a) PROVE Lives' /\ Promised
    <2> DEFINE r == [Out EXCEPT !.plan = "Replace", !.op = "View", !.on = a, !.old = a]
    <2>1. Calls(c, "Replace") /\ Send(c, r) /\ UNCHANGED <<actor, registryVars>> /\ UNCHANGED task
      BY <1>8 DEF CallReplace
    <2>2. r \in CallState
      BY OutType, CallStateIs, ZenonT(60) DEF Plan, Operation, Somewhere
    <2>3. r.op = "View" /\ r.on = a /\ r.plan = "Replace" /\ r.lost = {} /\ r.cand = NoSession
      BY DEF Out
    <2> HIDE DEF r
    <2>4. QED  BY <1>1, <1>2, <2>1, <2>2, <2>3, FirstSendLives
  <1>9. ASSUME NEW a \in Session, NEW arms \in BOOLEAN, CallSetIdleDeadline(c, a, arms)
        PROVE  Lives' /\ Promised
    <2> DEFINE r == [Out EXCEPT !.plan = "SetIdleDeadline", !.op = "SetIdleDeadline", !.on = a,
                                !.arms = arms]
    <2>1. /\ Calls(c, "SetIdleDeadline") /\ Send(c, r)
          /\ UNCHANGED <<actor, registryVars>> /\ UNCHANGED task
      BY <1>9 DEF CallSetIdleDeadline
    <2>2. r \in CallState
      BY OutType, CallStateIs, ZenonT(60) DEF Plan, Operation, Somewhere
    <2>3. /\ r.op = "SetIdleDeadline" /\ r.on = a /\ r.plan = "SetIdleDeadline"
          /\ r.lost = {} /\ r.cand = NoSession
      BY DEF Out
    <2> HIDE DEF r
    <2>4. QED  BY <1>1, <1>2, <2>1, <2>2, <2>3, FirstSendLives
  <1>10. ASSUME NEW a \in Session, NEW mode \in {"RequireNoTransaction", "RollbackAndClose"},
                CallClose(c, a, mode)
         PROVE  Lives' /\ Promised
    <2> DEFINE r == [Out EXCEPT !.plan = "Close", !.op = "Close", !.on = a, !.mode = mode]
    <2>1. Calls(c, "Close") /\ Send(c, r) /\ UNCHANGED <<actor, registryVars>> /\ UNCHANGED task
      BY <1>10 DEF CallClose
    <2>2. r \in CallState
      BY OutType, CallStateIs, ZenonT(60) DEF Plan, Operation, Somewhere
    <2>3. r.op = "Close" /\ r.on = a /\ r.plan = "Close" /\ r.lost = {} /\ r.cand = NoSession
      BY DEF Out
    <2> HIDE DEF r
    <2>4. QED  BY <1>1, <1>2, <2>1, <2>2, <2>3, FirstSendLives
  <1>11. ASSUME NEW a \in Session, NEW e \in Execution, CallCancel(c, a, e)
         PROVE  Lives' /\ Promised
    <2> DEFINE r == [Out EXCEPT !.plan = "Cancel", !.op = "Cancel", !.on = a, !.exec = e]
    <2>1. /\ Calls(c, "Cancel") /\ SendControl(c, r)
          /\ UNCHANGED <<actor, registryVars>> /\ UNCHANGED task
      BY <1>11 DEF CallCancel
    <2>2. r \in CallState
      BY OutType, CallStateIs, ZenonT(60) DEF Plan, Operation, Somewhere
    <2>3. r.op = "Cancel" /\ r.on = a /\ r.plan = "Cancel" /\ r.lost = {} /\ r.cand = NoSession
      BY DEF Out
    <2> HIDE DEF r
    <2>4. QED  BY <1>1, <1>2, <2>1, <2>2, <2>3, FirstSendLives
  <1>12. ASSUME NEW a \in Session, NEW e \in Execution, NEW op \in {"Execute", "ExecuteBound"},
                CallExecute(c, a, op, e)
         PROVE  Lives' /\ Promised
    <2> DEFINE r == [Out EXCEPT !.plan = "Execute", !.op = op, !.on = a, !.exec = e,
                                !.revision = actor[a].revision]
    <2>1. Calls(c, op) /\ Send(c, r) /\ UNCHANGED <<actor, registryVars>>
      BY <1>12 DEF CallExecute
    <2>2. r \in CallState
      <3>1. actor[a].revision \in 0..MaxRevision  BY <1>1, ActorStateIs DEF Typed
      <3>2. QED  BY <3>1, OutType, CallStateIs, ZenonT(60) DEF Plan, Operation, Somewhere
    <2>3. r.op = op /\ r.on = a /\ r.plan = "Execute" /\ r.lost = {} /\ r.cand = NoSession
      BY DEF Out
    <2> HIDE DEF r
    <2>4. Asked  BY <1>12, ExecuteAsks
    <2>5. QED  BY <1>1, <2>1, <2>2, <2>3, <2>4, FirstSendLives
  <1>13. QED
    BY <1>4, <1>5, <1>6, <1>7, <1>8, <1>9, <1>10, <1>11, <1>12 DEF Begins

\* What a call that is answered with a session of its own was told of it.
LEMMA AnsweredIs ==
    ASSUME Inv, Count, Resources, Lives, NEW c \in Client
    PROVE  /\ call[c] \in CallState /\ Shape(call[c])
           /\ Own(c) \subseteq call[c].lost \cup {call[c].cand}
           /\ call[c].cand = NoSession => Own(c) = call[c].lost
           /\ call[c].plan # "InvalidateWorker" => call[c].lost = {}
           /\ Effective(call[c]) => Shut(actor[call[c].on])
           /\ call[c].op = "Open" => call[c].cand = call[c].on
           /\ call[c].op = "Open" /\ call[c].stage = "Answered" =>
                 Opened(call[c]) \/ Shut(actor[call[c].cand])
           /\ call[c].plan \in {"Undo", "UndoHeld"} =>
                 /\ call[c].mode = "RollbackAndClose"
                 /\ call[c].op = "Close" /\ call[c].stage = "Answered" => Shut(actor[call[c].cand])
  <1>1. /\ call[c] \in CallState /\ Shape(call[c])
        /\ Effective(call[c]) => Shut(actor[call[c].on])
    BY StepIs
  <1>2. call[c].plan # "InvalidateWorker" => call[c].lost = {}  BY Stakes
  <1>3. call[c].op = "Open" => call[c].cand = call[c].on
    <2>1. call[c].op = "Open" => call[c].plan \in {"Register", "Replace"}  BY <1>1, OpPlan
    <2>2. QED  BY <1>1, <2>1 DEF Shape
  <1>4. /\ call[c].op = "Open" /\ call[c].stage = "Answered" /\ call[c].answer # "Ok" =>
              Shut(actor[call[c].on])
        /\ call[c].plan \in {"Undo", "UndoHeld"} =>
              /\ call[c].mode = "RollbackAndClose"
              /\ call[c].op = "Close" /\ call[c].stage = "Answered" => Shut(actor[call[c].on])
    BY DEF Lives, ToldOK
  <1>5. call[c].plan \in {"Undo", "UndoHeld"} /\ call[c].op = "Close" => call[c].on = call[c].cand
    BY StepIs
  <1>6. QED  BY <1>1, <1>2, <1>3, <1>4, <1>5 DEF Own, Opened

\* The calls that end.
LEMMA ClosesLives ==
    ASSUME Inv, Inv', Count, Resources, Lives, NEW c \in Client,
           Registered(c) \/ Closed(c) \/ ScanDone(c) \/ AbandonReplace(c) \/ PublishCandidate(c)
           \/ Resumed(c)
    PROVE  Lives' /\ Promised
  <1>1. call' = [call EXCEPT ![c] = Out] /\ UNCHANGED <<actor, execQ, task>>
    BY DEF Registered, Closed, ScanDone, AbandonReplace, PublishCandidate, Resumed, actorVars, Returns
  <1>2. Out.stage = "Out" /\ Out.plan = "Out" /\ Out.lost = {}  BY DEF Out
  <1>3. /\ call[c] \in CallState /\ Shape(call[c])
        /\ Own(c) \subseteq call[c].lost \cup {call[c].cand}
        /\ call[c].cand = NoSession => Own(c) = call[c].lost
        /\ call[c].plan # "InvalidateWorker" => call[c].lost = {}
        /\ Effective(call[c]) => Shut(actor[call[c].on])
        /\ call[c].op = "Open" /\ call[c].stage = "Answered" =>
              Opened(call[c]) \/ Shut(actor[call[c].cand])
    BY AnsweredIs
  <1>4. call[c].stage \notin {"Sent", "Gone"}
    BY DEF Registered, Closed, ScanDone, AbandonReplace, PublishCandidate, Resumed, AtStep, Answered
  <1>5. SUFFICES /\ \A b \in stale' : b \in stale \cup call[c].lost
                 /\ \A b \in rows \cup stale \cup Own(c) : Shut(actor[b]) \/ b \in rows' \cup stale'
                 /\ quota' \in {quota, quota - 1}
                 /\ \/ UNCHANGED rows
                    \/ Opened(call[c]) /\ rows' = rows \cup {call[c].cand}
                    \/ Effective(call[c]) /\ rows' = rows \ {call[c].on}
    <2>1. ASSUME quota' \in {quota, quota - 1} PROVE quota' <= SessionLimit  BY <2>1, QuotaFits
    <2>2. QED  BY <1>1, <1>2, <1>4, <2>1, ReturnLives
  <1>6. CASE Registered(c)
    <2>1. /\ call[c].op = "Open" /\ call[c].stage = "Answered" /\ call[c].plan = "Register"
          /\ stale' = stale
      BY <1>3, <1>6 DEF Registered, Answered, Shape
    <2>2. Own(c) \subseteq {call[c].cand}  BY <1>3, <2>1
    <2>3. CASE call[c].answer = "Ok"
      <3>1. Opened(call[c]) /\ rows' = rows \cup {call[c].cand} /\ quota' = quota
        BY <1>6, <2>1, <2>3 DEF Registered, Opened
      <3>2. QED  BY <2>1, <2>2, <3>1
    <2>4. CASE call[c].answer # "Ok"
      <3>1. rows' = rows /\ quota' = quota - 1  BY <1>6, <2>4 DEF Registered
      <3>2. ~Opened(call[c])  BY <2>1, <2>4 DEF Opened
      <3>3. Shut(actor[call[c].cand])  BY <1>3, <2>1, <3>2
      <3>4. QED  BY <2>1, <2>2, <3>1, <3>3
    <2>5. QED  BY <2>3, <2>4
  <1>7. CASE Closed(c)
    <2>1. /\ call[c].op = "Close" /\ call[c].stage = "Answered" /\ call[c].plan = "Close"
          /\ stale' = stale
      BY <1>3, <1>7 DEF Closed, Answered, Shape
    <2>2. Own(c) = {}  BY <1>3, <2>1, Stakes
    <2>3. Effective(call[c]) <=> call[c].answer \in {"Ok", "SessionLost"}
      BY <2>1 DEF Effective, Final
    <2>4. /\ rows' = IF Effective(call[c]) THEN rows \ {call[c].on} ELSE rows
          /\ quota' \in {quota, quota - 1}
      BY <1>7, <2>3 DEF Closed, Forget
    <2>5. QED  BY <1>3, <2>1, <2>2, <2>4
  <1>8. CASE ScanDone(c)
    <2>1. /\ call[c].plan \in {"Evict", "InvalidateWorker"} /\ stale' = stale \cup call[c].lost
          /\ rows' = rows /\ quota' = quota
      BY <1>8 DEF ScanDone
    <2>2. Own(c) = call[c].lost  BY <1>3, <2>1, Stakes
    <2>3. QED  BY <2>1, <2>2
  <1>9. CASE AbandonReplace(c)
    <2>1. /\ rows' = rows /\ stale' = stale /\ quota' \in {quota, quota - 1}
          /\ call[c].plan = "Replace" /\ call[c].stage = "Answered"
          /\ call[c].op = "View" \/ (call[c].op = "Open" /\ call[c].answer # "Ok")
      BY <1>9 DEF AbandonReplace, AtStep, Answered
    <2>2. CASE call[c].op = "View"
      <3>1. Own(c) = {}  BY <1>3, <2>1, <2>2, Stakes
      <3>2. QED  BY <2>1, <3>1
    <2>3. CASE call[c].op = "Open" /\ call[c].answer # "Ok"
      <3>1. ~Opened(call[c])  BY <2>3 DEF Opened
      <3>2. Shut(actor[call[c].cand]) /\ Own(c) \subseteq {call[c].cand}  BY <1>3, <2>1, <2>3, <3>1
      <3>3. QED  BY <2>1, <3>2
    <2>4. QED  BY <2>1, <2>2, <2>3
  <1>10. CASE PublishCandidate(c)
    <2>1. /\ call[c].stage = "Publishing" /\ rows' = rows \cup {call[c].cand}
          /\ stale' = stale /\ quota' = quota
      BY <1>10 DEF PublishCandidate
    <2>2. Opened(call[c]) /\ call[c].plan = "Replace"  BY <1>3, <2>1 DEF Shape, Opened
    <2>3. Own(c) \subseteq {call[c].cand}  BY <1>3, <2>2
    <2>4. QED  BY <2>1, <2>2, <2>3
  <1>11. CASE Resumed(c)
    <2>1. /\ call[c].plan = "UndoHeld" /\ call[c].op = "Resume"
          /\ rows' = rows /\ stale' = stale /\ quota' = quota
      BY <1>11 DEF Resumed, AtStep, Answered, registryVars
    <2>2. Own(c) = {}  BY <1>3, <2>1, Stakes
    <2>3. QED  BY <2>1, <2>2
  <1>12. QED  BY <1>6, <1>7, <1>8, <1>9, <1>10, <1>11

\* The scans.
LEMMA ScansLives ==
    ASSUME Inv, Inv', Count, Resources, Lives, NEW c \in Client,
           Evicted(c) \/ Invalidated(c) \/ \E a \in Session : Visit(c, a)
    PROVE  Lives' /\ Promised
  <1>1. /\ call[c] \in CallState /\ Shape(call[c])
        /\ call[c].cand = NoSession => Own(c) = call[c].lost
        /\ Effective(call[c]) => Shut(actor[call[c].on])
    BY AnsweredIs
  <1>2. ASSUME NEW r \in CallState, call[c].stage \notin {"Sent", "Gone"}, MovesOn(c, r),
               r.plan \in {"Evict", "InvalidateWorker"},
               UNCHANGED <<actor, execQ, task>>, UNCHANGED stale, quota' \in {quota, quota - 1},
               rows' = IF Effective(call[c]) THEN rows \ {call[c].on} ELSE rows,
               Own(c) \subseteq r.lost, \A b \in r.lost : b \in call[c].lost \/ Shut(actor[b])
        PROVE  Lives' /\ Promised
    <2> DEFINE n == [r EXCEPT !.stage = "Choosing", !.on = NoSession]
    <2>1. call' = [call EXCEPT ![c] = n]  BY <1>2 DEF MovesOn
    <2>2. n.stage = "Choosing" /\ n.plan = r.plan /\ n.lost = r.lost
      BY <1>2, CallStateIs
    <2> HIDE DEF n
    <2>3. quota' <= SessionLimit  BY <1>2, QuotaFits
    <2>4. \A b \in rows \cup stale \cup Own(c) :
              Shut(actor[b]) \/ b \in rows' \cup stale' \cup n.lost \cup {n.cand}
      BY <1>1, <1>2, <2>2
    <2>5. \A b \in stale' \cup n.lost : b \in stale \cup call[c].lost \/ Shut(actor[b])
      BY <1>2, <2>2
    <2>6. n.plan \notin {"Undo", "UndoHeld"}  BY <1>2, <2>2
    <2>7. \/ UNCHANGED rows
          \/ Effective(call[c]) /\ rows' = rows \ {call[c].on}
      BY <1>2
    <2>8. QED  BY <1>2, <2>1, <2>2, <2>3, <2>4, <2>5, <2>6, <2>7, ReturnLives
  <1>3. ASSUME call[c].plan \in {"Evict", "InvalidateWorker"}
        PROVE  /\ call[c].cand = NoSession /\ Own(c) = call[c].lost
               /\ call[c].stage = "Answered" => call[c].op = call[c].plan
    <2>1. call[c].cand = NoSession  BY <1>3, Stakes
    <2>2. QED  BY <1>1, <1>3, <2>1 DEF Shape
  <1>4. CASE Evicted(c)
    <2>1. /\ call[c].plan = "Evict" /\ call[c].stage = "Answered" /\ MovesOn(c, call[c])
          /\ UNCHANGED <<actor, execQ, task>> /\ UNCHANGED stale
      BY <1>4 DEF Evicted, Answered, actorVars
    <2>2. call[c].op = "Evict"  BY <1>3, <2>1
    <2>3. Effective(call[c]) <=> call[c].answer \in {"Ok", "SessionLost"}
      BY <2>1, <2>2 DEF Effective, Final
    <2>4. /\ rows' = IF Effective(call[c]) THEN rows \ {call[c].on} ELSE rows
          /\ quota' \in {quota, quota - 1}
      BY <1>4, <2>3 DEF Evicted, Forget
    <2>5. QED  BY <1>1, <1>2, <1>3, <2>1, <2>4
  <1>5. CASE Invalidated(c)
    <2>1. /\ call[c].plan = "InvalidateWorker" /\ call[c].stage = "Answered"
          /\ UNCHANGED <<actor, execQ, task>> /\ UNCHANGED stale /\ quota' = quota
      BY <1>5 DEF Invalidated, Answered, actorVars
    <2>2. call[c].op = "InvalidateWorker"  BY <1>3, <2>1
    <2>3. Effective(call[c]) <=> call[c].answer \in {"Ok", "NotHere"}
      BY <2>1, <2>2 DEF Effective, Final
    <2>4. rows' = IF Effective(call[c]) THEN rows \ {call[c].on} ELSE rows
      BY <1>5, <2>3 DEF Invalidated
    <2> DEFINE X == call[c].lost \cup (rows \cap {call[c].on})
               r == [call[c] EXCEPT !.lost = X]
    <2>5. MovesOn(c, call[c]) \/ (Effective(call[c]) /\ MovesOn(c, r))
      BY <1>5, <2>3 DEF Invalidated
    <2>6. CASE MovesOn(c, call[c])  BY <1>1, <1>2, <1>3, <2>1, <2>4, <2>6
    <2>7. CASE Effective(call[c]) /\ MovesOn(c, r)
      <3>1. X \in SUBSET Session  BY <1>1, CallStateIs DEF Inv, ActorInv, Typed
      <3>2. r \in CallState  BY <1>1, <3>1, CallTypes
      <3>3. r.plan = call[c].plan /\ r.lost = X  BY <1>1, CallStateIs
      <3>4. Own(c) \subseteq X /\ \A b \in X : b \in call[c].lost \/ Shut(actor[b])
        BY <1>1, <1>3, <2>1, <2>7
      <3> HIDE DEF r, X
      <3>5. QED  BY <1>2, <2>1, <2>4, <2>7, <3>2, <3>3, <3>4
    <2>8. QED  BY <2>5, <2>6, <2>7
  <1>6. ASSUME NEW a \in Session, Visit(c, a) PROVE Lives' /\ Promised
    <2> DEFINE n == [call[c] EXCEPT !.on = a, !.left = @ \ {a}, !.op = call[c].plan]
    <2>1. /\ call[c].stage = "Choosing" /\ UNCHANGED <<actor, task, unfinished, registryVars>>
          /\ \/ call[c].plan = "Evict" /\ Send(c, n)
             \/ call[c].plan = "InvalidateWorker" /\ SendControl(c, n)
      BY <1>6, ZenonT(60) DEF Visit
    <2>2. /\ n \in CallState /\ n.on = a /\ n.op = call[c].plan
          /\ call[c].plan \in {"Evict", "InvalidateWorker"}
      BY <1>1, <2>1, VisitShape
    <2>3. n.cand = call[c].cand /\ n.plan = call[c].plan /\ n.lost = call[c].lost
      BY <1>1, CallStateIs
    <2> HIDE DEF n
    <2>4. /\ UNCHANGED <<actor, rows, stale>> /\ quota' <= SessionLimit /\ Progress' = Progress
      BY <2>1, QuotaFits, ProgressStays DEF registryVars
    <2>5. /\ n.op # "Open" /\ n.plan \notin {"Undo", "UndoHeld"} /\ n.plan \notin Relays
          /\ Send(c, n) \/ SendControl(c, n)
      BY <2>1, <2>2, <2>3 DEF Relays
    <2>6. QED  BY <2>1, <2>2, <2>3, <2>4, <2>5, SendLives
  <1>7. QED  BY <1>4, <1>5, <1>6

\* A replacement: its candidate is in the table, with its call, or closed.
LEMMA ReplacesLives ==
    ASSUME Inv, Inv', Count, Resources, Lives, NEW c \in Client,
           \/ HoldOld(c) \/ RetireOld(c) \/ OldRetired(c) \/ UndoReplace(c) \/ CandidateDestroyed(c)
           \/ \E a \in Session : OpenCandidate(c, a)
    PROVE  Lives' /\ Promised
  <1>1. /\ call[c] \in CallState /\ Shape(call[c])
        /\ Own(c) \subseteq call[c].lost \cup {call[c].cand}
        /\ call[c].plan # "InvalidateWorker" => call[c].lost = {}
        /\ Effective(call[c]) => Shut(actor[call[c].on])
        /\ call[c].plan \in {"Undo", "UndoHeld"} =>
              /\ call[c].mode = "RollbackAndClose"
              /\ call[c].op = "Close" /\ call[c].stage = "Answered" => Shut(actor[call[c].cand])
    BY AnsweredIs
  <1>2. call[c].plan = "Replace" =>
           /\ call[c].mode = "RollbackAndClose"
           /\ call[c].op # "Open" => call[c].on = call[c].old
    BY <1>1 DEF Shape
  <1>3. call[c].stage = "Answered"
    BY DEF HoldOld, RetireOld, OldRetired, UndoReplace, CandidateDestroyed, OpenCandidate,
           AtStep, Answered
  <1>4. UNCHANGED task => Progress' = Progress  BY ProgressStays
  <1>5. quota' \in {quota, quota - 1} => quota' <= SessionLimit  BY QuotaFits
  <1>6. ASSUME NEW a \in Session, OpenCandidate(c, a) PROVE Lives' /\ Promised
    <2> DEFINE r == [call[c] EXCEPT !.cand = a]
    <2>1. AtStep(c, "Replace", "View") /\ Spawn(c, r, FALSE) /\ UNCHANGED <<rows, stale>>
      BY <1>6, Zenon DEF OpenCandidate
    <2>2. call[c].plan = "Replace" /\ call[c].op = "View"  BY <2>1 DEF AtStep, Answered
    <2>3. r \in CallState /\ r.cand = a  BY <1>1, <1>3, <2>2, ReplaceShape, Zenon
    <2>4. r.plan = call[c].plan /\ r.lost = call[c].lost  BY <1>1, CallStateIs
    <2>5. call[c].cand = NoSession  BY <2>2, Stakes
    <2> HIDE DEF r
    <2>6. QED  BY <1>3, <2>1, <2>2, <2>3, <2>4, <2>5, SpawnLives
  <1>7. CASE HoldOld(c)
    <2> DEFINE n == [call[c] EXCEPT !.op = "Hold", !.on = call[c].old]
    <2>1. /\ AtStep(c, "Replace", "Open") /\ Send(c, n)
          /\ UNCHANGED <<actor, rows, stale>> /\ UNCHANGED <<quota, task>>
      BY <1>7 DEF HoldOld, registryVars
    <2>2. call[c].plan = "Replace" /\ call[c].op = "Open"  BY <2>1 DEF AtStep, Answered
    <2>3. n \in CallState /\ n.on \in Session /\ n.op = "Hold"
      BY <1>1, <1>3, <2>2, ReplaceShape, Zenon
    <2>4. n.cand = call[c].cand /\ n.lost = call[c].lost /\ n.plan = call[c].plan
      BY <1>1, CallStateIs
    <2> HIDE DEF n
    <2>5. n.plan \notin {"Undo", "UndoHeld"} /\ n.plan \notin Relays /\ n.op # "Open"
      BY <2>2, <2>3, <2>4 DEF Relays
    <2>6. QED  BY <1>3, <1>4, <1>5, <2>1, <2>3, <2>4, <2>5, SendLives
  <1>8. CASE RetireOld(c)
    <2> DEFINE n == [call[c] EXCEPT !.op = "Close", !.on = call[c].old]
               p == [n EXCEPT !.stage = "Publishing"]
    <2>1. /\ AtStep(c, "Replace", "Hold")
          /\ UNCHANGED <<actor, rows, stale>> /\ UNCHANGED <<quota, task>>
          /\ \/ Send(c, n)
             \/ call' = [call EXCEPT ![c] = p] /\ UNCHANGED execQ
      BY <1>8 DEF RetireOld, registryVars
    <2>2. call[c].plan = "Replace" /\ call[c].op = "Hold"  BY <2>1 DEF AtStep, Answered
    <2>3. n \in CallState /\ n.on \in Session /\ n.op = "Close"
      BY <1>1, <1>3, <2>2, ReplaceShape, Zenon
    <2>4. n.cand = call[c].cand /\ n.lost = call[c].lost /\ n.plan = call[c].plan
      BY <1>1, CallStateIs
    <2>5. /\ p.cand = call[c].cand /\ p.lost = call[c].lost /\ p.plan = call[c].plan
          /\ p.stage = "Publishing"
      BY <1>1, CallStateIs
    <2> HIDE DEF n, p
    <2>6. CASE Send(c, n)
      <3>1. n.plan \notin {"Undo", "UndoHeld"} /\ n.plan \notin Relays /\ n.op # "Open"
        BY <2>2, <2>3, <2>4 DEF Relays
      <3>2. QED  BY <1>3, <1>4, <1>5, <2>1, <2>3, <2>4, <2>6, <3>1, SendLives
    <2>7. CASE call' = [call EXCEPT ![c] = p] /\ UNCHANGED execQ
      <3>1. p.plan \notin {"Undo", "UndoHeld"}  BY <2>2, <2>5
      <3>2. \A b \in stale' \cup p.lost : b \in stale \cup call[c].lost  BY <2>1, <2>5
      <3>3. \A b \in rows \cup stale \cup Own(c) : b \in rows' \cup stale' \cup p.lost \cup {p.cand}
        BY <1>1, <2>1, <2>5
      <3>4. QED  BY <1>3, <1>5, <2>1, <2>5, <2>7, <3>1, <3>2, <3>3, ReturnLives
    <2>8. QED  BY <2>1, <2>6, <2>7
  <1>9. CASE OldRetired(c)
    <2> DEFINE p == [call[c] EXCEPT !.stage = "Publishing"]
    <2>1. /\ AtStep(c, "Replace", "Close") /\ UNCHANGED <<actor, execQ, task>>
          /\ call' = [call EXCEPT ![c] = p] /\ UNCHANGED stale
      BY <1>9 DEF OldRetired, actorVars
    <2>2. call[c].plan = "Replace" /\ call[c].op = "Close"  BY <2>1 DEF AtStep, Answered
    <2>3. /\ p.cand = call[c].cand /\ p.lost = call[c].lost /\ p.plan = call[c].plan
          /\ p.stage = "Publishing"
      BY <1>1, CallStateIs
    <2> HIDE DEF p
    <2>4. Effective(call[c]) <=> call[c].answer \in {"Ok", "SessionLost"}
      BY <1>3, <2>2 DEF Effective, Final
    <2>5. call[c].on = call[c].old  BY <1>2, <2>2
    <2>6. /\ rows' = IF Effective(call[c]) THEN rows \ {call[c].on} ELSE rows
          /\ quota' \in {quota, quota - 1}
      BY <1>9, <2>4, <2>5 DEF OldRetired, Forget
    <2>7. p.plan \notin {"Undo", "UndoHeld"}  BY <2>2, <2>3
    <2>8. \A b \in stale' \cup p.lost : b \in stale \cup call[c].lost  BY <2>1, <2>3
    <2>9. \A b \in rows \cup stale \cup Own(c) :
              Shut(actor[b]) \/ b \in rows' \cup stale' \cup p.lost \cup {p.cand}
      BY <1>1, <2>1, <2>3, <2>6
    <2>10. UNCHANGED rows \/ (Effective(call[c]) /\ rows' = rows \ {call[c].on})  BY <2>6
    <2>11. QED  BY <1>3, <1>5, <2>1, <2>3, <2>6, <2>7, <2>8, <2>9, <2>10, ReturnLives
  <1>10. CASE UndoReplace(c)
    <2> DEFINE plan == IF call[c].op = "Hold" /\ call[c].answer = "Ok" THEN "UndoHeld" ELSE "Undo"
               n == [call[c] EXCEPT !.plan = plan, !.op = "Close", !.on = call[c].cand]
    <2>1. /\ AtStep(c, "Replace", "Open") \/ AtStep(c, "Replace", "Hold")
          /\ Send(c, n) /\ UNCHANGED <<actor, rows, stale>> /\ UNCHANGED <<quota, task>>
      BY <1>10 DEF UndoReplace, registryVars
    <2>2. call[c].plan = "Replace" /\ call[c].op \in {"Open", "Hold"}
      BY <2>1 DEF AtStep, Answered
    <2>3. plan \in {"Undo", "UndoHeld"}  OBVIOUS
    <2> HIDE DEF plan
    <2>4. n \in CallState /\ n.op = "Close"  BY <1>1, <1>3, <2>2, <2>3, ReplaceShape, Zenon
    <2>5. /\ n.plan = plan /\ n.on = call[c].cand /\ n.cand = call[c].cand
          /\ n.lost = call[c].lost /\ n.mode = call[c].mode
      BY <1>1, <2>3, CallStateIs DEF Plan
    <2>6. call[c].cand \in Session  BY <1>1, <1>3, <2>2, ReplaceShape, Zenon
    <2> HIDE DEF n
    <2>7. n.plan \notin Relays /\ n.op # "Open" /\ n.mode = "RollbackAndClose"
      BY <1>2, <2>2, <2>3, <2>4, <2>5 DEF Relays
    <2>8. QED  BY <1>3, <1>4, <1>5, <2>1, <2>4, <2>5, <2>6, <2>7, SendLives
  <1>11. CASE CandidateDestroyed(c)
    <2> DEFINE n == [call[c] EXCEPT !.op = "Resume", !.on = call[c].old, !.cand = NoSession]
    <2>1. /\ AtStep(c, "Undo", "Close") \/ AtStep(c, "UndoHeld", "Close")
          /\ UNCHANGED <<actor, rows, stale>> /\ UNCHANGED task /\ quota' = quota - 1
          /\ \/ call[c].plan = "UndoHeld" /\ Send(c, n)
             \/ Returns(c) /\ UNCHANGED execQ
      BY <1>11 DEF CandidateDestroyed
    <2>2. call[c].plan \in {"Undo", "UndoHeld"} /\ call[c].op = "Close"
      BY <2>1 DEF AtStep, Answered
    <2>3. /\ Shut(actor[call[c].cand]) /\ call[c].mode = "RollbackAndClose"
          /\ Own(c) \subseteq {call[c].cand}
      BY <1>1, <1>3, <2>2
    <2>4. CASE call[c].plan = "UndoHeld" /\ Send(c, n)
      <3>1. n \in CallState /\ n.on \in Session /\ n.op = "Resume"
        BY <1>1, <1>3, <2>4, ResumeShape
      <3>2. n.mode = call[c].mode /\ n.plan = call[c].plan /\ n.lost = call[c].lost
        BY <1>1, CallStateIs
      <3> HIDE DEF n
      <3>3. n.plan \notin Relays /\ n.op # "Open" /\ n.mode = "RollbackAndClose"
        BY <2>3, <2>4, <3>1, <3>2 DEF Relays
      <3>4. QED  BY <1>3, <1>4, <1>5, <2>1, <2>3, <2>4, <3>1, <3>2, <3>3, SendLives, SMTT(60)
    <2>5. CASE Returns(c) /\ UNCHANGED execQ
      <3>1. call' = [call EXCEPT ![c] = Out]  BY <2>5 DEF Returns
      <3>2. Out.stage = "Out" /\ Out.plan = "Out" /\ Out.lost = {}  BY DEF Out
      <3>3. /\ \A b \in stale' \cup Out.lost : b \in stale
            /\ \A b \in rows \cup stale \cup Own(c) :
                  Shut(actor[b]) \/ b \in rows' \cup stale' \cup Out.lost
        BY <2>1, <2>3, <3>2
      <3>4. QED  BY <1>3, <1>5, <2>1, <2>5, <3>1, <3>2, <3>3, ReturnLives
    <2>6. QED  BY <2>1, <2>4, <2>5
  <1>12. QED  BY <1>6, <1>7, <1>8, <1>9, <1>10, <1>11

\* A caller that is dropped keeps what it had.
LEMMA GiveUpLives ==
    ASSUME Inv, Inv', Count, Resources, Lives, NEW c \in Client, GiveUp(c),
           UNCHANGED registryVars
    PROVE  Lives' /\ Promised
  <1> DEFINE n == [call[c] EXCEPT !.stage = "Gone", !.answer = "None"]
  <1>1. /\ call' = [call EXCEPT ![c] = n] /\ UNCHANGED <<actor, execQ, task>>
        /\ UNCHANGED <<rows, stale, quota>>
    BY DEF GiveUp, actorVars, registryVars
  <1>2. /\ call[c] \in CallState /\ Own(c) \subseteq call[c].lost \cup {call[c].cand}
        /\ call[c].plan \in {"Undo", "UndoHeld"} => call[c].mode = "RollbackAndClose"
    BY AnsweredIs
  <1>3. /\ n.stage = "Gone" /\ n.op = call[c].op /\ n.plan = call[c].plan
        /\ n.mode = call[c].mode /\ n.lost = call[c].lost /\ n.cand = call[c].cand
    BY <1>2, CallStateIs
  <1> HIDE DEF n
  <1>4. call'[c] = n /\ \A d \in Client : d # c => call'[d] = call[d]
    BY <1>1 DEF Inv, ActorInv, Typed
  <1>5. \A b \in Session : Brings(b)
    <2>1. \A b \in Session : Work(b)' = Work(b)  BY <1>1 DEF Work
    <2>2. \A d \in Client : call'[d].op = call[d].op  BY <1>3, <1>4
    <2>3. \A b \in Session : \A d \in Client : Opener(b, d)' <=> Opener(b, d)
      BY <2>1, <2>2 DEF Opener
    <2>4. QED  BY <1>1, <2>3 DEF Brings
  <1>6. ~Effective(n)  BY <1>3 DEF Effective
  <1>7. Progress' = Progress  BY <1>1, ProgressStays
  <1>8. quota' <= SessionLimit  BY <1>1, QuotaFits
  <1>9. /\ \A b \in stale' \cup n.lost : b \in stale \cup call[c].lost
        /\ \A b \in rows \cup stale \cup Own(c) : b \in rows' \cup stale' \cup n.lost \cup {n.cand}
    BY <1>1, <1>2, <1>3
  <1>10. QED
    BY <1>1, <1>2, <1>3, <1>5, <1>6, <1>7, <1>8, <1>9, CallLives

\* Every step keeps what is known of the lives, and is one of the promise.
LEMMA NextLives == ASSUME Inv, Count, Resources, Lives, Next PROVE Lives' /\ Promised
  <1>1. Inv'  BY NextInv
  <1>2. ASSUME NEW c \in Client, GoesOn(c) PROVE Lives' /\ Promised
    BY <1>1, <1>2, ClosesLives, ScansLives, ReplacesLives DEF GoesOn, Continues
  <1>3. ASSUME NEW c \in Client, Begins(c) PROVE Lives' /\ Promised  BY <1>3, BeginsLives
  <1>4. ASSUME NEW c \in Client, Apart(GiveUp(c)) PROVE Lives' /\ Promised
    BY <1>1, <1>4, GiveUpLives DEF Apart
  <1>5. ASSUME Works, UNCHANGED <<registryVars, begun>> PROVE Lives' /\ Promised
    <2>1. UNCHANGED registryVars /\ UNCHANGED <<rows, quota, stale>>  BY <1>5 DEF registryVars
    <2>2. SecretOK  BY DEF Lives
    <2>3. CASE UNCHANGED <<actor, execQ, call>> /\ Progress' = Progress
      <3>1. Lives'  BY <2>1, <2>3, QuietLives
      <3>2. \A b \in Session : ResourceOf(b)' = ResourceOf(b)
        BY <2>3 DEF ResourceOf, Opener, Work
      <3>3. Resource' = Resource  BY <3>2 DEF Resource
      <3>4. QED  BY <2>1, <2>3, <3>1, <3>3 DEF Promised
    <2>4. ASSUME NEW a \in Session, Turns(a), Advances(a) PROVE Lives' /\ Promised
      BY <2>1, <2>4, TurnsLives, TurnsPromise
    <2>5. QED  BY <1>5, <2>2, <2>3, <2>4, WorksTurns
  <1>6. (\E c \in Client : GoesOn(c) \/ Begins(c) \/ Apart(GiveUp(c)))
        \/ (Works /\ UNCHANGED <<registryVars, begun>>)
    BY DEF Next, Proceeds, Apart, Works
  <1>7. QED  BY <1>2, <1>3, <1>4, <1>5, <1>6

\* A step that changes nothing.
LEMMA StutterPromised == ASSUME UNCHANGED vars PROVE UNCHANGED <<Resource, rows, Progress>>
  <1>1. UNCHANGED <<actor, execQ, task, call, rows>>  BY DEF vars
  <1>2. \A a \in Session : ResourceOf(a)' = ResourceOf(a)  BY <1>1 DEF ResourceOf, Opener, Work
  <1>3. Resource' = Resource  BY <1>2 DEF Resource
  <1>4. Progress' = Progress  BY <1>1, ProgressStays
  <1>5. QED  BY <1>1, <1>3, <1>4

\* What is open has a slot, what was given up is closed, and no session is open that has not
\* answered its Open.
THEOREM LivesHold == Spec => []Lives
  <1>1. Init => Lives
    <2> SUFFICES ASSUME Init PROVE Lives
      OBVIOUS
    <2>1. /\ \A a \in Session : actor[a] = Unborn
          /\ \A c \in Client : call[c] = Out
          /\ stale = {} /\ quota = 0
      BY DEF Init
    <2>2. Unborn.physical = FALSE /\ Unborn.life = "Unborn"  BY DEF Unborn
    <2>3. ~Effective(Out) /\ Out.plan = "Out" /\ Out.op = "None" /\ Out.lost = {}
      BY DEF Out, Effective
    <2>4. CrashedOK /\ SecretOK  BY <2>1, <2>2, <2>3 DEF CrashedOK, SecretOK
    <2>5. ToldOK  BY <2>1, <2>3 DEF ToldOK
    <2>6. ConnectedOK
      <3>1. Detained = {}  BY <2>1, <2>3 DEF Detained
      <3>2. quota <= SessionLimit  BY <2>1, RegistryAssumption
      <3>3. QED  BY <2>1, <2>2, <3>1, <3>2 DEF ConnectedOK, Shut
    <2>7. QED  BY <2>4, <2>5, <2>6 DEF Lives
  <1>2. Lives /\ UNCHANGED vars => Lives'
    BY QuietLives DEF vars
  <1>3. Inv /\ Count /\ Resources /\ Lives /\ Next => Lives'  BY NextLives
  <1>4. QED
    BY <1>1, <1>2, <1>3, InvariantHolds, CountHolds, ResourcesHold, PTL DEF Spec

\* The connections at work: open, with an actor that lives.
Connections == {a \in Session : actor[a].physical /\ actor[a].life # "Crashed"}

\* There are never more of them than the limit of the sessions, though the slot of one goes
\* back on paths that do not look at its connection: a candidate that is undone, an Open
\* that fails, a lost worker whose quarantine is confirmed.
ConnectionsBounded == Cardinality(Connections) <= SessionLimit

\* The registry admits no more connections at work than its limit, whatever is closed,
\* evicted, invalidated, replaced or dropped meanwhile.
THEOREM ConnectionsStayBounded == Spec => []ConnectionsBounded
  <1>1. Inv /\ Count /\ Lives => ConnectionsBounded
    <2> SUFFICES ASSUME Inv, Count, Lives PROVE Cardinality(Connections) <= SessionLimit
      BY DEF ConnectionsBounded
    <2>1. /\ Connections \subseteq Slots /\ quota <= SessionLimit
      BY DEF Connections, Lives, ConnectedOK, Shut
    <2>2. IsFiniteSet(Slots)
      <3>1. Slots \subseteq Session  BY KnownTyped
      <3>2. QED  BY <3>1, FiniteAssumption, FS_Subset
    <2>3. /\ Cardinality(Connections) <= Cardinality(Slots)
          /\ Cardinality(Connections) \in Nat /\ Cardinality(Slots) \in Nat
      BY <2>1, <2>2, FS_Subset, FS_CardinalityType
    <2>4. quota = Cardinality(Slots)  BY DEF Count
    <2>5. QED  BY <2>1, <2>3, <2>4, RegistryAssumption
  <1>2. QED  BY <1>1, InvariantHolds, CountHolds, LivesHold, PTL

\* The registry and its actors keep the promise of SessionLife: a connection is opened once,
\* within the limit; a session is found only once its connection has opened and until it has
\* closed; and an execution starts only on an open connection nobody else executes on.
THEOREM SessionsKeepThePromise == Spec => Promise!LifeSpec
  <1>1. Init => Promise!LifeInit
    <2> SUFFICES ASSUME Init PROVE Promise!LifeInit
      OBVIOUS
    <2>1. /\ \A a \in Session : actor[a] = Unborn
          /\ \A e \in Execution : task[e] = NoTask
          /\ rows = {}
      BY DEF Init
    <2>2. Unborn.life = "Unborn"  BY DEF Unborn
    <2>3. Resource = [a \in Session |-> "None"]  BY <2>1, <2>2 DEF Resource, ResourceOf
    <2>4. NoTask.stage = "None" /\ NoTask.on = NoSession  BY DEF NoTask
    <2>5. Phase("None") = "Idle"  BY DEF Phase
    <2>6. Progress = [e \in Execution |-> Promise!Idle]
      BY <2>1, <2>4, <2>5 DEF Progress, Promise!Idle
    <2>7. QED  BY <2>1, <2>3, <2>6 DEF Promise!LifeInit
  <1>2. Inv /\ Count /\ Resources /\ Lives /\ [Next]_vars => [Promise!LifeNext]_(Promise!lifeVars)
    <2> SUFFICES ASSUME Inv, Count, Resources, Lives, [Next]_vars
                 PROVE  [Promise!LifeNext]_(Promise!lifeVars)
      OBVIOUS
    <2>1. Promised  BY NextLives, StutterPromised DEF Promised
    <2>2. QED  BY <2>1 DEF Promised, Promise!lifeVars
  <1>3. QED
    BY <1>1, <1>2, InvariantHolds, CountHolds, ResourcesHold, LivesHold, PTL
       DEF Spec, Promise!LifeSpec
================================================================================
