------------------------ MODULE SessionRegistry_proofs ------------------------
(* What the actors and the table of SessionRegistry guarantee for any number of  *)
(* sessions, clients and executions: one execution runs on a session at a time,  *)
(* an accepted cancellation is passed on, and every slot taken is one session.   *)
(*                                                                               *)
(* The invariant is in two parts.  Inv says how the queues, the messages, the    *)
(* books of executions and the calls go together.  Count is the account of the   *)
(* sessions, who knows of each and where its slot is; it rests on Inv.           *)
EXTENDS SessionRegistry, FiniteSetTheorems, TLAPS

--------------------------------------------------------------------------------
(* Queues.                                                                      *)

Distinct(q) == \A i, j \in DOMAIN q : q[i] = q[j] => i = j

\* What is in a queue.
LEMMA InElements ==
    ASSUME NEW S, NEW q \in Seq(S)
    PROVE  /\ Elements(q) \subseteq S
           /\ \A x : x \in Elements(q) <=> \E i \in 1..Len(q) : x = q[i]
  BY DEF Elements

\* What taking the first of a queue leaves.
LEMMA SeqTail ==
    ASSUME NEW S, NEW q \in Seq(S), q # <<>>
    PROVE  /\ Head(q) \in S /\ Tail(q) \in Seq(S)
           /\ Head(q) \in Elements(q) /\ Elements(q) = Elements(Tail(q)) \cup {Head(q)}
           /\ Distinct(q) => Distinct(Tail(q)) /\ Head(q) \notin Elements(Tail(q))
  <1> DEFINE t == Tail(q)
  <1>1. /\ t \in Seq(S) /\ Len(t) = Len(q) - 1 /\ Len(q) \in Nat \ {0}
        /\ \A i \in 1..Len(t) : t[i] = q[i + 1]
        /\ Head(q) = q[1] /\ q[1] \in S /\ 1 \in 1..Len(q)
        /\ DOMAIN q = 1..Len(q) /\ DOMAIN t = 1..Len(t)
    OBVIOUS
  <1> HIDE DEF t
  <1>2. \A i \in 1..Len(t) : i + 1 \in 1..Len(q)  BY <1>1
  <1>3. \A i \in 1..Len(q) : i = 1 \/ i - 1 \in 1..Len(t)  BY <1>1
  <1>4. \A x : x \in Elements(t) <=> \E i \in 1..Len(t) : x = q[i + 1]
    BY <1>1, InElements, SMTT(60)
  <1>5. \A x : x \in Elements(q) <=> \E i \in 1..Len(q) : x = q[i]
    BY InElements
  <1>6. Elements(q) = Elements(t) \cup {q[1]}
    <2>1. ASSUME NEW x \in Elements(q) PROVE x \in Elements(t) \cup {q[1]}
      <3>1. PICK i \in 1..Len(q) : x = q[i]  BY <2>1, <1>5
      <3>2. CASE i - 1 \in 1..Len(t)
        <4>1. (i - 1) + 1 = i  OBVIOUS
        <4>2. QED  BY <3>1, <3>2, <4>1, <1>4
      <3>3. QED  BY <3>1, <3>2, <1>3
    <2>2. Elements(t) \subseteq Elements(q)  BY <1>4, <1>5, <1>2
    <2>3. q[1] \in Elements(q)  BY <1>1, <1>5
    <2>4. QED  BY <2>1, <2>2, <2>3
  <1>7. ASSUME Distinct(q) PROVE Distinct(t) /\ q[1] \notin Elements(t)
    <2>1. \A i, j \in 1..Len(q) : q[i] = q[j] => i = j  BY <1>7, <1>1 DEF Distinct
    <2>2. \A i, j \in 1..Len(t) : t[i] = t[j] => i + 1 = j + 1  BY <2>1, <1>1, <1>2
    <2>3. \A i, j \in 1..Len(t) : t[i] = t[j] => i = j  BY <2>2
    <2>4. \A i \in 1..Len(t) : q[1] # q[i + 1]  BY <2>1, <1>1, <1>2
    <2>5. QED  BY <2>3, <2>4, <1>1, <1>4 DEF Distinct
  <1>8. QED  BY <1>1, <1>6, <1>7 DEF t

\* What adding to a queue makes of it.
LEMMA SeqAppend ==
    ASSUME NEW S, NEW q \in Seq(S), NEW x \in S
    PROVE  /\ Append(q, x) \in Seq(S) /\ Elements(Append(q, x)) = Elements(q) \cup {x}
           /\ Distinct(q) /\ x \notin Elements(q) => Distinct(Append(q, x))
  <1> DEFINE p == Append(q, x)
  <1>1. /\ p \in Seq(S) /\ Len(p) = Len(q) + 1 /\ Len(q) \in Nat
        /\ \A i \in 1..Len(q) : p[i] = q[i]
        /\ p[Len(q) + 1] = x
        /\ DOMAIN q = 1..Len(q) /\ DOMAIN p = 1..Len(p)
    OBVIOUS
  <1> HIDE DEF p
  <1>2. \A i \in 1..Len(p) : i \in 1..Len(q) \/ i = Len(p)  BY <1>1
  <1>3. \A i \in 1..Len(q) : i \in 1..Len(p)  BY <1>1
  <1>4. Len(p) \in 1..Len(p)  BY <1>1
  <1>5. \A y : y \in Elements(p) <=> \E i \in 1..Len(p) : y = p[i]  BY <1>1, InElements
  <1>6. \A y : y \in Elements(q) <=> \E i \in 1..Len(q) : y = q[i]  BY InElements
  <1>7. Elements(p) = Elements(q) \cup {x}
    <2>1. \A y : y \in Elements(p) => y \in Elements(q) \cup {x}
      BY <1>1, <1>2, <1>5, <1>6
    <2>2. \A y : y \in Elements(q) \cup {x} => y \in Elements(p)
      BY <1>1, <1>3, <1>4, <1>5, <1>6
    <2>3. QED  BY <2>1, <2>2
  <1>8. ASSUME Distinct(q), x \notin Elements(q) PROVE Distinct(p)
    <2>1. \A i, j \in 1..Len(q) : q[i] = q[j] => i = j  BY <1>8, <1>1 DEF Distinct
    <2>2. \A i \in 1..Len(q) : q[i] # x  BY <1>8, <1>6
    <2>3. \A i, j \in 1..Len(p) : p[i] = p[j] => i = j  BY <2>1, <2>2, <1>1, <1>2
    <2>4. QED  BY <2>3, <1>1 DEF Distinct
  <1>9. QED  BY <1>1, <1>7, <1>8 DEF p

\* Queues of none and of one.
LEMMA SmallSeqs ==
    /\ Elements(<<>>) = {} /\ Distinct(<<>>)
    /\ \A x : Elements(<<x>>) = {x} /\ Distinct(<<x>>)
    /\ \A S : \A q \in Seq(S) : Elements(q) = {} => q = <<>>
  <1>1. Elements(<<>>) = {} /\ Distinct(<<>>)  BY DEF Elements, Distinct
  <1>2. \A x : Elements(<<x>>) = {x} /\ Distinct(<<x>>)  BY DEF Elements, Distinct
  <1>3. ASSUME NEW S, NEW q \in Seq(S), Elements(q) = {} PROVE q = <<>>
    <2>1. q # <<>> => q[1] \in Elements(q)  BY SeqTail
    <2>2. QED  BY <2>1, <1>3, SeqTail
  <1>4. QED  BY <1>1, <1>2, <1>3

--------------------------------------------------------------------------------
(* Types.                                                                       *)

Plan == {"Out", "Register", "View", "Execute", "SetIdleDeadline", "Close", "Evict", "Cancel",
         "InvalidateWorker", "Replace", "Undo", "UndoHeld"}
Operation == {"None", "Open", "View", "Execute", "ExecuteBound", "SetIdleDeadline", "Close", "Evict",
              "Cancel", "InvalidateWorker", "Hold", "Resume"}
Stage == {"Out", "Sent", "Answered", "Choosing", "Publishing", "Gone"}
Answer == {"None", "Ok", "OpenFailed", "SessionClosed", "CloseRejected", "SessionLost",
           "ContextRevisionMismatch", "NotDue", "NotHere", "Failed", "Unsupported",
           "AlreadyFinished", "CancelFailed", "Requested", "UnknownSession"}
Life == {"Unborn", "Running", "Ended", "Crashed"}
TaskStage == {"None", "Posted", "Refused", "Running", "Done", "Failed", "Lost"}
Somewhere == Session \cup {NoSession}

\* The records of calls, field by field.
LEMMA CallStateIs ==
    CallState = [plan : Plan, op : Operation, on : Somewhere, old : Somewhere, cand : Somewhere,
                 mode : {"RequireNoTransaction", "RollbackAndClose"},
                 exec : Execution \cup {NoExecution}, revision : 0..MaxRevision, arms : BOOLEAN,
                 left : SUBSET Session, lost : SUBSET Session, stage : Stage, answer : Answer]
  BY SMTT(60) DEF CallState, Plan, Operation, Stage, Answer, Somewhere

\* What a call may become.
LEMMA CallTypes ==
    ASSUME NEW r \in CallState
    PROVE  /\ \A t \in Stage : [r EXCEPT !.stage = t] \in CallState
           /\ \A t \in Stage, x \in Answer : [r EXCEPT !.stage = t, !.answer = x] \in CallState
           /\ \A o \in Operation, a \in Somewhere : [r EXCEPT !.op = o, !.on = a] \in CallState
           /\ \A o \in Operation : [r EXCEPT !.op = o] \in CallState
           /\ \A a \in Somewhere, t \in Stage : [r EXCEPT !.stage = t, !.on = a] \in CallState
           /\ \A A \in SUBSET Session : [r EXCEPT !.lost = A] \in CallState
           /\ \A a \in Somewhere : [r EXCEPT !.cand = a] \in CallState
           /\ \A p \in Plan, o \in Operation, a \in Somewhere :
                 [r EXCEPT !.plan = p, !.op = o, !.on = a] \in CallState
           /\ \A A \in SUBSET Session, a \in Somewhere : [r EXCEPT !.on = a, !.left = A] \in CallState
  BY CallStateIs, ZenonT(60)

\* A call that has not begun.
LEMMA OutType == Out \in CallState
  <1>1. /\ "Out" \in Plan /\ "None" \in Operation /\ "Out" \in Stage /\ "None" \in Answer
        /\ NoSession \in Somewhere /\ 0 \in 0..MaxRevision
    BY ActorAssumption DEF Plan, Operation, Stage, Answer, Somewhere
  <1>2. QED  BY <1>1, CallStateIs DEF Out

\* The records of actors, field by field.
LEMMA ActorStateIs ==
    ActorState = [life : Life, physical : BOOLEAN, view : View, tx : Transaction,
                  handles : SUBSET Handle, hold : View \cup {"Down"},
                  flight : Execution \cup {NoExecution}, deferred : Seq(Client),
                  deadline : BOOLEAN, revision : 0..MaxRevision]
  BY DEF ActorState, Life

\* The records of executions, field by field.
LEMMA TaskStateIs ==
    TaskState = [stage : TaskStage, on : Somewhere, handle : {"Silent", "Offered", "Bound", "Missed"},
                 asked : BOOLEAN, told : BOOLEAN]
  BY DEF TaskState, TaskStage, Somewhere

\* What the state of an actor may become.
LEMMA ActorTypes ==
    ASSUME NEW s \in ActorState
    PROVE  /\ \A q \in Seq(Client) : [s EXCEPT !.deferred = q] \in ActorState
           /\ [s EXCEPT !.physical = TRUE, !.view = "Ready", !.revision = 1] \in ActorState
           /\ \A e \in Execution \cup {NoExecution} :
                 [s EXCEPT !.view = "Executing", !.flight = e] \in ActorState
           /\ \A b \in BOOLEAN : [s EXCEPT !.deadline = b] \in ActorState
           /\ [s EXCEPT !.hold = s.view, !.view = "Closing"] \in ActorState
           /\ s.hold # "Down" => [s EXCEPT !.hold = "Down", !.view = s.hold] \in ActorState
           /\ \A v \in View : [s EXCEPT !.flight = NoExecution, !.view = v] \in ActorState
           /\ \A tx \in Transaction, n \in 0..MaxRevision :
                 [s EXCEPT !.tx = tx, !.revision = n] \in ActorState
           /\ \A H \in SUBSET Handle : [s EXCEPT !.handles = H] \in ActorState
           /\ \A v \in View, tx \in Transaction : [s EXCEPT !.view = v, !.tx = tx] \in ActorState
           /\ \A exact, shut \in BOOLEAN : Released(s, exact, shut) \in ActorState
  <1>1. "Closing" \in View /\ "Closed" \in View /\ "Lost" \in View /\ "Ready" \in View
        /\ "Executing" \in View /\ "Unknown" \in Transaction /\ 1 \in 0..MaxRevision
    BY ActorAssumption DEF View, Transaction
  <1>2. /\ s.view \in View /\ s.tx \in Transaction /\ s.handles \in SUBSET Handle
        /\ s.hold \in View \cup {"Down"}
    BY ActorStateIs
  <1>3. ASSUME NEW exact \in BOOLEAN, NEW shut \in BOOLEAN PROVE Released(s, exact, shut) \in ActorState
    <2> DEFINE h == IF exact THEN {} ELSE s.handles
               v == IF Decided(s, exact, shut) THEN "Closed" ELSE "Lost"
               t == IF Decided(s, exact, shut) THEN s.tx ELSE "Unknown"
    <2>1. h \in SUBSET Handle /\ v \in View /\ t \in Transaction /\ <<>> \in Seq(Client)
      BY <1>1, <1>2
    <2>2. Released(s, exact, shut) =
            [s EXCEPT !.physical = FALSE, !.handles = h, !.deferred = <<>>, !.view = v, !.tx = t]
      BY DEF Released
    <2> HIDE DEF h, v, t
    <2>3. QED  BY <2>1, <2>2, ActorStateIs, ZenonT(60)
  <1>4. QED
    BY <1>1, <1>2, <1>3, ActorStateIs, ZenonT(60)

\* What a message leaves alone: the life of the actor and what it has put off.
Stays(s, n) == n \in ActorState /\ n.life = s.life /\ n.deferred = s.deferred

\* The changes that leave the queue of an actor and its life alone.
LEMMA ActorStays ==
    ASSUME NEW s \in ActorState
    PROVE  /\ Stays(s, [s EXCEPT !.physical = TRUE, !.view = "Ready", !.revision = 1])
           /\ \A e \in Execution \cup {NoExecution} :
                 Stays(s, [s EXCEPT !.view = "Executing", !.flight = e])
           /\ \A b \in BOOLEAN : Stays(s, [s EXCEPT !.deadline = b])
           /\ Stays(s, [s EXCEPT !.hold = s.view, !.view = "Closing"])
           /\ s.hold # "Down" => Stays(s, [s EXCEPT !.hold = "Down", !.view = s.hold])
  <1> DEFINE fields == {"life", "physical", "view", "tx", "handles", "hold", "flight", "deferred",
                        "deadline", "revision"}
  <1>0. DOMAIN s = fields  BY DEF ActorState
  <1>1. Stays(s, [s EXCEPT !.physical = TRUE, !.view = "Ready", !.revision = 1])
    BY <1>0, ActorTypes, ZenonT(60) DEF Stays
  <1>2. ASSUME NEW e \in Execution \cup {NoExecution}
        PROVE  Stays(s, [s EXCEPT !.view = "Executing", !.flight = e])
    BY <1>0, ActorTypes, ZenonT(60) DEF Stays
  <1>3. ASSUME NEW b \in BOOLEAN PROVE Stays(s, [s EXCEPT !.deadline = b])
    BY <1>0, ActorTypes, ZenonT(60) DEF Stays
  <1>4. Stays(s, [s EXCEPT !.hold = s.view, !.view = "Closing"])
    BY <1>0, ActorTypes, ZenonT(60) DEF Stays
  <1>5. s.hold # "Down" => Stays(s, [s EXCEPT !.hold = "Down", !.view = s.hold])
    BY <1>0, ActorTypes, ZenonT(60) DEF Stays
  <1>6. QED  BY <1>1, <1>2, <1>3, <1>4, <1>5

\* The first records of actors and executions.
LEMMA UnbornTypes ==
    /\ Unborn \in ActorState
    /\ \A l \in Life : [Unborn EXCEPT !.life = l] \in ActorState
    /\ \A l \in Life, b \in BOOLEAN :
          /\ [Unborn EXCEPT !.life = l, !.physical = b] \in ActorState
          /\ [Unborn EXCEPT !.life = l, !.deadline = b] \in ActorState
    /\ NoTask \in TaskState
    /\ \A t \in TaskStage, a \in Session : [NoTask EXCEPT !.stage = t, !.on = a] \in TaskState
  <1>1. /\ "Unborn" \in Life /\ "New" \in View /\ "None" \in Transaction /\ {} \in SUBSET Handle
        /\ "Down" \in View \cup {"Down"} /\ NoExecution \in Execution \cup {NoExecution}
        /\ <<>> \in Seq(Client) /\ 0 \in 0..MaxRevision
    BY ActorAssumption DEF Life, View, Transaction
  <1>2. Unborn \in ActorState  BY <1>1, ActorStateIs DEF Unborn
  <1>3. "None" \in TaskStage /\ NoSession \in Somewhere  BY DEF TaskStage, Somewhere
  <1>4. NoTask \in TaskState  BY <1>3, TaskStateIs DEF NoTask
  <1>5. \A l \in Life, b \in BOOLEAN :
          /\ [Unborn EXCEPT !.life = l, !.physical = b] \in ActorState
          /\ [Unborn EXCEPT !.life = l, !.deadline = b] \in ActorState
          /\ [Unborn EXCEPT !.life = l] \in ActorState
    BY <1>2, ActorStateIs
  <1>6. \A t \in TaskStage, a \in Session : [NoTask EXCEPT !.stage = t, !.on = a] \in TaskState
    BY <1>4, TaskStateIs DEF Somewhere
  <1>7. QED  BY <1>2, <1>4, <1>5, <1>6, Zenon

\* What a task may become.
LEMMA TaskTypes ==
    ASSUME NEW t \in TaskState
    PROVE  /\ \A x \in TaskStage : [t EXCEPT !.stage = x] \in TaskState
           /\ \A x \in TaskStage, a \in Session : [t EXCEPT !.stage = x, !.on = a] \in TaskState
           /\ \A b \in BOOLEAN : [t EXCEPT !.asked = b] \in TaskState
           /\ \A b \in BOOLEAN : [t EXCEPT !.told = b] \in TaskState
           /\ [t EXCEPT !.handle = "Offered"] \in TaskState
           /\ \A b \in BOOLEAN : [t EXCEPT !.handle = "Bound", !.told = b] \in TaskState
  BY TaskStateIs DEF Somewhere

--------------------------------------------------------------------------------
(* The invariant.                                                               *)

\* The types; that no slot is given back twice, so that quota stays in Nat, comes last.
Typed ==
    /\ actor \in [Session -> ActorState]
    /\ execQ \in [Session -> Seq(Client)] /\ ctrlQ \in [Session -> Seq(Client)]
    /\ task \in [Execution -> TaskState]
    /\ unfinished \subseteq Session
    /\ call \in [Client -> CallState]
    /\ rows \subseteq Session /\ stale \subseteq Session
    /\ quota \in Int /\ begun \in 0..MaxCalls

Work(a) == Elements(execQ[a]) \cup Elements(actor[a].deferred)
Control(a) == Elements(ctrlQ[a])
Waiting(a) == Work(a) \cup Control(a)
Executes == {"Execute", "ExecuteBound"}

\* A caller waits in one place of one queue; nobody waits for an actor that has gone.
QueuesOK ==
    \A a \in Session :
        /\ Distinct(execQ[a]) /\ Distinct(ctrlQ[a]) /\ Distinct(actor[a].deferred)
        /\ Elements(execQ[a]) \cap Elements(actor[a].deferred) = {}
        /\ Work(a) \cap Control(a) = {}
        /\ ~Running(a) => Waiting(a) = {} /\ ~Flying(a)

\* Who waits is who has sent.
MessagesOK ==
    \A a \in Session :
        /\ \A c \in Waiting(a) : call[c].on = a /\ call[c].stage \in {"Sent", "Gone"}
        /\ \A c \in Work(a) : call[c].op \notin {"Cancel", "InvalidateWorker"}
        /\ \A c \in Control(a) : call[c].op \in {"Cancel", "InvalidateWorker"}

\* An execution that waits is posted, to this session and once.
PostedOK ==
    \A a \in Session :
        \A c \in Work(a) : call[c].exec # NoExecution =>
            /\ task[call[c].exec].stage = "Posted" /\ task[call[c].exec].on = a
            /\ \A d \in Work(a) : call[d].exec = call[c].exec => d = c

\* What runs is what flies, or flew when the actor crashed.
FlightsOK ==
    /\ \A a \in Session : Flying(a) =>
          task[actor[a].flight].stage = "Running" /\ task[actor[a].flight].on = a
    /\ \A e \in Execution :
          /\ task[e].stage = "Running" =>
                /\ task[e].on \in Session
                /\ actor[task[e].on].flight = e \/ actor[task[e].on].life = "Crashed"
          /\ task[e].handle = "Bound" /\ task[e].asked => task[e].told

\* How the fields of a call go together.
Shape(r) ==
    /\ r.stage = "Out" \/ r.plan = "Out" => r = Out
    /\ r.stage = "Sent" => r.answer = "None"
    /\ r.stage = "Choosing" => r.plan \in {"Evict", "InvalidateWorker"}
    /\ r.stage = "Publishing" => r.plan = "Replace" /\ r.op = "Close"
    /\ r.stage \notin {"Out", "Choosing"} => r.on \in Session
    /\ r.plan \in {"View", "SetIdleDeadline", "Close", "Cancel"} => r.op = r.plan
    /\ r.plan \in {"Evict", "InvalidateWorker"} => r.op \in {"None", r.plan}
    /\ r.plan \in {"Evict", "InvalidateWorker"} /\ r.stage # "Choosing" => r.op = r.plan
    /\ r.plan = "Execute" => r.op \in Executes
    /\ r.exec # NoExecution <=> r.plan \in {"Execute", "Cancel"}
    /\ r.plan = "Register" => r.op = "Open"
    /\ r.plan = "Replace" =>
          r.op \in {"View", "Open", "Hold", "Close"} /\ r.mode = "RollbackAndClose"
    /\ r.plan = "Undo" => r.op = "Close"
    /\ r.plan = "UndoHeld" => r.op \in {"Close", "Resume"}
    /\ r.plan \in {"Replace", "Undo", "UndoHeld"} <=> r.old # NoSession
    /\ r.plan = "Replace" /\ r.op # "Open" => r.on = r.old
    /\ r.plan = "UndoHeld" /\ r.op = "Resume" => r.on = r.old
    /\ r.cand # NoSession <=>
          \/ r.plan \in {"Register", "Undo"}
          \/ r.plan = "Replace" /\ r.op # "View"
          \/ r.plan = "UndoHeld" /\ r.op = "Close"
    /\ r.cand # NoSession /\ r.on # r.cand => r.plan = "Replace" /\ r.op \in {"Hold", "Close"}
    /\ r.plan # "InvalidateWorker" => r.lost = {}

ShapesOK == \A c \in Client : Shape(call[c])

\* Sessions somebody knows of have been opened.
Known ==
    rows \cup stale \cup (UNION {call[c].left \cup call[c].lost \cup
        ({call[c].on, call[c].old, call[c].cand} \ {NoSession}) : c \in Client})
    \cup ({task[e].on : e \in Execution} \ {NoSession})
BornOK == \A a \in Known : actor[a].life # "Unborn"

\* A session that is being opened is known to its opener alone.
PrivateOK ==
    \A c \in Client : call[c].cand # NoSession =>
        LET a == call[c].cand IN
        /\ a \notin rows \cup stale /\ call[c].old # a
        /\ \A d \in Client :
              /\ a \notin call[d].left \cup call[d].lost
              /\ d # c => a \notin {call[d].on, call[d].old, call[d].cand}
        /\ \A e \in Execution : task[e].on # a

\* No slot is counted in two places.
ApartOK ==
    /\ rows \cap stale = {}
    /\ \A c \in Client :
          /\ call[c].lost \cap (rows \cup stale) = {}
          /\ \A d \in Client : d # c => call[c].lost \cap call[d].lost = {}


\* The sessions' queues, one at a time.
Sorted(a) ==
    /\ Distinct(execQ[a]) /\ Distinct(ctrlQ[a]) /\ Distinct(actor[a].deferred)
    /\ Elements(execQ[a]) \cap Elements(actor[a].deferred) = {}
    /\ Work(a) \cap Control(a) = {}
    /\ ~Running(a) => Waiting(a) = {} /\ ~Flying(a)

ActorInv ==
    Typed /\ QueuesOK /\ MessagesOK /\ PostedOK /\ FlightsOK /\ ShapesOK

--------------------------------------------------------------------------------
(* What the steps of an actor have in common.                                   *)

\* Taking the next message of the queue.
LEMMA TakesIs ==
    ASSUME Typed, QueuesOK, NEW a \in Session, NEW c, Due(a, c)
    PROVE  /\ Running(a) /\ ~Flying(a) /\ c \in Client /\ c \in Work(a)
           /\ Taken(a) = [actor[a] EXCEPT !.deferred = Taken(a).deferred]
           /\ Taken(a) \in ActorState /\ Taken(a).deferred \in Seq(Client)
           /\ Elements(Taken(a).deferred) \subseteq Elements(actor[a].deferred) \ {c}
           /\ Distinct(Taken(a).deferred)
           /\ Takes(a, c) =>
                /\ execQ' = [execQ EXCEPT ![a] = execQ'[a]] /\ execQ'[a] \in Seq(Client)
                /\ Elements(execQ'[a]) \subseteq Elements(execQ[a]) \ {c}
                /\ Distinct(execQ'[a])
  <1>1. /\ actor[a] \in ActorState /\ execQ[a] \in Seq(Client) /\ actor[a].deferred \in Seq(Client)
        /\ execQ \in [Session -> Seq(Client)]
    BY ActorStateIs DEF Typed
  <1>2. /\ Distinct(execQ[a]) /\ Distinct(actor[a].deferred)
        /\ Elements(execQ[a]) \cap Elements(actor[a].deferred) = {}
    BY DEF QueuesOK
  <1>3. Running(a) /\ ~Flying(a)  BY DEF Due
  <1>4. CASE Draining(a)
    <2> DEFINE q == actor[a].deferred
    <2>1. q # <<>> /\ c = Head(q)  BY <1>4 DEF Due, Draining
    <2>2. /\ c \in Client /\ c \in Elements(q) /\ Tail(q) \in Seq(Client)
          /\ Elements(q) = Elements(Tail(q)) \cup {c}
          /\ Distinct(Tail(q)) /\ c \notin Elements(Tail(q))
      BY <2>1, <1>1, <1>2, SeqTail
    <2>3. Taken(a) = [actor[a] EXCEPT !.deferred = Tail(q)]  BY <1>4 DEF Taken
    <2>4. Taken(a) \in ActorState  BY <2>2, <2>3, <1>1, ActorTypes, ZenonT(60)
    <2>5. Taken(a).deferred = Tail(q)  BY <2>3, <1>1, ActorStateIs
    <2>6. Takes(a, c) => execQ' = execQ  BY <1>4 DEF Takes
    <2>7. execQ = [execQ EXCEPT ![a] = execQ[a]]  BY <1>1
    <2> HIDE DEF q
    <2>8. c \notin Elements(execQ[a])  BY <2>2, <1>2 DEF q
    <2>9. c \in Work(a)  BY <2>2 DEF Work, q
    <2>10. Elements(Tail(q)) \subseteq Elements(q) \ {c}  BY <2>2
    <2>11. Elements(Taken(a).deferred) \subseteq Elements(actor[a].deferred) \ {c}
      BY <2>5, <2>10 DEF q
    <2>12. QED
      BY <1>1, <1>2, <1>3, <2>2, <2>3, <2>4, <2>5, <2>6, <2>7, <2>8, <2>9, <2>11
  <1>5. CASE ~Draining(a)
    <2> DEFINE q == execQ[a]
    <2>1. q # <<>> /\ c = Head(q)  BY <1>5 DEF Due
    <2>2. /\ c \in Client /\ c \in Elements(q) /\ Tail(q) \in Seq(Client)
          /\ Elements(q) = Elements(Tail(q)) \cup {c}
          /\ Distinct(Tail(q)) /\ c \notin Elements(Tail(q))
      BY <2>1, <1>1, <1>2, SeqTail
    <2>3. Taken(a) = actor[a]  BY <1>5 DEF Taken
    <2>4. actor[a] = [actor[a] EXCEPT !.deferred = actor[a].deferred]  BY <1>1, ActorStateIs
    <2>5. Takes(a, c) => execQ' = [execQ EXCEPT ![a] = Tail(q)]  BY <1>5 DEF Takes
    <2>6. Takes(a, c) => execQ'[a] = Tail(q)  BY <2>5, <1>1
    <2> HIDE DEF q
    <2>7. c \notin Elements(actor[a].deferred)  BY <2>2, <1>2 DEF q
    <2>8. c \in Work(a)  BY <2>2 DEF Work, q
    <2>9. Elements(Tail(q)) \subseteq Elements(q) \ {c}  BY <2>2
    <2>10. Takes(a, c) => Elements(execQ'[a]) \subseteq Elements(execQ[a]) \ {c}
      BY <2>6, <2>9 DEF q
    <2>11. Elements(Taken(a).deferred) \subseteq Elements(actor[a].deferred) \ {c}
      BY <2>3, <2>7
    <2>12. QED
      BY <1>1, <1>2, <1>3, <2>2, <2>3, <2>4, <2>5, <2>6, <2>8, <2>10, <2>11
  <1>6. QED  BY <1>4, <1>5

\* A reply to a caller that has sent and waits.
Replied(c) ==
    /\ call[c].stage = "Sent"
    /\ \/ call[c].plan \in Relays /\ call'[c] = Out
       \/ /\ call[c].plan \notin Relays
          /\ \E x \in Answer : call'[c] = [call[c] EXCEPT !.stage = "Answered", !.answer = x]

\* Only the callers that are answered change, and only those that still wait.
LEMMA AnswersIs ==
    ASSUME Typed, NEW D \in SUBSET Client, NEW reply \in [D -> Answer], Answers(reply)
    PROVE  /\ call' \in [Client -> CallState]
           /\ \A c \in Client : call'[c] = call[c] \/ (c \in D /\ Replied(c))
           /\ \A c \in Client \ D : call'[c] = call[c]
           /\ \A c \in D : IF call[c].stage = "Sent"
                           THEN /\ Replied(c)
                                /\ call[c].plan \notin Relays =>
                                     call'[c] = [call[c] EXCEPT !.stage = "Answered", !.answer = reply[c]]
                           ELSE call'[c] = call[c]
  <1>1. \A c \in Client :
          call'[c] = IF c \notin D \/ call[c].stage # "Sent" THEN call[c]
                     ELSE IF call[c].plan \in Relays THEN Out
                     ELSE [call[c] EXCEPT !.stage = "Answered", !.answer = reply[c]]
    BY DEF Answers
  <1>2. DOMAIN call' = Client /\ call' = [c \in Client |-> call'[c]]  BY DEF Answers
  <1>3. \A c \in D : reply[c] \in Answer  OBVIOUS
  <1>4. "Answered" \in Stage  BY DEF Stage
  <1>5. ASSUME NEW c \in Client PROVE call'[c] \in CallState
    <2>1. call[c] \in CallState  BY DEF Typed
    <2>2. c \in D => [call[c] EXCEPT !.stage = "Answered", !.answer = reply[c]] \in CallState
      BY <2>1, <1>3, <1>4, CallTypes
    <2>3. QED  BY <1>1, <2>1, <2>2, OutType
  <1>6. \A c \in D : call[c].stage = "Sent" => Replied(c)
    BY <1>1, <1>3 DEF Replied
  <1>7. call' \in [Client -> CallState]  BY <1>2, <1>5
  <1>8. \A c \in Client : call[c].stage # "Sent" \/ c \notin D => call'[c] = call[c]  BY <1>1
  <1>9. \A c \in D : call[c].stage = "Sent" /\ call[c].plan \notin Relays =>
          call'[c] = [call[c] EXCEPT !.stage = "Answered", !.answer = reply[c]]
    BY <1>1
  <1>10. ASSUME NEW c \in Client PROVE call'[c] = call[c] \/ (c \in D /\ Replied(c))
    <2>1. CASE call[c].stage # "Sent" \/ c \notin D  BY <2>1, <1>8
    <2>2. CASE call[c].stage = "Sent" /\ c \in D  BY <2>2, <1>6
    <2>3. QED  BY <2>1, <2>2
  <1>11. \A c \in D : IF call[c].stage = "Sent"
                      THEN /\ Replied(c)
                           /\ call[c].plan \notin Relays =>
                                call'[c] = [call[c] EXCEPT !.stage = "Answered", !.answer = reply[c]]
                      ELSE call'[c] = call[c]
    BY <1>6, <1>8, <1>9
  <1>12. QED  BY <1>7, <1>8, <1>10, <1>11

\* The answers that are given.
LEMMA ReplyTypes ==
    /\ \A C \in SUBSET Client, x \in Answer : To(C, x) \in [C -> Answer]
    /\ \A C, X \in SUBSET Client, x \in Answer :
          /\ WithDropped(C, x, X) \in [C \cup X -> Answer]
          /\ \A c \in C : WithDropped(C, x, X)[c] = x
  BY DEF To, WithDropped, Answer

\* A call that has not begun has its shape.
LEMMA ShapeOut == Shape(Out)
  BY ActorAssumption DEF Shape, Out, Executes

\* An answer keeps the shape of a call.
LEMMA ShapeAnswered ==
    ASSUME NEW r \in CallState, Shape(r), r.stage = "Sent", NEW x \in Answer
    PROVE  Shape([r EXCEPT !.stage = "Answered", !.answer = x])
  <1> DEFINE n == [r EXCEPT !.stage = "Answered", !.answer = x]
  <1>1. /\ n.stage = "Answered" /\ n.plan = r.plan /\ n.op = r.op /\ n.on = r.on /\ n.old = r.old
        /\ n.cand = r.cand /\ n.mode = r.mode /\ n.exec = r.exec /\ n.lost = r.lost
    BY CallStateIs
  <1> HIDE DEF n
  <1>2. r.plan # "Out"
    <2>1. r.plan = "Out" => r = Out  BY DEF Shape
    <2>2. QED  BY <2>1 DEF Out
  <1>3. QED  BY <1>1, <1>2 DEF Shape, n

\* A step at session a that answers some of D, who wait for nothing any more.
Touches(a, D) ==
    /\ Running(a) /\ D \subseteq Client
    /\ actor' = [actor EXCEPT ![a] = actor'[a]] /\ actor'[a] \in ActorState
    /\ actor'[a].life # "Unborn"
    /\ execQ' = [execQ EXCEPT ![a] = execQ'[a]] /\ execQ'[a] \in Seq(Client)
    /\ ctrlQ' = [ctrlQ EXCEPT ![a] = ctrlQ'[a]] /\ ctrlQ'[a] \in Seq(Client)
    /\ Sorted(a)'
    /\ Work(a)' \subseteq Work(a) \ D /\ Control(a)' \subseteq Control(a) \ D
    /\ \A b \in Session \ {a} : D \cap Waiting(b) = {}
    /\ call' \in [Client -> CallState]
    /\ \A c \in Client : call'[c] = call[c] \/ (c \in D /\ Replied(c))

\* A step that takes callers out of the queues of one actor and answers them.
LEMMA TouchesWhen ==
    ASSUME ActorInv, NEW a \in Session, NEW D \in SUBSET Client, Running(a),
           NEW s \in ActorState, s.life # "Unborn", NEW q \in Seq(Client), NEW p \in Seq(Client),
           actor' = [actor EXCEPT ![a] = s],
           execQ' = [execQ EXCEPT ![a] = q], ctrlQ' = [ctrlQ EXCEPT ![a] = p],
           Distinct(q), Distinct(p), Distinct(s.deferred),
           Elements(q) \subseteq Elements(execQ[a]) \ D, Elements(p) \subseteq Elements(ctrlQ[a]) \ D,
           Elements(s.deferred) \subseteq Elements(actor[a].deferred) \ D,
           s.life # "Running" =>
               q = <<>> /\ p = <<>> /\ s.deferred = <<>> /\ s.flight = NoExecution,
           \A b \in Session \ {a} : D \cap Waiting(b) = {},
           call' \in [Client -> CallState],
           \A c \in Client : call'[c] = call[c] \/ (c \in D /\ Replied(c))
    PROVE  Touches(a, D)
  <1>1. actor'[a] = s /\ execQ'[a] = q /\ ctrlQ'[a] = p  BY DEF ActorInv, Typed
  <1>2. Work(a)' = Elements(q) \cup Elements(s.deferred) /\ Control(a)' = Elements(p)
    BY <1>1 DEF Work, Control
  <1>3. Work(a)' \subseteq Work(a) \ D /\ Control(a)' \subseteq Control(a) \ D
    BY <1>2 DEF Work, Control
  <1>4. /\ Elements(execQ[a]) \cap Elements(actor[a].deferred) = {}
        /\ Work(a) \cap Control(a) = {}
    BY DEF ActorInv, QueuesOK
  <1>5. (~Running(a))' => (Waiting(a) = {} /\ ~Flying(a))'
    BY <1>1, <1>2, SmallSeqs DEF Running, Flying, Waiting
  <1>6. Sorted(a)'
    <2>1. (Elements(execQ[a]) \cap Elements(actor[a].deferred) = {})'  BY <1>1, <1>4
    <2>2. (Work(a) \cap Control(a) = {})'  BY <1>3, <1>4
    <2>3. (Distinct(execQ[a]) /\ Distinct(ctrlQ[a]) /\ Distinct(actor[a].deferred))'  BY <1>1
    <2>4. QED  BY <1>5, <2>1, <2>2, <2>3 DEF Sorted
  <1>7. QED  BY <1>1, <1>3, <1>6 DEF Touches

\* What such a step leaves of the queues and of the calls.
LEMMA TouchesKeeps ==
    ASSUME ActorInv, NEW a \in Session, NEW D, Touches(a, D)
    PROVE  /\ QueuesOK' /\ MessagesOK' /\ ShapesOK'
           /\ actor' \in [Session -> ActorState]
           /\ execQ' \in [Session -> Seq(Client)] /\ ctrlQ' \in [Session -> Seq(Client)]
           /\ \A b \in Session : Work(b)' \subseteq Work(b) /\ Control(b)' \subseteq Control(b)
           /\ \A b \in Session : \A c \in Waiting(b)' : call'[c] = call[c]
           /\ \A b \in Session : b # a =>
                 actor'[b] = actor[b] /\ Work(b)' = Work(b) /\ Control(b)' = Control(b)
  <1>1. actor \in [Session -> ActorState] /\ execQ \in [Session -> Seq(Client)]
        /\ ctrlQ \in [Session -> Seq(Client)] /\ call \in [Client -> CallState]
    BY DEF ActorInv, Typed
  <1>2. /\ actor' \in [Session -> ActorState]
        /\ execQ' \in [Session -> Seq(Client)] /\ ctrlQ' \in [Session -> Seq(Client)]
    BY <1>1 DEF Touches
  <1>3. \A b \in Session : b # a =>
           actor'[b] = actor[b] /\ execQ'[b] = execQ[b] /\ ctrlQ'[b] = ctrlQ[b]
    BY <1>1 DEF Touches
  <1>4. \A b \in Session : b # a => Work(b)' = Work(b) /\ Control(b)' = Control(b)
    BY <1>3 DEF Work, Control
  <1>5. \A b \in Session : Work(b)' \subseteq Work(b) \ D /\ Control(b)' \subseteq Control(b) \ D
    BY <1>4 DEF Touches, Waiting
  <1>6. \A b \in Session : Waiting(b) \subseteq Client
    BY <1>1, InElements, ActorStateIs DEF Waiting, Work, Control
  <1>7. \A b \in Session : \A c \in Waiting(b)' : c \in Waiting(b) /\ c \in Client /\ call'[c] = call[c]
    BY <1>5, <1>6 DEF Touches, Waiting
  <1>8. QueuesOK'
    <2>1. ASSUME NEW b \in Session, b # a PROVE Sorted(b)'
      <3>1. Sorted(b)  BY DEF Sorted, ActorInv, QueuesOK
      <3>2. QED  BY <2>1, <1>3, <1>4, <3>1 DEF Sorted, Running, Flying, Waiting
    <2>2. Sorted(a)'  BY DEF Touches
    <2>3. QED  BY <2>1, <2>2 DEF Sorted, QueuesOK
  <1>9. MessagesOK'
    <2>1. ASSUME NEW b \in Session, NEW c \in Waiting(b)'
          PROVE  call'[c].on = b /\ call'[c].stage \in {"Sent", "Gone"}
      BY <1>7 DEF ActorInv, MessagesOK
    <2>2. ASSUME NEW b \in Session, NEW c \in Work(b)'
          PROVE  call'[c].op \notin {"Cancel", "InvalidateWorker"}
      BY <1>5, <1>7 DEF ActorInv, MessagesOK, Waiting
    <2>3. ASSUME NEW b \in Session, NEW c \in Control(b)'
          PROVE  call'[c].op \in {"Cancel", "InvalidateWorker"}
      BY <1>5, <1>7 DEF ActorInv, MessagesOK, Waiting
    <2>4. QED  BY <2>1, <2>2, <2>3 DEF MessagesOK
  <1>10. ShapesOK'
    <2> SUFFICES ASSUME NEW c \in Client PROVE Shape(call'[c])
      BY DEF ShapesOK
    <2>1. Shape(call[c]) /\ call[c] \in CallState  BY <1>1 DEF ActorInv, ShapesOK
    <2>2. CASE call'[c] = call[c]  BY <2>1, <2>2
    <2>3. CASE call'[c] = Out  BY <2>3, ShapeOut
    <2>4. CASE /\ call[c].stage = "Sent"
               /\ \E x \in Answer : call'[c] = [call[c] EXCEPT !.stage = "Answered", !.answer = x]
      BY <2>1, <2>4, ShapeAnswered
    <2>5. QED  BY <2>2, <2>3, <2>4 DEF Touches, Replied
  <1>11. QED  BY <1>2, <1>3, <1>4, <1>5, <1>7, <1>8, <1>9, <1>10

\* Which plans send which messages.
LEMMA OpPlan ==
    ASSUME NEW r \in CallState, Shape(r)
    PROVE  /\ r.op \in Executes => r.plan = "Execute" /\ r.exec \in Execution
           /\ r.op = "Cancel" => r.plan = "Cancel" /\ r.exec \in Execution
           /\ r.op \in {"Evict", "InvalidateWorker"} => r.plan = r.op
           /\ r.op = "Open" => r.plan \in {"Register", "Replace"}
           /\ r.op = "Close" => r.plan \in {"Close", "Replace", "Undo", "UndoHeld"}
           /\ r.exec # NoExecution => r.op \in Executes \cup {"Cancel"}
  <1>1. r.plan \in Plan /\ r.exec \in Execution \cup {NoExecution}  BY CallStateIs
  <1>2. r.plan = "Out" => r.op = "None"  BY DEF Shape, Out
  <1>3. QED  BY <1>1, <1>2 DEF Shape, Plan, Executes

\* Every call is of its type and shape.
LEMMA Callers ==
    ASSUME ActorInv
    PROVE  \A c \in Client : call[c] \in CallState /\ Shape(call[c])
  BY DEF ActorInv, Typed, ShapesOK

\* Whoever waits at one session waits at no other; a pilot waits in no queue.
LEMMA WaitersApart ==
    ASSUME ActorInv, NEW a \in Session
    PROVE  /\ Waiting(a) \subseteq Client
           /\ \A b \in Session \ {a} : Waiting(a) \cap Waiting(b) = {}
           /\ Pilot(a) \subseteq Client
           /\ \A b \in Session : Pilot(a) \cap Waiting(b) = {}
           /\ ~Flying(a) => Pilot(a) = {}
  <1>1. \A b \in Session : Waiting(b) \subseteq Client
    BY InElements, ActorStateIs DEF ActorInv, Typed, Waiting, Work, Control
  <1>2. \A b \in Session : \A c \in Waiting(b) : call[c].on = b  BY DEF ActorInv, MessagesOK
  <1>3. Pilot(a) \subseteq Client  BY DEF Pilot
  <1>4. ASSUME NEW b \in Session, NEW c \in Pilot(a), c \in Waiting(b) PROVE FALSE
    <2>1. call[c].op \in Executes /\ call[c].exec = actor[a].flight
      BY <1>4 DEF Pilot, Executes
    <2>2. call[c].plan = "Execute" /\ call[c].exec \in Execution
      BY <2>1, <1>3, OpPlan, Callers
    <2>3. Flying(a)  BY <2>1, <2>2, ActorAssumption DEF Flying
    <2>4. task[call[c].exec].stage = "Running"  BY <2>1, <2>3 DEF ActorInv, FlightsOK
    <2>5. c \in Work(b)
      BY <1>4, <2>1 DEF Waiting, ActorInv, MessagesOK, Executes
    <2>6. task[call[c].exec].stage = "Posted"
      BY <2>2, <2>5, ActorAssumption DEF ActorInv, PostedOK
    <2>7. QED  BY <2>4, <2>6
  <1>5. ASSUME ~Flying(a), NEW c \in Pilot(a) PROVE FALSE
    <2>1. call[c].op \in Executes /\ call[c].exec = NoExecution
      BY <1>5 DEF Pilot, Executes, Flying
    <2>2. QED  BY <2>1, <1>3, OpPlan, Callers, ActorAssumption
  <1>6. QED  BY <1>1, <1>2, <1>3, <1>4, <1>5

\* A message of the queue is served.
LEMMA ServeTouches ==
    ASSUME ActorInv, NEW a \in Session, NEW c, Takes(a, c), NEW D \in SUBSET Client,
           D \subseteq {c} \cup Elements(Taken(a).deferred),
           NEW s \in ActorState, s.life = "Running", Becomes(a, s), UNCHANGED ctrlQ,
           Distinct(s.deferred),
           Elements(s.deferred) \subseteq Elements(Taken(a).deferred) \ D,
           call' \in [Client -> CallState],
           \A d \in Client : call'[d] = call[d] \/ (d \in D /\ Replied(d))
    PROVE  Touches(a, D)
  <1>1. Typed /\ QueuesOK  BY DEF ActorInv
  <1>2. Due(a, c)  BY DEF Takes
  <1>3. /\ Running(a) /\ c \in Client /\ c \in Work(a)
        /\ Elements(Taken(a).deferred) \subseteq Elements(actor[a].deferred) \ {c}
        /\ execQ' = [execQ EXCEPT ![a] = execQ'[a]] /\ execQ'[a] \in Seq(Client)
        /\ Elements(execQ'[a]) \subseteq Elements(execQ[a]) \ {c} /\ Distinct(execQ'[a])
    BY <1>1, <1>2, TakesIs
  <1>4. /\ Elements(execQ[a]) \cap Elements(actor[a].deferred) = {}
        /\ Work(a) \cap Control(a) = {} /\ Distinct(ctrlQ[a])
    BY <1>1 DEF QueuesOK
  <1>5. D \subseteq Work(a)  BY <1>3 DEF Work
  <1>6. \A b \in Session \ {a} : D \cap Waiting(b) = {}  BY <1>5, WaitersApart DEF Waiting
  <1>7. ctrlQ[a] \in Seq(Client) /\ ctrlQ' = [ctrlQ EXCEPT ![a] = ctrlQ[a]]  BY <1>1 DEF Typed
  <1>8. Elements(ctrlQ[a]) \subseteq Elements(ctrlQ[a]) \ D  BY <1>4, <1>5 DEF Control
  <1>9. Elements(execQ'[a]) \subseteq Elements(execQ[a]) \ D
    BY <1>3, <1>4
  <1>10. Elements(s.deferred) \subseteq Elements(actor[a].deferred) \ D  BY <1>3
  <1>11. s.life # "Unborn"  OBVIOUS
  <1>12. actor' = [actor EXCEPT ![a] = s]  BY DEF Becomes
  <1> DEFINE q == execQ'[a]
  <1>13. q \in Seq(Client) /\ execQ' = [execQ EXCEPT ![a] = q] /\ Distinct(q)
         /\ Elements(q) \subseteq Elements(execQ[a]) \ D
    BY <1>3, <1>9
  <1> HIDE DEF q
  <1>14. QED  BY <1>3, <1>4, <1>6, <1>7, <1>8, <1>10, <1>11, <1>12, <1>13, TouchesWhen

\* A message of control is.
LEMMA ControlTouches ==
    ASSUME ActorInv, NEW a \in Session, NEW c, TakesControl(a, c), NEW D \in SUBSET Client,
           D \subseteq {c} \cup Elements(actor[a].deferred),
           NEW s \in ActorState, s.life = "Running", Becomes(a, s), UNCHANGED execQ,
           Distinct(s.deferred),
           Elements(s.deferred) \subseteq Elements(actor[a].deferred) \ D,
           call' \in [Client -> CallState],
           \A d \in Client : call'[d] = call[d] \/ (d \in D /\ Replied(d))
    PROVE  Touches(a, D) /\ c \in Control(a) /\ c \in Client /\ Running(a)
  <1>1. /\ actor[a] \in ActorState /\ ctrlQ[a] \in Seq(Client) /\ execQ[a] \in Seq(Client)
        /\ execQ = [execQ EXCEPT ![a] = execQ[a]] /\ ctrlQ \in [Session -> Seq(Client)]
    BY DEF ActorInv, Typed
  <1>2. Running(a) /\ ctrlQ[a] # <<>> /\ c = Head(ctrlQ[a])
        /\ ctrlQ' = [ctrlQ EXCEPT ![a] = Tail(ctrlQ[a])]
    BY DEF TakesControl, ControlDue
  <1>3. /\ Elements(execQ[a]) \cap Elements(actor[a].deferred) = {}
        /\ Work(a) \cap Control(a) = {} /\ Distinct(ctrlQ[a]) /\ Distinct(execQ[a])
    BY DEF ActorInv, QueuesOK
  <1> DEFINE p == Tail(ctrlQ[a])
  <1>4. /\ c \in Client /\ p \in Seq(Client) /\ Elements(ctrlQ[a]) = Elements(p) \cup {c}
        /\ Distinct(p) /\ c \notin Elements(p)
    BY <1>1, <1>2, <1>3, SeqTail
  <1>5. ctrlQ' = [ctrlQ EXCEPT ![a] = p]  BY <1>2
  <1> HIDE DEF p
  <1>6. c \in Control(a) /\ D \subseteq Waiting(a)
        /\ D \cap Elements(execQ[a]) = {} /\ D \cap Elements(p) = {}
    BY <1>3, <1>4 DEF Control, Work, Waiting
  <1>7. \A b \in Session \ {a} : D \cap Waiting(b) = {}  BY <1>6, WaitersApart
  <1>8. Elements(p) \subseteq Elements(ctrlQ[a]) \ D /\ Elements(execQ[a]) \subseteq Elements(execQ[a]) \ D
    BY <1>4, <1>6
  <1>9. actor' = [actor EXCEPT ![a] = s] /\ s.life # "Unborn"  BY DEF Becomes
  <1>10. execQ' = [execQ EXCEPT ![a] = execQ[a]]  BY <1>1
  <1>11. QED
    BY <1>1, <1>2, <1>3, <1>4, <1>5, <1>6, <1>7, <1>8, <1>9, <1>10, TouchesWhen

\* Served, with one reply, what was put off still put off.
LEMMA ServeOne ==
    ASSUME ActorInv, NEW a \in Session, NEW c, Takes(a, c), NEW s \in ActorState,
           s.life = Taken(a).life, s.deferred = Taken(a).deferred, Becomes(a, s), UNCHANGED ctrlQ,
           NEW x \in Answer, Answers(To({c}, x))
    PROVE  Touches(a, {c})
  <1>1. Typed /\ QueuesOK /\ Due(a, c)  BY DEF ActorInv, Takes
  <1>2. /\ Running(a) /\ c \in Client /\ Taken(a) \in ActorState /\ Taken(a).deferred \in Seq(Client)
        /\ Taken(a) = [actor[a] EXCEPT !.deferred = Taken(a).deferred]
        /\ Elements(Taken(a).deferred) \subseteq Elements(actor[a].deferred) \ {c}
        /\ Distinct(Taken(a).deferred)
    BY <1>1, TakesIs
  <1>3. s.life = "Running"  BY <1>1, <1>2, ActorStateIs DEF Running, Typed
  <1>4. {c} \in SUBSET Client /\ To({c}, x) \in [{c} -> Answer]  BY <1>2, ReplyTypes
  <1> DEFINE reply == To({c}, x)
             D == {c}
  <1>a. D \in SUBSET Client /\ reply \in [D -> Answer] /\ Answers(reply)  BY <1>4
  <1> HIDE DEF reply, D
  <1>b. /\ call' \in [Client -> CallState]
        /\ \A d \in Client : call'[d] = call[d] \/ (d \in D /\ Replied(d))
    BY <1>1, <1>a, AnswersIs
  <1>5. /\ call' \in [Client -> CallState]
        /\ \A d \in Client : call'[d] = call[d] \/ (d \in {c} /\ Replied(d))
    BY <1>b DEF D
  <1>6. Elements(s.deferred) \subseteq Elements(Taken(a).deferred) \ {c}  BY <1>2
  <1>7. QED  BY <1>2, <1>3, <1>4, <1>5, <1>6, ServeTouches

\* An actor that takes a message is at rest and its session stays.
LEMMA TakenIs ==
    ASSUME ActorInv, NEW a \in Session, NEW c, Takes(a, c)
    PROVE  /\ c \in Client /\ c \in Work(a) /\ Running(a) /\ ~Flying(a)
           /\ Taken(a) \in ActorState
           /\ Taken(a).life = "Running" /\ Taken(a).physical = actor[a].physical
           /\ Taken(a).view = actor[a].view /\ Taken(a).tx = actor[a].tx
           /\ Taken(a).handles = actor[a].handles /\ Taken(a).hold = actor[a].hold
           /\ Taken(a).flight = NoExecution
           /\ Taken(a).revision = actor[a].revision
  <1>1. Typed /\ QueuesOK /\ Due(a, c)  BY DEF ActorInv, Takes
  <1>2. /\ Running(a) /\ ~Flying(a) /\ c \in Client /\ c \in Work(a) /\ Taken(a) \in ActorState
        /\ Taken(a) = [actor[a] EXCEPT !.deferred = Taken(a).deferred]
    BY <1>1, TakesIs
  <1>3. actor[a] \in ActorState  BY <1>1 DEF Typed
  <1>4. QED  BY <1>2, <1>3, ActorStateIs DEF Running, Flying

\* A release closes the resource, and says so.
LEMMA ReleasedIs ==
    ASSUME NEW s \in ActorState, NEW exact \in BOOLEAN, NEW shut \in BOOLEAN
    PROVE  LET r == Released(s, exact, shut) IN
           /\ r.life = s.life /\ r.flight = s.flight /\ r.physical = FALSE /\ r.deferred = <<>>
           /\ ~(shut /\ (exact \/ s.handles = {})) => r.tx = "Unknown"
           /\ Outcome(s, exact, shut) \in {"Ok", "SessionLost"}
  BY ActorStateIs DEF Released, Decided, Outcome

\* Served by releasing the resource: what was put off is dropped.
LEMMA ServeRelease ==
    ASSUME ActorInv, NEW a \in Session, NEW c, Takes(a, c),
           NEW exact \in BOOLEAN, NEW shut \in BOOLEAN,
           Becomes(a, Released(Taken(a), exact, shut)), UNCHANGED ctrlQ,
           Answers(WithDropped({c}, Outcome(Taken(a), exact, shut), Elements(Taken(a).deferred)))
    PROVE  Touches(a, {c} \cup Elements(Taken(a).deferred))
  <1> DEFINE D == {c} \cup Elements(Taken(a).deferred)
             s == Released(Taken(a), exact, shut)
             x == Outcome(Taken(a), exact, shut)
  <1>1. Typed  BY DEF ActorInv
  <1>2. c \in Client /\ Taken(a) \in ActorState /\ Taken(a).life = "Running"  BY TakenIs
  <1>3. Elements(Taken(a).deferred) \subseteq Client
    BY <1>2, InElements, ActorStateIs
  <1>4. s \in ActorState  BY <1>2, ActorTypes, Zenon
  <1>5. s.life = "Running" /\ s.deferred = <<>> /\ x \in {"Ok", "SessionLost"}
    BY <1>2, ReleasedIs, ZenonT(60)
  <1>6. x \in Answer  BY <1>5 DEF Answer
  <1>7. D \in SUBSET Client /\ WithDropped({c}, x, Elements(Taken(a).deferred)) \in [D -> Answer]
    BY <1>2, <1>3, <1>6, ReplyTypes, ZenonT(60)
  <1>8. /\ call' \in [Client -> CallState]
        /\ \A d \in Client : call'[d] = call[d] \/ (d \in D /\ Replied(d))
    <2> DEFINE reply == WithDropped({c}, x, Elements(Taken(a).deferred))
    <2>1. reply \in [D -> Answer] /\ Answers(reply)  BY <1>7
    <2> HIDE DEF reply, D
    <2>2. QED  BY <1>1, <1>7, <2>1, AnswersIs
  <1>9. Distinct(s.deferred) /\ Elements(s.deferred) \subseteq Elements(Taken(a).deferred) \ D
    BY <1>5, SmallSeqs
  <1>10. Becomes(a, s)  OBVIOUS
  <1>11. D \subseteq {c} \cup Elements(Taken(a).deferred)  OBVIOUS
  <1> HIDE DEF D, s
  <1>12. Touches(a, D)  BY <1>4, <1>5, <1>7, <1>8, <1>9, <1>10, <1>11, ServeTouches
  <1>13. QED  BY <1>12 DEF D

Settled == task' \in [Execution -> TaskState] /\ unfinished' \subseteq Session

\* A release ends work on its own session only.
LEMMA EndsType ==
    ASSUME Typed, NEW a \in Session, NEW shut \in BOOLEAN, Ends(a, shut)
    PROVE  /\ unfinished' \subseteq unfinished
           /\ shut => a \notin unfinished'
           /\ \A b \in Session : b # a => (b \in unfinished' <=> b \in unfinished)
  BY DEF Ends, Typed

\* A message from the queue of executions touches one actor.
LEMMA QueuedTouches ==
    ASSUME ActorInv, NEW a \in Session, NEW c, Queued(a, c)
    PROVE  Settled /\ \E D : Touches(a, D)
  <1>0. /\ Typed /\ QueuesOK /\ task \in [Execution -> TaskState] /\ unfinished \subseteq Session
        /\ actor[a] \in ActorState
    BY DEF ActorInv, Typed
  <1>2. CASE Open(a, c)
    <2>1. Takes(a, c) /\ UNCHANGED <<ctrlQ, task, unfinished>>  BY <1>2 DEF Open, Serves
    <2>2. Taken(a) \in ActorState  BY <2>1, TakenIs
    <2> DEFINE s == [Taken(a) EXCEPT !.physical = TRUE, !.view = "Ready", !.revision = 1]
    <2>3. s \in ActorState /\ s.life = Taken(a).life /\ s.deferred = Taken(a).deferred
      BY <2>2, ActorStays, Zenon DEF Stays
    <2>4. "Ok" \in Answer /\ "OpenFailed" \in Answer  BY DEF Answer
    <2>5. \/ Becomes(a, s) /\ Answers(To({c}, "Ok"))
          \/ Becomes(a, Taken(a)) /\ Answers(To({c}, "OpenFailed"))
      BY <1>2 DEF Open
    <2> HIDE DEF s
    <2>6. Touches(a, {c})  BY <2>1, <2>2, <2>3, <2>4, <2>5, ServeOne
    <2>7. QED  BY <1>0, <2>1, <2>6 DEF Settled
  <1>3. CASE ReadView(a, c)
    <2>1. Takes(a, c) /\ UNCHANGED <<ctrlQ, task, unfinished>> /\ Becomes(a, Taken(a))
          /\ Answers(To({c}, Read(actor[a])))
      BY <1>3 DEF ReadView, Serves
    <2>2. Read(actor[a]) \in Answer  BY DEF Read, Answer
    <2>3. Touches(a, {c})  BY <2>1, <2>2, TakenIs, ServeOne
    <2>4. QED  BY <1>0, <2>1, <2>3 DEF Settled
  <1>4. CASE Refuse(a, c)
    <2>1. Takes(a, c) /\ UNCHANGED <<ctrlQ, unfinished>> /\ Becomes(a, Taken(a))
      BY <1>4 DEF Refuse
    <2>2. PICK x \in {"CloseRejected", "SessionClosed", "ContextRevisionMismatch"} : Answers(To({c}, x))
      BY <1>4 DEF Refuse, Refusal
    <2>3. x \in Answer  BY DEF Answer
    <2>4. Touches(a, {c})  BY <2>1, <2>2, <2>3, TakenIs, ServeOne
    <2>5. task' \in [Execution -> TaskState]
      <3>1. \/ task' = task
            \/ /\ call[c].exec # NoExecution
               /\ task' = [task EXCEPT ![call[c].exec].stage = "Refused"]
        BY <1>4 DEF Refuse
      <3>2. c \in Client /\ call[c].exec \in Execution \cup {NoExecution}
        BY <2>1, TakenIs, <1>0, CallStateIs DEF Typed
      <3>3. call[c].exec # NoExecution =>
              [task[call[c].exec] EXCEPT !.stage = "Refused"] \in TaskState
        BY <1>0, <3>2, TaskTypes DEF TaskStage
      <3>4. QED  BY <1>0, <3>1, <3>2, <3>3
    <2>6. QED  BY <1>0, <2>1, <2>4, <2>5 DEF Settled
  <1>5. CASE StartExecution(a, c)
    <2> DEFINE s == [Taken(a) EXCEPT !.view = "Executing", !.flight = call[c].exec]
    <2>1. /\ Takes(a, c) /\ UNCHANGED <<ctrlQ, unfinished, call>> /\ Becomes(a, s)
          /\ call[c].op \in Executes /\ task' = [task EXCEPT ![call[c].exec].stage = "Running"]
      BY <1>5 DEF StartExecution, Executes
    <2>2. c \in Client /\ Taken(a) \in ActorState /\ Taken(a).life = "Running"  BY <2>1, TakenIs
    <2>3. call[c].exec \in Execution  BY <2>1, <2>2, OpPlan, Callers
    <2>4. s \in ActorState /\ s.life = "Running" /\ s.deferred = Taken(a).deferred
      BY <2>2, <2>3, ActorStays, Zenon DEF Stays
    <2>5. Distinct(Taken(a).deferred)  BY <1>0, <2>1, TakesIs DEF Takes
    <2>6. Touches(a, {})
      <3>1. call' \in [Client -> CallState] /\ \A d \in Client : call'[d] = call[d]
        BY <1>0, <2>1 DEF Typed
      <3>2. {} \in SUBSET Client /\ {} \subseteq {c} \cup Elements(Taken(a).deferred)
            /\ Elements(s.deferred) \subseteq Elements(Taken(a).deferred) \ {}
        BY <2>4
      <3>3. Distinct(s.deferred) /\ UNCHANGED ctrlQ  BY <2>1, <2>4, <2>5
      <3>4. Becomes(a, s)  BY <2>1
      <3> HIDE DEF s
      <3> DEFINE D == {}
      <3>5. /\ D \in SUBSET Client /\ D \subseteq {c} \cup Elements(Taken(a).deferred)
            /\ Elements(s.deferred) \subseteq Elements(Taken(a).deferred) \ D
        BY <3>2
      <3> HIDE DEF D
      <3>a. \A d \in Client : call'[d] = call[d] \/ (d \in D /\ Replied(d))
        <4> TAKE d \in Client
        <4>1. call'[d] = call[d]  BY <3>1
        <4>2. QED  BY <4>1
      <3>6. Touches(a, D)  BY <2>1, <2>4, <3>1, <3>3, <3>4, <3>5, <3>a, ServeTouches, SMTT(60)
      <3>7. QED  BY <3>6 DEF D
    <2>7. [task[call[c].exec] EXCEPT !.stage = "Running"] \in TaskState
      BY <1>0, <2>3, TaskTypes DEF TaskStage
    <2>8. task' \in [Execution -> TaskState]  BY <1>0, <2>1, <2>3, <2>7
    <2>9. QED  BY <1>0, <2>1, <2>6, <2>8 DEF Settled
  <1>6. CASE SetIdleDeadline(a, c)
    <2> DEFINE s == [Taken(a) EXCEPT !.deadline = call[c].arms]
    <2>1. /\ Takes(a, c) /\ UNCHANGED <<ctrlQ, task, unfinished>> /\ Becomes(a, s)
          /\ Answers(To({c}, "Ok"))
      BY <1>6 DEF SetIdleDeadline, Serves
    <2>2. c \in Client /\ Taken(a) \in ActorState  BY <2>1, TakenIs
    <2>3. call[c].arms \in BOOLEAN  BY <2>2, <1>0, CallStateIs DEF Typed
    <2>4. s \in ActorState /\ s.life = Taken(a).life /\ s.deferred = Taken(a).deferred
      BY <2>2, <2>3, ActorStays, Zenon DEF Stays
    <2> HIDE DEF s
    <2>5. Touches(a, {c})  BY <2>1, <2>4, ServeOne DEF Answer
    <2>6. QED  BY <1>0, <2>1, <2>5 DEF Settled
  <1>7. CASE Close(a, c)
    <2>1. Takes(a, c) /\ UNCHANGED <<ctrlQ, task>>  BY <1>7 DEF Close, Serves
    <2>2. PICK exact, shut \in BOOLEAN :
            /\ Becomes(a, Released(Taken(a), exact, shut))
            /\ Answers(WithDropped({c}, Outcome(Taken(a), exact, shut), Elements(Taken(a).deferred)))
            /\ Ends(a, shut)
      BY <1>7 DEF Close
    <2>3. Touches(a, {c} \cup Elements(Taken(a).deferred))  BY <2>1, <2>2, ServeRelease
    <2>4. unfinished' \subseteq Session  BY <1>0, <2>2, EndsType
    <2>5. QED  BY <1>0, <2>1, <2>3, <2>4 DEF Settled
  <1>8. CASE Evict(a, c)
    <2>1. Takes(a, c) /\ UNCHANGED <<ctrlQ, task>>  BY <1>8 DEF Evict, Serves
    <2>2. CASE Becomes(a, Taken(a)) /\ Answers(To({c}, "NotDue")) /\ UNCHANGED unfinished
      <3>1. Touches(a, {c})  BY <2>1, <2>2, TakenIs, ServeOne DEF Answer
      <3>2. QED  BY <1>0, <2>1, <2>2, <3>1 DEF Settled
    <2>3. CASE \E exact, shut \in BOOLEAN :
            /\ Becomes(a, Released(Taken(a), exact, shut))
            /\ Answers(WithDropped({c}, Outcome(Taken(a), exact, shut), Elements(Taken(a).deferred)))
            /\ Ends(a, shut)
      <3>1. PICK exact, shut \in BOOLEAN :
            /\ Becomes(a, Released(Taken(a), exact, shut))
            /\ Answers(WithDropped({c}, Outcome(Taken(a), exact, shut), Elements(Taken(a).deferred)))
            /\ Ends(a, shut)
        BY <2>3
      <3>2. Touches(a, {c} \cup Elements(Taken(a).deferred))  BY <2>1, <3>1, ServeRelease
      <3>3. unfinished' \subseteq Session  BY <1>0, <3>1, EndsType
      <3>4. QED  BY <1>0, <2>1, <3>2, <3>3 DEF Settled
    <2>4. QED  BY <1>8, <2>2, <2>3 DEF Evict
  <1>9. CASE Hold(a, c)
    <2> DEFINE s == [Taken(a) EXCEPT !.hold = actor[a].view, !.view = "Closing"]
    <2>1. /\ Takes(a, c) /\ UNCHANGED <<ctrlQ, task, unfinished>>
          /\ Becomes(a, Taken(a)) \/ Becomes(a, s)
          /\ Answers(To({c}, "Ok"))
      BY <1>9 DEF Hold, Serves
    <2>2. Taken(a) \in ActorState /\ Taken(a).view = actor[a].view  BY <2>1, TakenIs
    <2>3. s \in ActorState /\ s.life = Taken(a).life /\ s.deferred = Taken(a).deferred
      BY <2>2, ActorStays, ZenonT(60) DEF Stays
    <2> HIDE DEF s
    <2>4. Touches(a, {c})  BY <2>1, <2>2, <2>3, ServeOne DEF Answer
    <2>5. QED  BY <1>0, <2>1, <2>4 DEF Settled
  <1>10. CASE Resume(a, c)
    <2> DEFINE s == [Taken(a) EXCEPT !.hold = "Down", !.view = actor[a].hold]
    <2>1. /\ Takes(a, c) /\ UNCHANGED <<ctrlQ, task, unfinished>>
          /\ Becomes(a, Taken(a)) \/ (actor[a].hold # "Down" /\ Becomes(a, s))
          /\ Answers(To({c}, "Ok"))
      BY <1>10 DEF Resume, Serves, Gated
    <2>2. Taken(a) \in ActorState /\ Taken(a).hold = actor[a].hold  BY <2>1, TakenIs
    <2>3. actor[a].hold # "Down" =>
            s \in ActorState /\ s.life = Taken(a).life /\ s.deferred = Taken(a).deferred
      BY <2>2, ActorStays, Zenon DEF Stays
    <2> HIDE DEF s
    <2>4. Touches(a, {c})  BY <2>1, <2>2, <2>3, ServeOne DEF Answer
    <2>5. QED  BY <1>0, <2>1, <2>4 DEF Settled
  <1>11. CASE PutOff(a, c)
    <2>1. /\ Running(a) /\ execQ[a] # <<>> /\ c = Head(execQ[a])
          /\ execQ' = [execQ EXCEPT ![a] = Tail(execQ[a])]
          /\ UNCHANGED <<ctrlQ, task, unfinished>>
      BY <1>11 DEF PutOff, TakesInFlight
    <2> DEFINE q == Tail(execQ[a])
    <2>2. /\ execQ[a] \in Seq(Client) /\ ctrlQ[a] \in Seq(Client) /\ actor[a].deferred \in Seq(Client)
          /\ Distinct(execQ[a]) /\ Distinct(ctrlQ[a]) /\ Distinct(actor[a].deferred)
          /\ Elements(execQ[a]) \cap Elements(actor[a].deferred) = {}
          /\ Work(a) \cap Control(a) = {}
          /\ execQ \in [Session -> Seq(Client)] /\ ctrlQ \in [Session -> Seq(Client)]
          /\ actor \in [Session -> ActorState] /\ call \in [Client -> CallState]
      BY <1>0, ActorStateIs DEF Typed, QueuesOK
    <2>3. /\ c \in Client /\ q \in Seq(Client) /\ Elements(execQ[a]) = Elements(q) \cup {c}
          /\ Distinct(q) /\ c \notin Elements(q)
      BY <2>1, <2>2, SeqTail
    <2>4. execQ' = [execQ EXCEPT ![a] = q] /\ ctrlQ' = [ctrlQ EXCEPT ![a] = ctrlQ[a]]
      BY <2>1, <2>2
    <2> HIDE DEF q
    <2>5. c \in Work(a) /\ c \notin Elements(ctrlQ[a]) /\ c \notin Elements(actor[a].deferred)
      BY <2>2, <2>3 DEF Work, Control
    <2>6. CASE \E x \in Answer : Answers(To({c}, x)) /\ UNCHANGED actor
      <3>1. PICK x \in Answer : Answers(To({c}, x)) /\ UNCHANGED actor  BY <2>6
      <3>2. {c} \in SUBSET Client /\ To({c}, x) \in [{c} -> Answer]  BY <2>3, ReplyTypes
      <3>3. /\ call' \in [Client -> CallState]
            /\ \A d \in Client : call'[d] = call[d] \/ (d \in {c} /\ Replied(d))
        <4> DEFINE reply == To({c}, x)
                   D == {c}
        <4>1. D \in SUBSET Client /\ reply \in [D -> Answer] /\ Answers(reply)  BY <3>1, <3>2
        <4> HIDE DEF reply, D
        <4>2. /\ call' \in [Client -> CallState]
              /\ \A d \in Client : call'[d] = call[d] \/ (d \in D /\ Replied(d))
          BY <1>0, <4>1, AnswersIs
        <4>3. QED  BY <4>2 DEF D
      <3>4. actor' = [actor EXCEPT ![a] = actor[a]]  BY <2>2, <3>1
      <3>5. \A b \in Session \ {a} : {c} \cap Waiting(b) = {}
        BY <2>5, WaitersApart DEF Waiting
      <3>6. /\ Elements(q) \subseteq Elements(execQ[a]) \ {c}
            /\ Elements(ctrlQ[a]) \subseteq Elements(ctrlQ[a]) \ {c}
            /\ Elements(actor[a].deferred) \subseteq Elements(actor[a].deferred) \ {c}
        BY <2>3, <2>5
      <3>7. actor[a].life = "Running" /\ actor[a].life # "Unborn"  BY <2>1 DEF Running
      <3>8. Touches(a, {c})
        BY <1>0, <2>1, <2>2, <2>3, <2>4, <3>2, <3>3, <3>4, <3>5, <3>6, <3>7, TouchesWhen
      <3>9. QED  BY <1>0, <2>1, <3>8 DEF Settled
    <2>7. CASE Becomes(a, [actor[a] EXCEPT !.deferred = Append(@, c)]) /\ UNCHANGED call
      <3> DEFINE d == Append(actor[a].deferred, c)
                 s == [actor[a] EXCEPT !.deferred = d]
      <3>1. d \in Seq(Client) /\ Elements(d) = Elements(actor[a].deferred) \cup {c} /\ Distinct(d)
        BY <2>2, <2>3, <2>5, SeqAppend
      <3> HIDE DEF d
      <3>2. s \in ActorState /\ s.deferred = d /\ s.life = actor[a].life
        <4>1. s \in ActorState  BY <1>0, <3>1, ActorTypes, Zenon
        <4>2. QED  BY <1>0, <4>1, ActorStateIs
      <3>3. actor' = [actor EXCEPT ![a] = s]  BY <2>7 DEF Becomes, d
      <3> HIDE DEF s
      <3>4. actor'[a] = s /\ execQ'[a] = q /\ ctrlQ'[a] = ctrlQ[a]  BY <2>2, <2>4, <3>3
      <3>5. Work(a)' = Work(a) /\ Control(a)' = Control(a)
        BY <2>3, <3>1, <3>2, <3>4 DEF Work, Control
      <3>6. Running(a)'  BY <2>1, <3>2, <3>4 DEF Running
      <3>7. Sorted(a)'
        <4>1. (Elements(execQ[a]) \cap Elements(actor[a].deferred) = {})'
          BY <2>2, <2>3, <3>1, <3>2, <3>4
        <4>2. QED  BY <2>2, <2>3, <3>1, <3>2, <3>4, <3>5, <3>6, <4>1 DEF Sorted
      <3>8. Touches(a, {})
        <4>1. actor'[a].life # "Unborn"  BY <3>6 DEF Running
        <4>2. /\ actor' = [actor EXCEPT ![a] = actor'[a]] /\ actor'[a] \in ActorState
              /\ execQ' = [execQ EXCEPT ![a] = execQ'[a]] /\ execQ'[a] \in Seq(Client)
              /\ ctrlQ' = [ctrlQ EXCEPT ![a] = ctrlQ'[a]] /\ ctrlQ'[a] \in Seq(Client)
          BY <2>2, <2>3, <2>4, <3>2, <3>3, <3>4
        <4>3. call' \in [Client -> CallState] /\ \A e \in Client : call'[e] = call[e]
          BY <2>2, <2>7
        <4> DEFINE D == {}
        <4>4. /\ Work(a)' \subseteq Work(a) \ D /\ Control(a)' \subseteq Control(a) \ D
              /\ D \subseteq Client /\ \A b \in Session \ {a} : D \cap Waiting(b) = {}
          BY <3>5
        <4> HIDE DEF D
        <4>a. \A e \in Client : call'[e] = call[e] \/ (e \in D /\ Replied(e))
          <5> TAKE e \in Client
          <5>1. call'[e] = call[e]  BY <4>3
          <5>2. QED  BY <5>1
        <4>5. Touches(a, D)  BY <2>1, <3>7, <4>1, <4>2, <4>3, <4>4, <4>a DEF Touches
        <4>6. QED  BY <4>5 DEF D
      <3>9. QED  BY <1>0, <2>1, <3>8 DEF Settled
    <2>8. Read(actor[a]) \in Answer /\ "NotDue" \in Answer  BY DEF Read, Answer
    <2>9. QED  BY <1>11, <2>6, <2>7, <2>8 DEF PutOff
  <1>12. QED
    BY <1>2, <1>3, <1>4, <1>5, <1>6, <1>7, <1>8, <1>9, <1>10, <1>11 DEF Queued

\* A control message that answers its caller and changes nothing else.
LEMMA ControlOne ==
    ASSUME ActorInv, NEW a \in Session, NEW c, TakesControl(a, c), UNCHANGED <<actor, execQ>>,
           NEW x \in Answer, Answers(To({c}, x))
    PROVE  Touches(a, {c})
  <1>1. Typed /\ actor[a] \in ActorState /\ Running(a)
        /\ ctrlQ[a] \in Seq(Client) /\ ctrlQ[a] # <<>> /\ c = Head(ctrlQ[a])
    BY DEF ActorInv, Typed, TakesControl, ControlDue
  <1>2. c \in Client /\ c \in Control(a)  BY <1>1, SeqTail DEF Control
  <1> DEFINE D == {c}
             reply == To({c}, x)
  <1>3. D \in SUBSET Client /\ reply \in [D -> Answer] /\ Answers(reply)  BY <1>2, ReplyTypes
  <1> HIDE DEF reply
  <1>4. /\ call' \in [Client -> CallState]
        /\ \A d \in Client : call'[d] = call[d] \/ (d \in D /\ Replied(d))
    <2> HIDE DEF D
    <2>1. QED  BY <1>1, <1>3, AnswersIs
  <1>5. Distinct(actor[a].deferred) /\ Work(a) \cap Control(a) = {}
    BY DEF ActorInv, QueuesOK
  <1>6. D \subseteq {c} \cup Elements(actor[a].deferred)
        /\ Elements(actor[a].deferred) \subseteq Elements(actor[a].deferred) \ D
    BY <1>2, <1>5 DEF Work
  <1>7. actor[a].life = "Running" /\ Becomes(a, actor[a]) /\ UNCHANGED execQ
    BY <1>1 DEF Running, Becomes, Typed
  <1> HIDE DEF D
  <1>8. Touches(a, D)  BY <1>1, <1>3, <1>4, <1>5, <1>6, <1>7, ControlTouches
  <1>9. QED  BY <1>8 DEF D

\* A control message that releases the resource.
LEMMA ControlRelease ==
    ASSUME ActorInv, NEW a \in Session, NEW c, TakesControl(a, c),
           NEW exact \in BOOLEAN, NEW shut \in BOOLEAN,
           Becomes(a, Released(actor[a], exact, shut)), UNCHANGED execQ,
           Answers(WithDropped({c}, "Ok", Elements(actor[a].deferred)))
    PROVE  Touches(a, {c} \cup Elements(actor[a].deferred))
  <1>1. Typed /\ actor[a] \in ActorState /\ actor[a].life = "Running"
        /\ ctrlQ[a] \in Seq(Client) /\ ctrlQ[a] # <<>> /\ c = Head(ctrlQ[a])
    BY DEF ActorInv, Typed, TakesControl, ControlDue, Running
  <1>2. c \in Client /\ Elements(actor[a].deferred) \in SUBSET Client
    BY <1>1, SeqTail, InElements, ActorStateIs
  <1> DEFINE D == {c} \cup Elements(actor[a].deferred)
             reply == WithDropped({c}, "Ok", Elements(actor[a].deferred))
             s == Released(actor[a], exact, shut)
  <1>3. D \in SUBSET Client /\ reply \in [D -> Answer] /\ Answers(reply)
        /\ D \subseteq {c} \cup Elements(actor[a].deferred)
    <2>1. "Ok" \in Answer /\ {c} \in SUBSET Client  BY <1>2 DEF Answer
    <2>2. reply \in [D -> Answer]  BY <1>2, <2>1, ReplyTypes
    <2>3. QED  BY <1>2, <2>2
  <1> HIDE DEF D, reply
  <1>4. /\ call' \in [Client -> CallState]
        /\ \A d \in Client : call'[d] = call[d] \/ (d \in D /\ Replied(d))
    BY <1>1, <1>3, AnswersIs
  <1>5. s \in ActorState /\ s.life = "Running" /\ s.deferred = <<>> /\ Becomes(a, s)
    <2>1. s \in ActorState  BY <1>1, ActorTypes, Zenon
    <2>2. s.life = actor[a].life /\ s.deferred = <<>>  BY <1>1, ReleasedIs, ZenonT(60)
    <2>3. QED  BY <1>1, <2>1, <2>2
  <1> HIDE DEF s
  <1>6. Distinct(s.deferred) /\ Elements(s.deferred) \subseteq Elements(actor[a].deferred) \ D
    BY <1>5, SmallSeqs
  <1>7. Touches(a, D)  BY <1>3, <1>4, <1>5, <1>6, ControlTouches
  <1>8. QED  BY <1>7 DEF D

\* A control message touches one actor.
LEMMA ControlledTouches ==
    ASSUME ActorInv, NEW a \in Session, NEW c, Controlled(a, c)
    PROVE  Settled /\ \E D : Touches(a, D)
  <1>0. /\ Typed /\ task \in [Execution -> TaskState] /\ unfinished \subseteq Session
        /\ actor[a] \in ActorState
    BY DEF ActorInv, Typed
  <1>1. CASE CancelAnswered(a, c)
    <2>1. TakesControl(a, c) /\ UNCHANGED <<actor, execQ, task, unfinished>>
      BY <1>1 DEF CancelAnswered, Controls
    <2>2. PICK x \in {"SessionClosed", "Unsupported", "AlreadyFinished", "CancelFailed"} :
            Answers(To({c}, x))
      BY <1>1 DEF CancelAnswered
    <2>3. x \in Answer  BY DEF Answer
    <2>4. Touches(a, {c})  BY <2>1, <2>2, <2>3, ControlOne
    <2>5. QED  BY <1>0, <2>1, <2>4 DEF Settled
  <1>2. CASE CancelQueued(a, c)
    <2>1. TakesControl(a, c) /\ UNCHANGED <<actor, execQ, unfinished>> /\ Answers(To({c}, "Requested"))
          /\ task' = [task EXCEPT ![call[c].exec].asked = TRUE]
      BY <1>2 DEF CancelQueued, Controls
    <2>2. Touches(a, {c})  BY <2>1, ControlOne DEF Answer
    <2>3. task' \in [Execution -> TaskState]  BY <1>0, <2>1, TaskTypes
    <2>4. QED  BY <1>0, <2>1, <2>2, <2>3 DEF Settled
  <1>3. CASE CancelDelivered(a, c)
    <2>1. TakesControl(a, c) /\ UNCHANGED <<actor, execQ, unfinished>>
          /\ task' = [task EXCEPT ![call[c].exec].told = TRUE]
      BY <1>3 DEF CancelDelivered, Controls
    <2>2. PICK x \in {"Requested", "CancelFailed"} : Answers(To({c}, x))
      BY <1>3 DEF CancelDelivered
    <2>3. x \in Answer  BY DEF Answer
    <2>4. Touches(a, {c})  BY <2>1, <2>2, <2>3, ControlOne
    <2>5. task' \in [Execution -> TaskState]  BY <1>0, <2>1, TaskTypes
    <2>6. QED  BY <1>0, <2>1, <2>4, <2>5 DEF Settled
  <1>4. CASE InvalidateWorker(a, c)
    <2>1. TakesControl(a, c) /\ UNCHANGED <<execQ, task>>
      BY <1>4 DEF InvalidateWorker, Controls
    <2>2. CASE Answers(To({c}, "NotHere")) /\ UNCHANGED <<actor, unfinished>>
      <3>1. Touches(a, {c})  BY <2>1, <2>2, ControlOne DEF Answer
      <3>2. QED  BY <1>0, <2>1, <2>2, <3>1 DEF Settled
    <2>3. CASE \E exact, shut \in BOOLEAN :
                  /\ Becomes(a, Released(actor[a], exact, shut))
                  /\ Answers(WithDropped({c}, "Ok", Elements(actor[a].deferred)))
                  /\ Ends(a, shut)
      <3>1. PICK exact, shut \in BOOLEAN :
                  /\ Becomes(a, Released(actor[a], exact, shut))
                  /\ Answers(WithDropped({c}, "Ok", Elements(actor[a].deferred)))
                  /\ Ends(a, shut)
        BY <2>3
      <3>2. Touches(a, {c} \cup Elements(actor[a].deferred))  BY <2>1, <3>1, ControlRelease
      <3>3. unfinished' \subseteq Session  BY <1>0, <3>1, EndsType
      <3>4. QED  BY <1>0, <2>1, <3>2, <3>3 DEF Settled
    <2>4. QED  BY <1>4, <2>2, <2>3 DEF InvalidateWorker
  <1>5. QED  BY <1>1, <1>2, <1>3, <1>4 DEF Controlled

\* The end of an execution: its pilots are answered, and perhaps what it kept waiting.
LEMMA EndTouches ==
    ASSUME ActorInv, NEW a \in Session, Running(a), NEW D \in SUBSET Client,
           D \subseteq Pilot(a) \cup Elements(actor[a].deferred),
           NEW s \in ActorState, s.life = "Running", Becomes(a, s), UNCHANGED <<execQ, ctrlQ>>,
           Distinct(s.deferred),
           Elements(s.deferred) \subseteq Elements(actor[a].deferred) \ D,
           NEW reply \in [D -> Answer], Answers(reply)
    PROVE  Touches(a, D)
  <1>1. /\ Typed /\ actor[a] \in ActorState
        /\ execQ[a] \in Seq(Client) /\ ctrlQ[a] \in Seq(Client)
        /\ execQ' = [execQ EXCEPT ![a] = execQ[a]] /\ ctrlQ' = [ctrlQ EXCEPT ![a] = ctrlQ[a]]
    BY DEF ActorInv, Typed
  <1>2. /\ Elements(execQ[a]) \cap Elements(actor[a].deferred) = {}
        /\ Work(a) \cap Control(a) = {} /\ Distinct(ctrlQ[a]) /\ Distinct(execQ[a])
    BY DEF ActorInv, QueuesOK
  <1>3. /\ call' \in [Client -> CallState]
        /\ \A d \in Client : call'[d] = call[d] \/ (d \in D /\ Replied(d))
    BY <1>1, AnswersIs
  <1>4. Pilot(a) \cap Waiting(a) = {} /\ \A b \in Session \ {a} : D \cap Waiting(b) = {}
    <2>1. \A b \in Session : Pilot(a) \cap Waiting(b) = {}  BY WaitersApart
    <2>2. \A b \in Session \ {a} : Waiting(a) \cap Waiting(b) = {}  BY WaitersApart
    <2>3. Elements(actor[a].deferred) \subseteq Waiting(a)  BY DEF Waiting, Work
    <2>4. QED  BY <2>1, <2>2, <2>3
  <1>5. /\ Elements(execQ[a]) \subseteq Elements(execQ[a]) \ D
        /\ Elements(ctrlQ[a]) \subseteq Elements(ctrlQ[a]) \ D
    BY <1>2, <1>4 DEF Waiting, Work, Control
  <1>6. actor' = [actor EXCEPT ![a] = s] /\ s.life # "Unborn"  BY DEF Becomes
  <1>7. QED  BY <1>1, <1>2, <1>3, <1>4, <1>5, <1>6, TouchesWhen

\* An actor whose execution lands.
LEMMA LandedIs ==
    ASSUME ActorInv, NEW a \in Session, Lands(a)
    PROVE  /\ Running(a) /\ Flying(a) /\ actor[a] \in ActorState /\ actor[a].flight \in Execution
           /\ task[actor[a].flight].handle # "Offered"
           /\ Stays(actor[a], Landed(a)) /\ Landed(a).flight = NoExecution
           /\ Landed(a).physical = actor[a].physical
           /\ \A tx \in Transaction, n \in 0..MaxRevision :
                 /\ Stays(actor[a], Reported(a, tx, n)) /\ Reported(a, tx, n).flight = NoExecution
                 /\ Reported(a, tx, n).physical = actor[a].physical
                 /\ \A H \in SUBSET Handle :
                       LET s == [Reported(a, tx, n) EXCEPT !.handles = H] IN
                       /\ Stays(actor[a], s) /\ s.flight = NoExecution
                       /\ s.physical = actor[a].physical /\ s.tx = tx /\ s.handles = H
  <1>1. Running(a) /\ Flying(a) /\ actor[a] \in ActorState /\ task[actor[a].flight].handle # "Offered"
    BY DEF Lands, ActorInv, Typed, Offered
  <1>2. actor[a].flight \in Execution  BY <1>1, ActorStateIs DEF Flying
  <1> DEFINE v == IF actor[a].physical THEN "Ready" ELSE actor[a].view
             l == [actor[a] EXCEPT !.flight = NoExecution, !.view = v]
  <1>3. v \in View /\ Landed(a) = l  BY <1>1, ActorStateIs DEF View, Landed
  <1> HIDE DEF v
  <1>4. l \in ActorState  BY <1>1, <1>3, ActorTypes, Zenon
  <1>5. /\ l.life = actor[a].life /\ l.deferred = actor[a].deferred /\ l.flight = NoExecution
        /\ l.physical = actor[a].physical
    BY <1>1 DEF ActorState
  <1> HIDE DEF l
  <1>6. ASSUME NEW tx \in Transaction, NEW n \in 0..MaxRevision
        PROVE  /\ Stays(actor[a], Reported(a, tx, n)) /\ Reported(a, tx, n).flight = NoExecution
               /\ Reported(a, tx, n).physical = actor[a].physical
               /\ \A H \in SUBSET Handle :
                     LET s == [Reported(a, tx, n) EXCEPT !.handles = H] IN
                     /\ Stays(actor[a], s) /\ s.flight = NoExecution
                     /\ s.physical = actor[a].physical /\ s.tx = tx /\ s.handles = H
    <2> DEFINE r == [l EXCEPT !.tx = tx, !.revision = n]
    <2>1. Reported(a, tx, n) = r  BY <1>3 DEF Reported
    <2>2. r \in ActorState  BY <1>4, ActorTypes, Zenon
    <2>3. r.life = l.life /\ r.deferred = l.deferred /\ r.flight = l.flight
          /\ r.physical = l.physical /\ r.tx = tx
      BY <1>4 DEF ActorState
    <2> HIDE DEF r
    <2>4. ASSUME NEW H \in SUBSET Handle
          PROVE  LET s == [r EXCEPT !.handles = H] IN
                 /\ s \in ActorState /\ s.life = r.life /\ s.deferred = r.deferred
                 /\ s.flight = r.flight /\ s.physical = r.physical /\ s.tx = r.tx /\ s.handles = H
      <3>1. [r EXCEPT !.handles = H] \in ActorState  BY <2>2, ActorTypes, Zenon
      <3>2. QED  BY <2>2, <3>1 DEF ActorState
    <2>5. QED  BY <1>5, <2>1, <2>2, <2>3, <2>4 DEF Stays
  <1>7. QED  BY <1>1, <1>2, <1>3, <1>4, <1>5, <1>6 DEF Stays

\* An execution that settles has an end, and a handle that is gone or was missed.
LEMMA SettlesIs ==
    ASSUME NEW a \in Session, NEW stage \in TaskStage, Settles(a, stage)
    PROVE  \E t \in TaskState :
              /\ task' = [task EXCEPT ![actor[a].flight] = t]
              /\ t.stage = stage /\ t.on = a /\ t.handle \in {"Silent", "Missed"}
  <1>1. PICK handle \in {"Silent", "Missed"} :
            task' = [task EXCEPT ![actor[a].flight] =
                        [NoTask EXCEPT !.stage = stage, !.on = a, !.handle = handle]]
    BY Zenon DEF Settles, Unread
  <1> DEFINE t == [NoTask EXCEPT !.stage = stage, !.on = a, !.handle = handle]
  <1>2. t.stage = stage /\ t.on = a /\ t.handle = handle  BY DEF NoTask
  <1>3. t \in TaskState  BY TaskStateIs DEF NoTask, Somewhere
  <1>4. task' = [task EXCEPT ![actor[a].flight] = t]  BY <1>1
  <1> HIDE DEF t
  <1>5. QED  BY <1>2, <1>3, <1>4

\* An execution that settles keeps its type.
LEMMA SettlesType ==
    ASSUME ActorInv, NEW a \in Session, actor[a].flight \in Execution,
           NEW stage \in TaskStage, Settles(a, stage)
    PROVE  task' \in [Execution -> TaskState]
  <1>1. PICK t \in TaskState : task' = [task EXCEPT ![actor[a].flight] = t]  BY SettlesIs
  <1>2. QED  BY <1>1 DEF ActorInv, Typed

\* The end of an execution touches one actor.
LEMMA OverTouches ==
    ASSUME ActorInv, NEW a \in Session, Lands(a), NEW s, Stays(actor[a], s),
           NEW left \in SUBSET {a}, NEW stage \in {"Done", "Failed"}, NEW answer \in {"Ok", "Failed"},
           Over(a, s, left, stage, answer)
    PROVE  Settled /\ Touches(a, Pilot(a))
  <1>1. Running(a) /\ actor[a] \in ActorState /\ actor[a].flight \in Execution  BY LandedIs
  <1>2. /\ Becomes(a, s) /\ Leaves(a, left) /\ Settles(a, stage)
        /\ Answers(To(Pilot(a), answer)) /\ UNCHANGED <<execQ, ctrlQ>>
    BY DEF Over
  <1>3. Pilot(a) \in SUBSET Client /\ Pilot(a) \cap Waiting(a) = {}  BY WaitersApart
  <1> DEFINE reply == To(Pilot(a), answer)
             D == Pilot(a)
  <1>4. reply \in [D -> Answer] /\ Answers(reply) /\ D \in SUBSET Client
        /\ D \subseteq Pilot(a) \cup Elements(actor[a].deferred)
    BY <1>2, <1>3, ReplyTypes DEF Answer
  <1>5. s \in ActorState /\ s.life = "Running" /\ s.deferred = actor[a].deferred
    BY <1>1 DEF Stays, Running
  <1>6. Distinct(s.deferred)  BY <1>5 DEF ActorInv, QueuesOK
  <1>7. Elements(s.deferred) \subseteq Elements(actor[a].deferred) \ D
    BY <1>3, <1>5 DEF Waiting, Work
  <1> HIDE DEF reply, D
  <1>8. Touches(a, D)  BY <1>1, <1>2, <1>4, <1>5, <1>6, <1>7, EndTouches
  <1>9. task' \in [Execution -> TaskState]
    BY <1>1, <1>2, SettlesType DEF TaskStage
  <1>10. unfinished' \subseteq Session  BY <1>2 DEF Leaves, ActorInv, Typed
  <1>11. QED  BY <1>8, <1>9, <1>10 DEF Settled, D

\* An execution that ends without losing its resource.
EndsAs(a, s, left, stage, answer) ==
    /\ Stays(actor[a], s) /\ s.flight = NoExecution /\ s.physical = actor[a].physical
    /\ Over(a, s, left, stage, answer)
    /\ stage = "Failed" \/ left = {} \/ s.tx # "None" \/ s.handles # {}

\* How an execution ends on a resource that is left.
LEMMA EndKinds ==
    ASSUME ActorInv, NEW a \in Session, Complete(a) \/ Fail(a)
    PROVE  /\ Lands(a)
           /\ \E s : \E left \in SUBSET {a}, stage \in {"Done", "Failed"}, answer \in {"Ok", "Failed"} :
                 EndsAs(a, s, left, stage, answer)
  <1>1. Lands(a)  BY DEF Complete, Fail
  <1>2. actor[a] \in ActorState /\ actor[a].revision \in Nat /\ MaxRevision \in Nat
    BY <1>1, LandedIs, ActorStateIs, ActorAssumption
  <1>3. CASE Complete(a)
    <2>1. PICK tx \in Transaction, open \in SUBSET Handle, left \in SUBSET {a}, step \in 0..1 :
            /\ actor[a].revision + step <= MaxRevision
            /\ tx = "None" /\ open = {} => left = {}
            /\ Over(a, [Reported(a, tx, actor[a].revision + step) EXCEPT !.handles = open],
                    left, "Done", "Ok")
      BY <1>3 DEF Complete
    <2>2. actor[a].revision + step \in 0..MaxRevision  BY <1>2, <2>1
    <2> DEFINE s == [Reported(a, tx, actor[a].revision + step) EXCEPT !.handles = open]
    <2>3. /\ Stays(actor[a], s) /\ s.flight = NoExecution /\ s.physical = actor[a].physical
          /\ s.tx = tx /\ s.handles = open
      <3> DEFINE n == actor[a].revision + step
      <3>1. n \in 0..MaxRevision  BY <2>2
      <3> HIDE DEF n
      <3>2. LET u == [Reported(a, tx, n) EXCEPT !.handles = open] IN
            /\ Stays(actor[a], u) /\ u.flight = NoExecution /\ u.physical = actor[a].physical
            /\ u.tx = tx /\ u.handles = open
        <4>1. \A H \in SUBSET Handle :
                 LET u == [Reported(a, tx, n) EXCEPT !.handles = H] IN
                 /\ Stays(actor[a], u) /\ u.flight = NoExecution
                 /\ u.physical = actor[a].physical /\ u.tx = tx /\ u.handles = H
          BY <1>1, <3>1, LandedIs
        <4>2. QED  BY <4>1, Zenon
      <3>3. QED  BY <3>2 DEF n
    <2>4. Over(a, s, left, "Done", "Ok")  BY <2>1
    <2> HIDE DEF s
    <2>5. left = {} \/ s.tx # "None" \/ s.handles # {}  BY <2>1, <2>3
    <2>6. EndsAs(a, s, left, "Done", "Ok")  BY <2>3, <2>4, <2>5 DEF EndsAs
    <2>7. QED  BY <1>1, <2>6
  <1>4. CASE Fail(a)
    <2>1. PICK left \in SUBSET {a} :
            \/ Over(a, Landed(a), left, "Failed", "Failed")
            \/ \E tx \in Transaction, step \in 0..1 :
                  /\ actor[a].revision + step <= MaxRevision
                  /\ Over(a, Reported(a, tx, actor[a].revision + step), left, "Failed", "Failed")
      BY <1>4 DEF Fail
    <2>2. CASE Over(a, Landed(a), left, "Failed", "Failed")
      <3>1. Stays(actor[a], Landed(a)) /\ Landed(a).flight = NoExecution
            /\ Landed(a).physical = actor[a].physical
        BY <1>1, LandedIs
      <3>2. EndsAs(a, Landed(a), left, "Failed", "Failed")  BY <2>2, <3>1 DEF EndsAs
      <3>3. QED  BY <1>1, <3>2
    <2>3. CASE \E tx \in Transaction, step \in 0..1 :
                  /\ actor[a].revision + step <= MaxRevision
                  /\ Over(a, Reported(a, tx, actor[a].revision + step), left, "Failed", "Failed")
      <3>1. PICK tx \in Transaction, step \in 0..1 :
                  /\ actor[a].revision + step <= MaxRevision
                  /\ Over(a, Reported(a, tx, actor[a].revision + step), left, "Failed", "Failed")
        BY <2>3
      <3>2. actor[a].revision + step \in 0..MaxRevision  BY <1>2, <3>1
      <3> DEFINE s == Reported(a, tx, actor[a].revision + step)
      <3>3. Stays(actor[a], s) /\ s.flight = NoExecution /\ s.physical = actor[a].physical
        BY <1>1, <3>2, LandedIs
      <3>4. Over(a, s, left, "Failed", "Failed")  BY <3>1
      <3> HIDE DEF s
      <3>5. EndsAs(a, s, left, "Failed", "Failed")  BY <3>3, <3>4 DEF EndsAs
      <3>6. QED  BY <1>1, <3>5
    <2>4. QED  BY <2>1, <2>2, <2>3
  <1>5. QED  BY <1>3, <1>4

\* The end that takes the resource with it.
LEMMA LoseIs ==
    ASSUME ActorInv, NEW a \in Session, LoseResource(a)
    PROVE  /\ Lands(a) /\ Settled
           /\ \E D : Touches(a, D)
           /\ actor'[a].flight = NoExecution /\ actor'[a].physical = FALSE
           /\ actor'[a].life = "Running" /\ actor'[a].tx = "Unknown"
           /\ actor' = [actor EXCEPT ![a] = actor'[a]]
           /\ Settles(a, "Lost") /\ UNCHANGED <<execQ, ctrlQ>>
           /\ unfinished' \subseteq unfinished
  <1>1. Lands(a) /\ Settles(a, "Lost") /\ UNCHANGED <<execQ, ctrlQ>>  BY DEF LoseResource
  <1>2. /\ Running(a) /\ actor[a] \in ActorState /\ actor[a].flight \in Execution
        /\ Stays(actor[a], Landed(a)) /\ Landed(a).flight = NoExecution
        /\ Landed(a).physical = actor[a].physical
    BY <1>1, LandedIs
  <1>3. PICK exact, shut \in BOOLEAN :
          LET s == IF actor[a].physical THEN Released(Landed(a), exact, shut) ELSE Landed(a)
          IN /\ Becomes(a, [s EXCEPT !.view = "Lost", !.tx = "Unknown"])
             /\ Answers(WithDropped(Pilot(a), "SessionLost",
                    IF actor[a].physical THEN Elements(actor[a].deferred) ELSE {}))
             /\ Ends(a, shut)
    BY DEF LoseResource
  <1> DEFINE s == IF actor[a].physical THEN Released(Landed(a), exact, shut) ELSE Landed(a)
             t == [s EXCEPT !.view = "Lost", !.tx = "Unknown"]
             X == IF actor[a].physical THEN Elements(actor[a].deferred) ELSE {}
             D == Pilot(a) \cup X
             reply == WithDropped(Pilot(a), "SessionLost", X)
  <1>4. /\ s \in ActorState /\ s.life = "Running" /\ s.flight = NoExecution /\ s.physical = FALSE
        /\ s.deferred = IF actor[a].physical THEN <<>> ELSE actor[a].deferred
    <2>1. Landed(a) \in ActorState /\ Landed(a).life = "Running"
          /\ Landed(a).deferred = actor[a].deferred
      BY <1>2 DEF Stays, Running
    <2>2. CASE actor[a].physical
      <3>1. Released(Landed(a), exact, shut) \in ActorState  BY <2>1, ActorTypes, Zenon
      <3> DEFINE l == Landed(a)
                 r == Released(l, exact, shut)
      <3>2. l \in ActorState /\ l.life = "Running" /\ l.flight = NoExecution  BY <1>2, <2>1
      <3>3. r.life = "Running" /\ r.flight = NoExecution /\ r.physical = FALSE /\ r.deferred = <<>>
        <4> HIDE DEF l
        <4>1. QED  BY <3>2, ReleasedIs, ZenonT(60)
      <3>4. QED  BY <2>2, <3>1, <3>3
    <2>3. CASE ~actor[a].physical
      <3>1. Landed(a).physical = FALSE  BY <1>2, <2>1, <2>3, ActorStateIs
      <3>2. QED  BY <1>2, <2>1, <2>3, <3>1
    <2>4. QED  BY <2>2, <2>3, Zenon
  <1>5. /\ t \in ActorState /\ t.life = "Running" /\ t.flight = NoExecution /\ t.physical = FALSE
        /\ t.deferred = s.deferred /\ t.tx = "Unknown"
    <2>1. "Lost" \in View /\ "Unknown" \in Transaction  BY DEF View, Transaction
    <2> HIDE DEF s
    <2>2. t \in ActorState  BY <1>4, <2>1, ActorTypes, Zenon
    <2>3. QED  BY <1>4, <2>2 DEF ActorState
  <1>6. Becomes(a, t) /\ Answers(reply) /\ Ends(a, shut)  BY <1>3
  <1>7. /\ Pilot(a) \in SUBSET Client /\ X \in SUBSET Client
        /\ \A b \in Session : Pilot(a) \cap Waiting(b) = {}
    BY <1>2, WaitersApart, InElements, ActorStateIs
  <1>8. reply \in [D -> Answer] /\ D \in SUBSET Client
        /\ D \subseteq Pilot(a) \cup Elements(actor[a].deferred)
    <2>1. "SessionLost" \in Answer  BY DEF Answer
    <2> HIDE DEF X
    <2>2. reply \in [D -> Answer] /\ D \in SUBSET Client  BY <1>7, <2>1, ReplyTypes
    <2>3. X \subseteq Elements(actor[a].deferred)  BY DEF X
    <2>4. QED  BY <2>2, <2>3
  <1>9. Distinct(t.deferred) /\ Elements(t.deferred) \subseteq Elements(actor[a].deferred) \ D
    <2>1. Distinct(actor[a].deferred)  BY DEF ActorInv, QueuesOK
    <2>2. Elements(actor[a].deferred) \cap Pilot(a) = {}  BY <1>7 DEF Waiting, Work
    <2>3. CASE actor[a].physical  BY <1>4, <1>5, <2>3, SmallSeqs
    <2>4. CASE ~actor[a].physical
      <3>1. t.deferred = actor[a].deferred  BY <1>4, <1>5, <2>4
      <3>2. D = Pilot(a)  BY <2>4
      <3> HIDE DEF D, t
      <3>3. QED  BY <2>1, <2>2, <3>1, <3>2
    <2>5. QED  BY <2>3, <2>4
  <1>10. actor'[a] = t /\ actor' = [actor EXCEPT ![a] = actor'[a]]
    BY <1>6 DEF Becomes, ActorInv, Typed
  <1>11. unfinished' \subseteq unfinished /\ unfinished' \subseteq Session
    BY <1>6, EndsType DEF ActorInv, Typed
  <1> HIDE DEF s, t, X, D, reply
  <1>12. Touches(a, D)  BY <1>1, <1>2, <1>5, <1>6, <1>8, <1>9, EndTouches
  <1>13. task' \in [Execution -> TaskState]  BY <1>1, <1>2, SettlesType DEF TaskStage
  <1>14. QED  BY <1>1, <1>5, <1>10, <1>11, <1>12, <1>13 DEF Settled

\* The end of an execution, whatever it is, touches one actor.
LEMMA EndedTouches ==
    ASSUME ActorInv, NEW a \in Session, Ended(a)
    PROVE  Settled /\ \E D : Touches(a, D)
  <1>1. CASE Complete(a) \/ Fail(a)
    <2>1. Lands(a)  BY <1>1, EndKinds
    <2>2. PICK s : \E left \in SUBSET {a}, stage \in {"Done", "Failed"}, answer \in {"Ok", "Failed"} :
            EndsAs(a, s, left, stage, answer)
      BY <1>1, EndKinds
    <2>3. PICK left \in SUBSET {a}, stage \in {"Done", "Failed"}, answer \in {"Ok", "Failed"} :
            EndsAs(a, s, left, stage, answer)
      BY <2>2
    <2>4. QED  BY <2>1, <2>3, OverTouches DEF EndsAs
  <1>2. CASE LoseResource(a)  BY <1>2, LoseIs
  <1>3. QED  BY <1>1, <1>2 DEF Ended

\* The actor that is idle at its end, or crashes.
LEMMA FinishIs ==
    ASSUME ActorInv, NEW a \in Session, Finish(a)
    PROVE  /\ Settled /\ Touches(a, {}) /\ UNCHANGED <<task, call, execQ, ctrlQ>>
           /\ Waiting(a) = {} /\ ~Flying(a)
           /\ actor'[a] = [Unborn EXCEPT !.life = "Ended"] /\ unfinished' \subseteq unfinished
  <1>1. /\ Idle(a) /\ Becomes(a, [Unborn EXCEPT !.life = "Ended"])
        /\ UNCHANGED <<execQ, ctrlQ, task, call>>
        /\ \E shut \in BOOLEAN : IF actor[a].physical THEN Ends(a, shut) ELSE UNCHANGED unfinished
    BY DEF Finish
  <1>2. /\ Typed /\ Running(a) /\ ~Flying(a) /\ actor[a].deferred = <<>>
        /\ execQ[a] = <<>> /\ ctrlQ[a] = <<>>
    BY <1>1 DEF Idle, ActorInv
  <1>3. Waiting(a) = {}  BY <1>2, SmallSeqs DEF Waiting, Work, Control
  <1> DEFINE s == [Unborn EXCEPT !.life = "Ended"]
             D == {}
             q == <<>>
  <1>4. s \in ActorState /\ s.life = "Ended" /\ s.deferred = <<>> /\ s.flight = NoExecution
    BY UnbornTypes, Zenon DEF Unborn, Life
  <1>5. actor' = [actor EXCEPT ![a] = s] /\ actor'[a] = s  BY <1>1, <1>2 DEF Becomes, Typed
  <1>6. execQ' = [execQ EXCEPT ![a] = q] /\ ctrlQ' = [ctrlQ EXCEPT ![a] = q] /\ q \in Seq(Client)
        /\ q = <<>>
    BY <1>1, <1>2 DEF Typed
  <1>7. /\ D \in SUBSET Client /\ \A b \in Session \ {a} : D \cap Waiting(b) = {}
        /\ Elements(q) \subseteq Elements(execQ[a]) \ D /\ Elements(q) \subseteq Elements(ctrlQ[a]) \ D
        /\ Elements(s.deferred) \subseteq Elements(actor[a].deferred) \ D
        /\ Distinct(q) /\ Distinct(s.deferred)
    BY <1>4, SmallSeqs
  <1>8. call' \in [Client -> CallState] /\ \A c \in Client : call'[c] = call[c]
    BY <1>1, <1>2 DEF Typed
  <1>9. \A c \in Client : call'[c] = call[c] \/ (c \in D /\ Replied(c))  BY <1>8
  <1>10. unfinished' \subseteq unfinished  BY <1>1, <1>2, EndsType
  <1>11. s.life # "Unborn"  BY <1>4
  <1> HIDE DEF s, D, q
  <1>12. Touches(a, D)
    BY <1>2, <1>4, <1>5, <1>6, <1>7, <1>8, <1>9, <1>11, TouchesWhen
  <1>13. QED  BY <1>1, <1>2, <1>3, <1>5, <1>10, <1>12 DEF D, s, Settled, Typed

Crashed == [Unborn EXCEPT !.life = "Crashed", !.physical = TRUE]

\* A crash leaves nobody in the queues and answers whom it found there.
LEMMA CrashIs ==
    ASSUME ActorInv, NEW a \in Session, Running(a), NEW served \in SUBSET Waiting(a),
           Crashes(a, served)
    PROVE  /\ Settled /\ (\E D : Touches(a, D)) /\ UNCHANGED <<task, unfinished>>
           /\ actor' = [actor EXCEPT ![a] = Crashed]
           /\ Waiting(a)' = {}
  <1>1. /\ Becomes(a, Crashed) /\ UNCHANGED <<task, unfinished>>
        /\ execQ' = [execQ EXCEPT ![a] = <<>>] /\ ctrlQ' = [ctrlQ EXCEPT ![a] = <<>>]
        /\ Answers(To(served \cup Elements(actor[a].deferred) \cup Elements(execQ[a])
                      \cup Elements(ctrlQ[a]) \cup Pilot(a), "SessionClosed"))
    BY DEF Crashes, Crashed
  <1> DEFINE D == served \cup Elements(actor[a].deferred) \cup Elements(execQ[a])
                  \cup Elements(ctrlQ[a]) \cup Pilot(a)
             reply == To(D, "SessionClosed")
             q == <<>>
  <1>2. Typed  BY DEF ActorInv
  <1>3. /\ Waiting(a) \subseteq Client /\ Pilot(a) \subseteq Client
        /\ \A b \in Session \ {a} : Waiting(a) \cap Waiting(b) = {} /\ Pilot(a) \cap Waiting(b) = {}
    BY WaitersApart
  <1>4. D \subseteq Waiting(a) \cup Pilot(a)  BY DEF Waiting, Work, Control
  <1>5. D \in SUBSET Client /\ \A b \in Session \ {a} : D \cap Waiting(b) = {}
    <2> HIDE DEF D
    <2>1. QED  BY <1>3, <1>4
  <1>6. reply \in [D -> Answer] /\ Answers(reply)
    <2>1. Answers(reply)  BY <1>1
    <2> HIDE DEF D
    <2>2. reply \in [D -> Answer]  BY <1>5, ReplyTypes DEF Answer
    <2>3. QED  BY <2>1, <2>2
  <1> HIDE DEF D, reply
  <1>7. /\ call' \in [Client -> CallState]
        /\ \A c \in Client : call'[c] = call[c] \/ (c \in D /\ Replied(c))
    BY <1>2, <1>5, <1>6, AnswersIs, ZenonT(60)
  <1>8. /\ Crashed \in ActorState /\ Crashed.life = "Crashed" /\ Crashed.deferred = <<>>
        /\ Crashed.flight = NoExecution /\ Crashed.life # "Unborn"
    BY UnbornTypes, Zenon DEF Crashed, Unborn, Life
  <1>9. actor' = [actor EXCEPT ![a] = Crashed] /\ actor'[a] = Crashed
    BY <1>1, <1>2 DEF Becomes, Typed
  <1>10. /\ q \in Seq(Client) /\ q = <<>> /\ execQ' = [execQ EXCEPT ![a] = q]
         /\ ctrlQ' = [ctrlQ EXCEPT ![a] = q]
    BY <1>1
  <1>11. /\ Elements(q) \subseteq Elements(execQ[a]) \ D /\ Elements(q) \subseteq Elements(ctrlQ[a]) \ D
         /\ Elements(Crashed.deferred) \subseteq Elements(actor[a].deferred) \ D
         /\ Distinct(q) /\ Distinct(Crashed.deferred)
    BY <1>8, SmallSeqs
  <1>12. Waiting(a)' = {}
    <2>1. execQ'[a] = <<>> /\ ctrlQ'[a] = <<>> /\ actor'[a].deferred = <<>>
      BY <1>1, <1>2, <1>8, <1>9 DEF Typed
    <2>2. QED  BY <2>1, SmallSeqs DEF Waiting, Work, Control
  <1> HIDE DEF q
  <1>13. Touches(a, D)
    BY <1>5, <1>7, <1>8, <1>9, <1>10, <1>11, TouchesWhen
  <1>14. QED  BY <1>1, <1>2, <1>9, <1>12, <1>13 DEF Settled, Typed

\* A panic is a crash of an actor that runs.
LEMMA PanicIs ==
    ASSUME ActorInv, NEW a \in Session, NEW c, PanicServing(a, c) \/ PanicReleasing(a)
    PROVE  Running(a) /\ \E served \in SUBSET Waiting(a) : Crashes(a, served)
  <1>1. CASE PanicReleasing(a)
    <2>1. Running(a) /\ Crashes(a, {})  BY <1>1 DEF PanicReleasing, Lands, Idle
    <2>2. QED  BY <2>1
  <1>2. CASE PanicServing(a, c)
    <2>1. Crashes(a, {c}) /\ (Due(a, c) \/ ControlDue(a, c))  BY <1>2 DEF PanicServing
    <2>2. CASE Due(a, c)
      <3>1. Running(a) /\ c \in Work(a)  BY <2>2, TakesIs DEF ActorInv
      <3>2. {c} \in SUBSET Waiting(a)  BY <3>1 DEF Waiting
      <3>3. QED  BY <2>1, <3>1, <3>2
    <2>3. CASE ControlDue(a, c)
      <3>1. Running(a) /\ ctrlQ[a] # <<>> /\ c = Head(ctrlQ[a]) /\ ctrlQ[a] \in Seq(Client)
        BY <2>3 DEF ControlDue, ActorInv, Typed
      <3>2. {c} \in SUBSET Waiting(a)  BY <3>1, SeqTail DEF Waiting, Control
      <3>3. QED  BY <2>1, <3>1, <3>2
    <2>4. QED  BY <2>1, <2>2, <2>3
  <1>3. QED  BY <1>1, <1>2

--------------------------------------------------------------------------------
(* Executions.                                                                  *)

\* Everything that is said of executions.
TasksOK == PostedOK /\ FlightsOK /\ OneExecutionAtATime

\* What is posted stays posted if nobody who still waits for it finds it changed.
LEMMA PostedKeeps ==
    ASSUME ActorInv, NEW a \in Session, NEW D, Touches(a, D),
           \A b \in Session : \A c \in Work(b)' : call[c].exec \in Execution =>
               /\ task'[call[c].exec].stage = task[call[c].exec].stage
               /\ task'[call[c].exec].on = task[call[c].exec].on
    PROVE  PostedOK'
  <1>1. \A b \in Session : Work(b)' \subseteq Work(b) /\ \A c \in Waiting(b)' : call'[c] = call[c]
    BY TouchesKeeps
  <1>2. \A b \in Session : Work(b) \subseteq Client  BY WaitersApart DEF Waiting
  <1> SUFFICES ASSUME NEW b \in Session, NEW c \in Work(b)', call'[c].exec # NoExecution
               PROVE  /\ task'[call'[c].exec].stage = "Posted" /\ task'[call'[c].exec].on = b
                      /\ \A d \in Work(b)' : call'[d].exec = call'[c].exec => d = c
    BY DEF PostedOK
  <1>3. \A d \in Work(b)' : d \in Work(b) /\ call'[d] = call[d]  BY <1>1 DEF Waiting
  <1>4. c \in Client /\ call[c].exec \in Execution
    BY <1>2, <1>3, CallStateIs DEF ActorInv, Typed
  <1>5. task[call[c].exec].stage = "Posted" /\ task[call[c].exec].on = b
        /\ \A d \in Work(b) : call[d].exec = call[c].exec => d = c
    BY <1>3 DEF ActorInv, PostedOK
  <1>6. QED  BY <1>3, <1>4, <1>5

\* The step does nothing to the executions.
LEMMA TasksKept ==
    ASSUME ActorInv, OneExecutionAtATime, NEW a \in Session, NEW D, Touches(a, D), task' = task,
           actor'[a].flight = actor[a].flight
    PROVE  TasksOK'
  <1>1. PostedOK'  BY PostedKeeps
  <1>2. \A b \in Session : actor'[b].flight = actor[b].flight  BY TouchesKeeps
  <1>3. \A b \in Session : actor[b].life = "Crashed" => actor'[b].life = "Crashed"
    BY TouchesKeeps DEF Touches, Running
  <1>4. FlightsOK'
    BY <1>2, <1>3 DEF FlightsOK, Flying, ActorInv
  <1>5. OneExecutionAtATime'  BY DEF OneExecutionAtATime
  <1>6. QED  BY <1>1, <1>4, <1>5 DEF TasksOK

\* One execution changes, and it keeps its session.
LEMMA TaskChanges ==
    ASSUME ActorInv, OneExecutionAtATime, NEW a \in Session, NEW D, Touches(a, D),
           NEW e \in Execution, NEW t, t.on = task[e].on, task' = [task EXCEPT ![e] = t],
           \/ t.stage = task[e].stage
           \/ \A b \in Session : \A c \in Work(b)' : call[c].exec # e,
           \* it runs exactly if it flies
           actor'[a].flight = e => t.stage = "Running" /\ t.on = a,
           t.stage = "Running" => task[e].on = a /\ actor'[a].flight = e,
           task[e].stage = "Running" => t.stage = "Running" \/ actor[a].flight = e,
           t.handle = "Bound" /\ t.asked => t.told,
           \* and the others as before
           actor'[a].flight \in {e, NoExecution}, actor[a].flight \in {e, NoExecution}
    PROVE  TasksOK'
  <1>1. task \in [Execution -> TaskState] /\ task'[e] = t /\ \A f \in Execution : f # e => task'[f] = task[f]
    BY DEF ActorInv, Typed
  <1>2. PostedOK'
    <2>1. \A b \in Session : \A c \in Work(b)' : call[c].exec \in Execution =>
               /\ task'[call[c].exec].stage = task[call[c].exec].stage
               /\ task'[call[c].exec].on = task[call[c].exec].on
      BY <1>1
    <2>2. QED  BY <2>1, PostedKeeps
  <1>3. \A b \in Session : b # a => actor'[b] = actor[b]  BY TouchesKeeps
  <1>4. Running(a)  BY DEF Touches
  <1>5. ASSUME NEW b \in Session, Flying(b)'
        PROVE  task'[actor'[b].flight].stage = "Running" /\ task'[actor'[b].flight].on = b
    <2>1. CASE b = a
      <3>1. actor'[a].flight = e  BY <1>5, <2>1 DEF Flying
      <3>2. QED  BY <1>1, <2>1, <3>1
    <2>2. CASE b # a
      <3>1. Flying(b) /\ actor'[b].flight = actor[b].flight  BY <1>3, <1>5, <2>2 DEF Flying
      <3>2. /\ task[actor[b].flight].stage = "Running" /\ task[actor[b].flight].on = b
            /\ actor[b].flight \in Execution
        BY <3>1, ActorStateIs DEF ActorInv, FlightsOK, Typed, Flying
      <3>3. CASE actor[b].flight = e
        <4>1. task[e].on = b /\ task[e].stage = "Running"  BY <3>2, <3>3
        <4>2. t.stage # "Running" => FALSE
          <5>1. actor[a].flight = e => task[e].on = a
            BY ActorAssumption DEF ActorInv, FlightsOK, Flying
          <5>2. QED  BY <2>2, <4>1, <5>1
        <4>3. QED  BY <1>1, <2>2, <3>1, <3>3, <4>1, <4>2
      <3>4. QED  BY <1>1, <3>1, <3>2, <3>3
    <2>3. QED  BY <2>1, <2>2
  <1>6. ASSUME NEW f \in Execution, task'[f].stage = "Running"
        PROVE  /\ task'[f].on \in Session
               /\ actor'[task'[f].on].flight = f \/ actor'[task'[f].on].life = "Crashed"
    <2>1. CASE f = e  BY <1>1, <1>6, <2>1
    <2>2. CASE f # e
      <3>1. /\ task[f].stage = "Running" /\ task'[f].on = task[f].on /\ task[f].on \in Session
            /\ actor[task[f].on].flight = f \/ actor[task[f].on].life = "Crashed"
        BY <1>1, <1>6, <2>2 DEF ActorInv, FlightsOK
      <3>2. CASE task[f].on = a
        <4>1. actor[a].flight = f  BY <1>4, <3>1, <3>2 DEF Running
        <4>2. QED  BY <4>1, <2>2, ActorAssumption
      <3>3. QED  BY <1>3, <3>1, <3>2
    <2>3. QED  BY <2>1, <2>2
  <1>7. ASSUME NEW f \in Execution, task'[f].handle = "Bound", task'[f].asked PROVE task'[f].told
    BY <1>1, <1>7 DEF ActorInv, FlightsOK
  <1>8. FlightsOK'  BY <1>5, <1>6, <1>7 DEF FlightsOK
  <1>9. OneExecutionAtATime'
    <2>1. ASSUME NEW f \in Execution, f # e, t.stage = "Running", task[f].stage = "Running",
                 t.on = task[f].on
          PROVE  FALSE
      <3>1. task[f].on = a  BY <2>1
      <3>2. actor[a].flight = f  BY <1>4, <2>1, <3>1 DEF ActorInv, FlightsOK, Running
      <3>3. QED  BY <2>1, <3>2, ActorAssumption
    <2>2. ASSUME NEW f \in Execution, NEW g \in Execution, task'[f].stage = "Running",
                 task'[g].stage = "Running", task'[f].on = task'[g].on
          PROVE  f = g
      <3>1. CASE f = e  BY <1>1, <2>1, <2>2, <3>1
      <3>2. CASE g = e  BY <1>1, <2>1, <2>2, <3>2
      <3>3. CASE f # e /\ g # e  BY <1>1, <2>2, <3>3, SMTT(60) DEF OneExecutionAtATime
      <3>4. QED  BY <3>1, <3>2, <3>3
    <2>3. QED  BY <2>2 DEF OneExecutionAtATime
  <1>10. QED  BY <1>2, <1>8, <1>9 DEF TasksOK

--------------------------------------------------------------------------------
(* The kinds of steps at a queue.                                               *)

OnlyAnswers(c, x) ==
    \A d \in Client :
        \/ call'[d] = call[d]
        \/ /\ d = c /\ call[c].stage = "Sent"
           /\ \/ call[c].plan \in Relays /\ call'[c] = Out
              \/ /\ call[c].plan \notin Relays
                 /\ call'[c] = [call[c] EXCEPT !.stage = "Answered", !.answer = x]

Same(s, n) ==
    n.physical = s.physical /\ n.tx = s.tx /\ n.handles = s.handles /\ n.life = s.life

Opens(a, c) ==
    /\ call[c].op = "Open" /\ ~Flying(a) /\ actor'[a].flight = NoExecution
    /\ actor'[a].physical = TRUE /\ c \notin Work(a)'
    /\ OnlyAnswers(c, "Ok") /\ UNCHANGED <<task, unfinished>>

\* Close and Evict that go through.
Closes(a, c) ==
    /\ call[c].op \in {"Close", "Evict"} /\ ~Flying(a) /\ UNCHANGED task
    /\ call[c].op = "Close" => ~Rejected(actor[a], call[c].mode)
    /\ actor[a].physical \/ call[c].op = "Evict"
    /\ \E exact, shut \in BOOLEAN :
          /\ actor'[a] = Released(Taken(a), exact, shut)
          /\ Answers(WithDropped({c}, Outcome(Taken(a), exact, shut), Elements(Taken(a).deferred)))
          /\ Ends(a, shut)

\* A refusal of the actor: the message had no effect.
Refuses(a, c) ==
    /\ Same(actor[a], actor'[a]) /\ ~Flying(a) /\ actor'[a].flight = NoExecution
    /\ c \notin Work(a)' /\ call[c].op \notin {"Open", "View"}
    /\ \E x \in {"CloseRejected", "SessionClosed", "ContextRevisionMismatch"} : OnlyAnswers(c, x)
    /\ call[c].op = "Close" => actor[a].physical = FALSE \/ call[c].mode = "RequireNoTransaction"
    /\ UNCHANGED unfinished
    /\ \/ UNCHANGED task
       \/ call[c].exec # NoExecution /\ task' = [task EXCEPT ![call[c].exec].stage = "Refused"]

Starts(a, c) ==
    /\ Same(actor[a], actor'[a]) /\ ~Flying(a) /\ actor'[a].flight = call[c].exec
    /\ c \notin Work(a)' /\ call[c].op \in Executes
    /\ task' = [task EXCEPT ![call[c].exec].stage = "Running"]
    /\ UNCHANGED <<unfinished, call>>

\* Nothing that counts here.
Passes(a, c) ==
    /\ Same(actor[a], actor'[a]) /\ actor'[a].flight = actor[a].flight
    /\ \E x \in Answer : OnlyAnswers(c, x) /\ (call[c].op \in {"Open", "Evict"} => x # "Ok" /\ x # "SessionLost")
    /\ call[c].op = "Close" => UNCHANGED call
    /\ UNCHANGED <<task, unfinished>>

\* One caller is answered.
LEMMA OneAnswer ==
    ASSUME Typed, NEW c \in Client, NEW x \in Answer, Answers(To({c}, x))
    PROVE  OnlyAnswers(c, x)
  <1> DEFINE D == {c}
             reply == To({c}, x)
  <1>1. D \in SUBSET Client /\ reply \in [D -> Answer] /\ Answers(reply) /\ reply[c] = x
        /\ \A d : d \in D <=> d = c
    BY ReplyTypes DEF To
  <1> HIDE DEF D, reply
  <1>2. /\ \A d \in Client \ D : call'[d] = call[d]
        /\ \A d \in D : IF call[d].stage = "Sent"
                        THEN /\ Replied(d)
                             /\ call[d].plan \notin Relays =>
                                  call'[d] = [call[d] EXCEPT !.stage = "Answered", !.answer = reply[d]]
                        ELSE call'[d] = call[d]
    BY <1>1, AnswersIs, ZenonT(60)
  <1> SUFFICES ASSUME NEW d \in Client, call'[d] # call[d]
               PROVE  /\ d = c /\ call[c].stage = "Sent"
                      /\ \/ call[c].plan \in Relays /\ call'[c] = Out
                         \/ /\ call[c].plan \notin Relays
                            /\ call'[c] = [call[c] EXCEPT !.stage = "Answered", !.answer = x]
    BY DEF OnlyAnswers
  <1>3. d = c /\ call[c].stage = "Sent" /\ Replied(c)  BY <1>1, <1>2
  <1>4. QED  BY <1>1, <1>2, <1>3 DEF Replied

\* Who was taken waits no more.
LEMMA TakenOut ==
    ASSUME ActorInv, NEW a \in Session, NEW c, Takes(a, c), NEW s,
           actor' = [actor EXCEPT ![a] = s], s.deferred = Taken(a).deferred
    PROVE  c \notin Work(a)' /\ actor'[a] = s
  <1>1. actor'[a] = s /\ Due(a, c)  BY DEF ActorInv, Typed, Takes
  <1>2. c \notin Elements(Taken(a).deferred) /\ c \notin Elements(execQ'[a])
    BY <1>1, TakesIs DEF ActorInv
  <1>3. QED  BY <1>1, <1>2 DEF Work

\* What the messages of the queue of executions do to the books.
LEMMA QueuedKinds ==
    ASSUME ActorInv, NEW a \in Session, NEW c, Queued(a, c)
    PROVE  /\ c \in Client /\ c \in Work(a) /\ Running(a) /\ actor'[a].life = "Running"
           /\ Opens(a, c) \/ Closes(a, c) \/ Refuses(a, c) \/ Starts(a, c) \/ Passes(a, c)
  <1>0. Typed /\ actor[a] \in ActorState  BY DEF ActorInv, Typed
  <1>1. ASSUME Takes(a, c)
        PROVE  /\ c \in Client /\ c \in Work(a) /\ Running(a) /\ ~Flying(a)
               /\ Taken(a) \in ActorState /\ Taken(a).flight = NoExecution
               /\ Same(actor[a], Taken(a)) /\ Taken(a).life = "Running"
               /\ Becomes(a, Taken(a)) => c \notin Work(a)' /\ actor'[a] = Taken(a)
    <2>1. /\ c \in Client /\ c \in Work(a) /\ Running(a) /\ ~Flying(a)
          /\ Taken(a) \in ActorState /\ Taken(a).flight = NoExecution
          /\ Same(actor[a], Taken(a)) /\ Taken(a).life = "Running"
      BY <1>1, TakenIs DEF Same, Running
    <2>2. Becomes(a, Taken(a)) => c \notin Work(a)' /\ actor'[a] = Taken(a)
      BY <1>1, TakenOut, Zenon DEF Becomes
    <2>3. QED  BY <2>1, <2>2
  <1>2. CASE Open(a, c)
    <2>1. Takes(a, c) /\ call[c].op = "Open" /\ UNCHANGED <<ctrlQ, task, unfinished>>
      BY <1>2 DEF Open, Serves
    <2> DEFINE s == [Taken(a) EXCEPT !.physical = TRUE, !.view = "Ready", !.revision = 1]
    <2>2. CASE Becomes(a, s) /\ Answers(To({c}, "Ok"))
      <3>1. s.deferred = Taken(a).deferred /\ s.life = Taken(a).life
        BY <1>1, <2>1, ActorStays, Zenon DEF Stays
      <3>2. s.flight = NoExecution /\ s.physical = TRUE  BY <1>1, <2>1 DEF ActorState
      <3>3. actor' = [actor EXCEPT ![a] = s]  BY <2>2 DEF Becomes
      <3> HIDE DEF s
      <3>4. c \notin Work(a)' /\ actor'[a] = s  BY <2>1, <3>1, <3>3, TakenOut
      <3>5. OnlyAnswers(c, "Ok")  BY <1>0, <1>1, <2>1, <2>2, OneAnswer DEF Answer
      <3>6. Opens(a, c)  BY <1>1, <2>1, <3>2, <3>4, <3>5 DEF Opens
      <3>7. QED  BY <1>1, <2>1, <3>1, <3>4, <3>6
    <2>3. CASE Becomes(a, Taken(a)) /\ Answers(To({c}, "OpenFailed"))
      <3>1. "OpenFailed" \in Answer  BY DEF Answer
      <3>2. OnlyAnswers(c, "OpenFailed")  BY <1>0, <1>1, <2>1, <2>3, <3>1, OneAnswer
      <3>3. Passes(a, c)  BY <1>1, <2>1, <2>3, <3>1, <3>2 DEF Passes, Flying
      <3>4. QED  BY <1>1, <2>1, <2>3, <3>3
    <2>4. QED  BY <1>2, <2>2, <2>3 DEF Open
  <1>3. CASE ReadView(a, c)
    <2>1. Takes(a, c) /\ UNCHANGED <<ctrlQ, task, unfinished>> /\ Becomes(a, Taken(a))
          /\ Answers(To({c}, Read(actor[a]))) /\ call[c].op = "View"
      BY <1>3 DEF ReadView, Serves
    <2>2. Read(actor[a]) \in Answer  BY DEF Read, Answer
    <2>3. OnlyAnswers(c, Read(actor[a]))  BY <1>0, <1>1, <2>1, <2>2, OneAnswer
    <2>4. Passes(a, c)  BY <1>1, <2>1, <2>2, <2>3 DEF Passes, Flying
    <2>5. QED  BY <1>1, <2>1, <2>4
  <1>4. CASE Refuse(a, c)
    <2>1. Takes(a, c) /\ UNCHANGED <<ctrlQ, unfinished>> /\ Becomes(a, Taken(a))
          /\ call[c].op \notin {"Open", "View"}
      BY <1>4 DEF Refuse
    <2>2. PICK x \in {"CloseRejected", "SessionClosed", "ContextRevisionMismatch"} : Answers(To({c}, x))
      BY <1>4 DEF Refuse, Refusal
    <2>3. x \in Answer  BY DEF Answer
    <2>4. OnlyAnswers(c, x)  BY <1>0, <1>1, <2>1, <2>2, <2>3, OneAnswer
    <2>5. call[c].op = "Close" => actor[a].physical = FALSE \/ call[c].mode = "RequireNoTransaction"
      <3>1. actor[a].physical \in BOOLEAN  BY <1>0, ActorStateIs
      <3>2. QED  BY <1>4, <3>1 DEF Refuse, Refusal, Rejected, Gated
    <2>6. \/ UNCHANGED task
          \/ call[c].exec # NoExecution /\ task' = [task EXCEPT ![call[c].exec].stage = "Refused"]
      BY <1>4 DEF Refuse
    <2>7. Refuses(a, c)
      BY <1>1, <2>1, <2>2, <2>4, <2>5, <2>6 DEF Refuses
    <2>8. QED  BY <1>1, <2>1, <2>7
  <1>5. CASE StartExecution(a, c)
    <2> DEFINE s == [Taken(a) EXCEPT !.view = "Executing", !.flight = call[c].exec]
    <2>1. /\ Takes(a, c) /\ UNCHANGED <<ctrlQ, unfinished, call>> /\ Becomes(a, s)
          /\ call[c].op \in Executes /\ task' = [task EXCEPT ![call[c].exec].stage = "Running"]
      BY <1>5 DEF StartExecution, Executes
    <2>2. s.deferred = Taken(a).deferred /\ s.flight = call[c].exec /\ Same(Taken(a), s)
      BY <1>1, <2>1 DEF ActorState, Same
    <2>3. actor' = [actor EXCEPT ![a] = s]  BY <2>1 DEF Becomes
    <2> HIDE DEF s
    <2>4. c \notin Work(a)' /\ actor'[a] = s  BY <2>1, <2>2, <2>3, TakenOut
    <2>5. Starts(a, c) /\ actor'[a].life = "Running"
      BY <1>1, <2>1, <2>2, <2>4 DEF Starts, Same
    <2>6. QED  BY <1>1, <2>1, <2>5
  <1>6. CASE SetIdleDeadline(a, c)
    <2> DEFINE s == [Taken(a) EXCEPT !.deadline = call[c].arms]
    <2>1. /\ Takes(a, c) /\ UNCHANGED <<ctrlQ, task, unfinished>> /\ Becomes(a, s)
          /\ Answers(To({c}, "Ok")) /\ call[c].op = "SetIdleDeadline"
      BY <1>6 DEF SetIdleDeadline, Serves
    <2>2. s.flight = NoExecution /\ Same(Taken(a), s)  BY <1>1, <2>1 DEF ActorState, Same
    <2>3. actor'[a] = s  BY <1>0, <2>1 DEF Becomes, Typed
    <2> HIDE DEF s
    <2>4. "Ok" \in Answer  BY DEF Answer
    <2>5. OnlyAnswers(c, "Ok")  BY <1>0, <1>1, <2>1, <2>4, OneAnswer
    <2>6. Passes(a, c) /\ actor'[a].life = "Running"
      BY <1>1, <2>1, <2>2, <2>3, <2>4, <2>5 DEF Passes, Same, Flying
    <2>7. QED  BY <1>1, <2>1, <2>6
  <1>7. ASSUME Takes(a, c), call[c].op \in {"Close", "Evict"}, UNCHANGED <<ctrlQ, task>>,
               call[c].op = "Close" => ~Rejected(actor[a], call[c].mode),
               actor[a].physical \/ call[c].op = "Evict",
               \E exact, shut \in BOOLEAN :
                  /\ Becomes(a, Released(Taken(a), exact, shut))
                  /\ Answers(WithDropped({c}, Outcome(Taken(a), exact, shut),
                                         Elements(Taken(a).deferred)))
                  /\ Ends(a, shut)
        PROVE  Closes(a, c) /\ actor'[a].life = "Running"
    <2>1. PICK exact, shut \in BOOLEAN :
                  /\ Becomes(a, Released(Taken(a), exact, shut))
                  /\ Answers(WithDropped({c}, Outcome(Taken(a), exact, shut),
                                         Elements(Taken(a).deferred)))
                  /\ Ends(a, shut)
      BY <1>7
    <2>2. actor'[a] = Released(Taken(a), exact, shut)  BY <1>0, <2>1 DEF Becomes, Typed
    <2> DEFINE l == Taken(a)
    <2>a. l \in ActorState /\ l.life = "Running"  BY <1>1, <1>7
    <2> HIDE DEF l
    <2>b. Released(l, exact, shut).life = "Running"  BY <2>a, ReleasedIs, ZenonT(60)
    <2>3. Released(Taken(a), exact, shut).life = "Running"  BY <2>b DEF l
    <2>4. QED  BY <1>1, <1>7, <2>1, <2>2, <2>3 DEF Closes
  <1>8. CASE Close(a, c)
    <2>1. Takes(a, c) /\ UNCHANGED <<ctrlQ, task>> /\ call[c].op = "Close"
          /\ ~Rejected(actor[a], call[c].mode) /\ actor[a].physical
      BY <1>8 DEF Close, Serves, Refusal
    <2>2. \E exact, shut \in BOOLEAN :
             /\ Becomes(a, Released(Taken(a), exact, shut))
             /\ Answers(WithDropped({c}, Outcome(Taken(a), exact, shut), Elements(Taken(a).deferred)))
             /\ Ends(a, shut)
      BY <1>8 DEF Close
    <2>3. QED  BY <1>1, <1>7, <2>1, <2>2
  <1>9. CASE Evict(a, c)
    <2>1. Takes(a, c) /\ UNCHANGED <<ctrlQ, task>> /\ call[c].op = "Evict"
      BY <1>9 DEF Evict, Serves
    <2>2. CASE Becomes(a, Taken(a)) /\ Answers(To({c}, "NotDue")) /\ UNCHANGED unfinished
      <3>1. "NotDue" \in Answer  BY DEF Answer
      <3>2. OnlyAnswers(c, "NotDue")  BY <1>0, <1>1, <2>1, <2>2, <3>1, OneAnswer
      <3>3. Passes(a, c)  BY <1>1, <2>1, <2>2, <3>1, <3>2 DEF Passes, Flying
      <3>4. QED  BY <1>1, <2>1, <2>2, <3>3
    <2>3. CASE \E exact, shut \in BOOLEAN :
            /\ Becomes(a, Released(Taken(a), exact, shut))
            /\ Answers(WithDropped({c}, Outcome(Taken(a), exact, shut), Elements(Taken(a).deferred)))
            /\ Ends(a, shut)
      BY <1>1, <1>7, <2>1, <2>3
    <2>4. QED  BY <1>9, <2>2, <2>3 DEF Evict
  <1>10. CASE Hold(a, c)
    <2> DEFINE s == [Taken(a) EXCEPT !.hold = actor[a].view, !.view = "Closing"]
    <2>1. /\ Takes(a, c) /\ UNCHANGED <<ctrlQ, task, unfinished>>
          /\ Becomes(a, Taken(a)) \/ Becomes(a, s)
          /\ Answers(To({c}, "Ok")) /\ call[c].op = "Hold"
      BY <1>10 DEF Hold, Serves
    <2>2. s.flight = NoExecution /\ Same(Taken(a), s)  BY <1>1, <2>1 DEF ActorState, Same
    <2> HIDE DEF s
    <2>3. actor'[a] = s \/ actor'[a] = Taken(a)  BY <1>0, <2>1 DEF Becomes, Typed
    <2>4. "Ok" \in Answer  BY DEF Answer
    <2>5. OnlyAnswers(c, "Ok")  BY <1>0, <1>1, <2>1, <2>4, OneAnswer
    <2>6. Passes(a, c) /\ actor'[a].life = "Running"
      BY <1>1, <2>1, <2>2, <2>3, <2>4, <2>5 DEF Passes, Same, Flying
    <2>7. QED  BY <1>1, <2>1, <2>6
  <1>11. CASE Resume(a, c)
    <2> DEFINE s == [Taken(a) EXCEPT !.hold = "Down", !.view = actor[a].hold]
    <2>1. /\ Takes(a, c) /\ UNCHANGED <<ctrlQ, task, unfinished>>
          /\ Becomes(a, Taken(a)) \/ Becomes(a, s)
          /\ Answers(To({c}, "Ok")) /\ call[c].op = "Resume"
      BY <1>11 DEF Resume, Serves
    <2>2. s.flight = NoExecution /\ Same(Taken(a), s)  BY <1>1, <2>1 DEF ActorState, Same
    <2> HIDE DEF s
    <2>3. actor'[a] = s \/ actor'[a] = Taken(a)  BY <1>0, <2>1 DEF Becomes, Typed
    <2>4. "Ok" \in Answer  BY DEF Answer
    <2>5. OnlyAnswers(c, "Ok")  BY <1>0, <1>1, <2>1, <2>4, OneAnswer
    <2>6. Passes(a, c) /\ actor'[a].life = "Running"
      BY <1>1, <2>1, <2>2, <2>3, <2>4, <2>5 DEF Passes, Same, Flying
    <2>7. QED  BY <1>1, <2>1, <2>6
  <1>12. CASE PutOff(a, c)
    <2>1. /\ Running(a) /\ execQ[a] # <<>> /\ c = Head(execQ[a]) /\ execQ[a] \in Seq(Client)
          /\ UNCHANGED <<ctrlQ, task, unfinished>>
      BY <1>0, <1>12 DEF PutOff, TakesInFlight, Typed
    <2>2. c \in Client /\ c \in Work(a)  BY <2>1, SeqTail DEF Work
    <2>3. CASE \E x \in Answer : Answers(To({c}, x)) /\ UNCHANGED actor
                 /\ call[c].op \in {"View", "Evict"} /\ (call[c].op = "Evict" => x = "NotDue")
      <3>1. PICK x \in Answer : Answers(To({c}, x)) /\ UNCHANGED actor
                 /\ call[c].op \in {"View", "Evict"} /\ (call[c].op = "Evict" => x = "NotDue")
        BY <2>3
      <3>2. OnlyAnswers(c, x)  BY <1>0, <2>2, <3>1, OneAnswer
      <3>3. Passes(a, c)  BY <2>1, <3>1, <3>2 DEF Passes, Same
      <3>4. QED  BY <2>1, <2>2, <3>1, <3>3 DEF Running
    <2>4. CASE /\ Becomes(a, [actor[a] EXCEPT !.deferred = Append(@, c)]) /\ UNCHANGED call
               /\ call[c].op \notin {"View", "Evict"}
      <3> DEFINE s == [actor[a] EXCEPT !.deferred = Append(@, c)]
      <3>1. Same(actor[a], s) /\ s.flight = actor[a].flight  BY <1>0 DEF ActorState, Same
      <3>2. actor'[a] = s  BY <1>0, <2>4 DEF Becomes, Typed
      <3> HIDE DEF s
      <3>3. "NotDue" \in Answer /\ OnlyAnswers(c, "NotDue")
        BY <2>4 DEF OnlyAnswers, Answer
      <3>4. Passes(a, c)  BY <2>1, <2>4, <3>1, <3>2, <3>3 DEF Passes
      <3>5. QED  BY <2>1, <2>2, <3>1, <3>2, <3>4 DEF Same, Running
    <2>5. Read(actor[a]) \in Answer /\ "NotDue" \in Answer  BY DEF Read, Answer
    <2>6. QED  BY <1>12, <2>3, <2>4, <2>5 DEF PutOff
  <1>13. QED
    BY <1>2, <1>3, <1>4, <1>5, <1>6, <1>8, <1>9, <1>10, <1>11, <1>12 DEF Queued

\* An execution that starts, or never does.
LEMMA QueuedTasks ==
    ASSUME ActorInv, OneExecutionAtATime, NEW a \in Session, NEW c, Queued(a, c)
    PROVE  TasksOK'
  <1>1. PICK D : Touches(a, D)  BY QueuedTouches
  <1>2. /\ c \in Client /\ c \in Work(a) /\ Running(a) /\ actor'[a].life = "Running"
        /\ Opens(a, c) \/ Closes(a, c) \/ Refuses(a, c) \/ Starts(a, c) \/ Passes(a, c)
    BY QueuedKinds
  <1>3. ActorInv /\ Typed /\ actor[a] \in ActorState /\ call[c] \in CallState /\ Shape(call[c])
    BY <1>2, Callers DEF ActorInv, Typed
  <1> DEFINE e == call[c].exec
  <1>4. ASSUME e # NoExecution
        PROVE  /\ e \in Execution /\ task[e].stage = "Posted" /\ task[e].on = a
               /\ \A b \in Session : \A d \in Work(b) : call[d].exec = e => d = c
    <2>1. e \in Execution  BY <1>3, <1>4, CallStateIs
    <2>2. task[e].stage = "Posted" /\ task[e].on = a
          /\ \A d \in Work(a) : call[d].exec = e => d = c
      BY <1>2, <1>3, <1>4 DEF ActorInv, PostedOK
    <2>3. ASSUME NEW b \in Session, NEW d \in Work(b), call[d].exec = e PROVE d = c
      <3>1. task[e].on = b  BY <1>3, <1>4, <2>3 DEF ActorInv, PostedOK
      <3>2. QED  BY <2>2, <2>3, <3>1
    <2>4. QED  BY <2>1, <2>2, <2>3
  <1>5. ASSUME e # NoExecution, ~Flying(a), c \notin Work(a)',
               NEW stage, task' = [task EXCEPT ![e].stage = stage], stage # "Posted",
               actor'[a].flight \in {e, NoExecution},
               stage = "Running" <=> actor'[a].flight = e
        PROVE  TasksOK'
    <2> DEFINE t == [task[e] EXCEPT !.stage = stage]
    <2>1. task[e] \in TaskState  BY <1>3, <1>4, <1>5 DEF Typed
    <2>2. t.stage = stage /\ t.on = task[e].on /\ t.handle = task[e].handle
          /\ t.asked = task[e].asked /\ t.told = task[e].told
      BY <2>1, TaskStateIs
    <2>3. task' = [task EXCEPT ![e] = t]  BY <1>5
    <2>4. \A b \in Session : \A d \in Work(b)' : call[d].exec # e
      <3>1. \A b \in Session : Work(b)' \subseteq Work(b)  BY <1>1, <1>3, TouchesKeeps
      <3>2. \A b \in Session : b # a => c \notin Work(b)
        BY <1>2, <1>3, WaitersApart DEF Waiting
      <3>3. QED  BY <1>4, <1>5, <3>1, <3>2
    <2>5. t.handle = "Bound" /\ t.asked => t.told
      BY <1>3, <1>4, <1>5, <2>2 DEF ActorInv, FlightsOK
    <2>6. e \in Execution /\ task[e].stage = "Posted" /\ task[e].on = a  BY <1>4, <1>5
    <2>7. actor[a].flight = NoExecution  BY <1>5 DEF Flying
    <2>8. actor'[a].flight \in {e, NoExecution} /\ (stage = "Running" <=> actor'[a].flight = e)
      BY <1>5
    <2> HIDE DEF t, e
    <2>9. QED  BY <1>1, <1>3, <2>2, <2>3, <2>4, <2>5, <2>6, <2>7, <2>8, TaskChanges
  <1>6. ASSUME task' = task, actor'[a].flight = actor[a].flight PROVE TasksOK'
    BY <1>1, <1>6, TasksKept
  <1>7. CASE Opens(a, c)  BY <1>6, <1>7 DEF Opens, Flying
  <1>8. CASE Closes(a, c)
    <2>1. PICK exact, shut \in BOOLEAN : actor'[a] = Released(Taken(a), exact, shut)
      BY <1>8 DEF Closes
    <2>2. Taken(a) \in ActorState /\ Taken(a).flight = actor[a].flight
      <3>1. Due(a, c)  BY <1>8, <1>2, <1>1 DEF Closes, Queued, PutOff, TakesInFlight, Flying
      <3>2. Taken(a) \in ActorState /\ Taken(a) = [actor[a] EXCEPT !.deferred = Taken(a).deferred]
        BY <1>3, <3>1, TakesIs DEF ActorInv
      <3> DEFINE q == Taken(a).deferred
      <3> HIDE DEF q
      <3>3. Taken(a) = [actor[a] EXCEPT !.deferred = q]  BY <3>2 DEF q
      <3>4. [actor[a] EXCEPT !.deferred = q].flight = actor[a].flight  BY <1>3 DEF ActorState
      <3>5. QED  BY <3>2, <3>3, <3>4
    <2> DEFINE l == Taken(a)
    <2> HIDE DEF l
    <2>3. l \in ActorState  BY <2>2 DEF l
    <2>4. Released(l, exact, shut).flight = l.flight  BY <2>3, ReleasedIs, ZenonT(60)
    <2>5. actor'[a].flight = actor[a].flight  BY <2>1, <2>2, <2>4 DEF l
    <2>6. QED  BY <1>6, <1>8, <2>5 DEF Closes
  <1>9. CASE Refuses(a, c)
    <2>1. CASE task' = task  BY <1>6, <1>9, <2>1 DEF Refuses, Flying
    <2>2. CASE e # NoExecution /\ task' = [task EXCEPT ![e].stage = "Refused"]
      <3>1. ~Flying(a) /\ actor'[a].flight = NoExecution /\ c \notin Work(a)'  BY <1>9 DEF Refuses
      <3>2. "Refused" # "Posted" /\ ("Refused" = "Running" <=> NoExecution = e)  BY <2>2
      <3> HIDE DEF e
      <3>3. QED  BY <1>5, <2>2, <3>1, <3>2
    <2>3. QED  BY <1>9, <2>1, <2>2 DEF Refuses
  <1>10. CASE Starts(a, c)
    <2>1. e \in Execution  BY <1>3, <1>10, OpPlan DEF Starts
    <2>2. e # NoExecution  BY <2>1, ActorAssumption
    <2>3. QED  BY <1>5, <1>10, <2>2 DEF Starts
  <1>11. CASE Passes(a, c)  BY <1>6, <1>11 DEF Passes
  <1>12. QED  BY <1>2, <1>7, <1>8, <1>9, <1>10, <1>11

\* An execution that flies: nobody who waits has posted it.
LEMMA FlightIs ==
    ASSUME ActorInv, NEW a \in Session, Flying(a)
    PROVE  LET e == actor[a].flight IN
           /\ e \in Execution /\ task[e] \in TaskState
           /\ task[e].stage = "Running" /\ task[e].on = a
           /\ \A b \in Session : \A c \in Work(b) : call[c].exec # e
  <1> DEFINE e == actor[a].flight
  <1>1. e \in Execution /\ task[e].stage = "Running" /\ task[e].on = a
    BY ActorStateIs DEF ActorInv, Typed, FlightsOK, Flying
  <1>2. task[e] \in TaskState  BY <1>1 DEF ActorInv, Typed
  <1>3. \A b \in Session : \A c \in Work(b) : call[c].exec # e
    <2> HIDE DEF e
    <2>1. e # NoExecution  BY <1>1, ActorAssumption
    <2>2. QED  BY <1>1, <2>1 DEF ActorInv, PostedOK
  <1>4. QED  BY <1>1, <1>2, <1>3

\* A change to what is known of the execution that flies.
LEMMA FlightChanges ==
    ASSUME ActorInv, OneExecutionAtATime, NEW a \in Session, NEW D, Touches(a, D), Flying(a),
           actor'[a].flight = actor[a].flight,
           NEW t \in TaskState, t.stage = "Running", t.on = a,
           t.handle = "Bound" /\ t.asked => t.told,
           task' = [task EXCEPT ![actor[a].flight] = t]
    PROVE  TasksOK'
  <1> DEFINE e == actor[a].flight
  <1>1. e \in Execution /\ task[e].stage = "Running" /\ task[e].on = a  BY FlightIs
  <1>2. actor'[a].flight = e /\ actor[a].flight = e /\ task' = [task EXCEPT ![e] = t]  OBVIOUS
  <1> HIDE DEF e
  <1>3. /\ t.on = task[e].on /\ t.stage = task[e].stage
        /\ actor'[a].flight = e => t.stage = "Running" /\ t.on = a
        /\ t.stage = "Running" => task[e].on = a /\ actor'[a].flight = e
        /\ task[e].stage = "Running" => t.stage = "Running" \/ actor[a].flight = e
        /\ actor'[a].flight \in {e, NoExecution} /\ actor[a].flight \in {e, NoExecution}
    BY <1>1, <1>2
  <1>4. QED  BY <1>1, <1>2, <1>3, TaskChanges

\* Control messages keep the books of executions.
LEMMA ControlledTasks ==
    ASSUME ActorInv, OneExecutionAtATime, NEW a \in Session, NEW c, Controlled(a, c)
    PROVE  TasksOK'
  <1>1. PICK D : Touches(a, D)  BY ControlledTouches
  <1>2. ActorInv /\ Typed /\ actor[a] \in ActorState  BY DEF ActorInv, Typed
  <1>3. ASSUME task' = task, actor'[a].flight = actor[a].flight PROVE TasksOK'
    BY <1>1, <1>3, TasksKept
  <1>4. CASE CancelAnswered(a, c)  BY <1>3, <1>4 DEF CancelAnswered
  <1>5. CASE CancelQueued(a, c)
    <2> DEFINE e == actor[a].flight
               t == [task[e] EXCEPT !.asked = TRUE]
    <2>1. /\ call[c].exec = e /\ task[e].handle # "Bound"
          /\ task' = [task EXCEPT ![call[c].exec].asked = TRUE] /\ actor' = actor
      BY <1>5 DEF CancelQueued, Target
    <2>2. Flying(a)
      <3>1. c \in Client /\ call[c].op = "Cancel"
        <4>1. c \in Client  BY <1>5, SeqTail DEF CancelQueued, Controls, TakesControl, ControlDue, ActorInv, Typed
        <4>2. QED  BY <1>5, <4>1 DEF CancelQueued, Controls
      <3>2. call[c].exec \in Execution  BY <3>1, Callers, OpPlan
      <3>3. QED  BY <2>1, <3>2, ActorAssumption DEF Flying
    <2>3. e \in Execution /\ task[e] \in TaskState /\ task[e].stage = "Running" /\ task[e].on = a
      BY <2>2, FlightIs
    <2>4. t \in TaskState /\ t.stage = "Running" /\ t.on = a /\ t.handle = task[e].handle
      <3>1. t \in TaskState  BY <2>3, TaskTypes, Zenon
      <3>2. QED  BY <2>3, <3>1, TaskStateIs
    <2>5. task' = [task EXCEPT ![e] = t]  BY <2>1
    <2> HIDE DEF t
    <2>6. QED  BY <1>1, <1>2, <2>1, <2>2, <2>4, <2>5, FlightChanges
  <1>6. CASE CancelDelivered(a, c)
    <2> DEFINE e == actor[a].flight
               t == [task[e] EXCEPT !.told = TRUE]
    <2>1. /\ call[c].exec = e
          /\ task' = [task EXCEPT ![call[c].exec].told = TRUE] /\ actor' = actor
      BY <1>6 DEF CancelDelivered, Target
    <2>2. Flying(a)
      <3>1. c \in Client /\ call[c].op = "Cancel"
        <4>1. c \in Client  BY <1>6, SeqTail DEF CancelDelivered, Controls, TakesControl, ControlDue, ActorInv, Typed
        <4>2. QED  BY <1>6, <4>1 DEF CancelDelivered, Controls
      <3>2. call[c].exec \in Execution  BY <3>1, Callers, OpPlan
      <3>3. QED  BY <2>1, <3>2, ActorAssumption DEF Flying
    <2>3. e \in Execution /\ task[e] \in TaskState /\ task[e].stage = "Running" /\ task[e].on = a
      BY <2>2, FlightIs
    <2>4. t \in TaskState /\ t.stage = "Running" /\ t.on = a /\ t.told = TRUE
      <3>1. t \in TaskState  BY <2>3, TaskTypes, Zenon
      <3>2. QED  BY <2>3, <3>1, TaskStateIs
    <2>5. task' = [task EXCEPT ![e] = t]  BY <2>1
    <2> HIDE DEF t
    <2>6. QED  BY <1>1, <1>2, <2>1, <2>2, <2>4, <2>5, FlightChanges
  <1>7. CASE InvalidateWorker(a, c)
    <2>1. task' = task  BY <1>7 DEF InvalidateWorker
    <2>2. CASE actor' = actor  BY <1>3, <2>1, <2>2
    <2>3. CASE \E exact, shut \in BOOLEAN : Becomes(a, Released(actor[a], exact, shut))
      <3>1. PICK exact, shut \in BOOLEAN : Becomes(a, Released(actor[a], exact, shut))  BY <2>3
      <3>2. actor'[a] = Released(actor[a], exact, shut)  BY <1>2, <3>1 DEF Becomes, Typed
      <3> DEFINE l == actor[a]
      <3> HIDE DEF l
      <3>3. l \in ActorState  BY <1>2 DEF l
      <3>4. Released(l, exact, shut).flight = l.flight  BY <3>3, ReleasedIs
      <3>5. QED  BY <1>3, <2>1, <3>2, <3>4 DEF l
    <2>4. QED  BY <1>7, <2>2, <2>3 DEF InvalidateWorker
  <1>8. QED  BY <1>4, <1>5, <1>6, <1>7 DEF Controlled

\* Binding a handle keeps the books of executions.
LEMMA BindTasks ==
    ASSUME ActorInv, OneExecutionAtATime, NEW a \in Session, Bind(a)
    PROVE  TasksOK' /\ Settled /\ Touches(a, {})
  <1>1. Typed /\ actor[a] \in ActorState /\ execQ[a] \in Seq(Client) /\ ctrlQ[a] \in Seq(Client)
        /\ QueuesOK
    BY DEF ActorInv, Typed
  <1>2. Running(a) /\ Flying(a) /\ UNCHANGED <<actor, execQ, ctrlQ, unfinished, call>>
    BY DEF Bind, Offered
  <1>3. Touches(a, {})
    <2>1. /\ actor' = [actor EXCEPT ![a] = actor[a]] /\ execQ' = [execQ EXCEPT ![a] = execQ[a]]
          /\ ctrlQ' = [ctrlQ EXCEPT ![a] = ctrlQ[a]]
      BY <1>1, <1>2 DEF Typed
    <2>2. /\ Distinct(execQ[a]) /\ Distinct(ctrlQ[a]) /\ Distinct(actor[a].deferred)
      BY <1>1 DEF QueuesOK
    <2>3. call' \in [Client -> CallState] /\ \A c \in Client : call'[c] = call[c]
      BY <1>1, <1>2 DEF Typed
    <2> DEFINE s == actor[a]
               q == execQ[a]
               p == ctrlQ[a]
    <2>4. /\ s \in ActorState /\ q \in Seq(Client) /\ p \in Seq(Client) /\ s.life = "Running"
          /\ actor' = [actor EXCEPT ![a] = s] /\ execQ' = [execQ EXCEPT ![a] = q]
          /\ ctrlQ' = [ctrlQ EXCEPT ![a] = p]
          /\ Distinct(q) /\ Distinct(p) /\ Distinct(s.deferred)
          /\ q = execQ[a] /\ p = ctrlQ[a] /\ s = actor[a]
      BY <1>1, <1>2, <2>1, <2>2 DEF Running
    <2> HIDE DEF s, q, p
    <2>5. /\ Elements(q) \subseteq Elements(execQ[a]) \ {} /\ Elements(p) \subseteq Elements(ctrlQ[a]) \ {}
          /\ Elements(s.deferred) \subseteq Elements(actor[a].deferred) \ {}
      BY <2>4
    <2>6. s.life # "Unborn" /\ (s.life # "Running" => FALSE)  BY <2>4
    <2>7. \A b \in Session \ {a} : {} \cap Waiting(b) = {}  OBVIOUS
    <2> DEFINE D == {}
    <2>8. D \in SUBSET Client /\ D = {}  OBVIOUS
    <2> HIDE DEF D
    <2>9. \A c \in Client : call'[c] = call[c] \/ (c \in D /\ Replied(c))  BY <2>3
    <2>10. Touches(a, D)  BY <1>2, <2>3, <2>4, <2>5, <2>6, <2>7, <2>8, <2>9, TouchesWhen
    <2>11. QED  BY <2>8, <2>10
  <1>4. /\ task' = [task EXCEPT ![actor[a].flight].handle = "Bound",
                               ![actor[a].flight].told = @ \/ task[actor[a].flight].asked]
    BY DEF Bind
  <1> DEFINE e == actor[a].flight
             t == [task[e] EXCEPT !.handle = "Bound", !.told = task[e].told \/ task[e].asked]
  <1>5. e \in Execution /\ task[e] \in TaskState /\ task[e].stage = "Running" /\ task[e].on = a
    BY <1>2, FlightIs
  <1>6. task[e].told \in BOOLEAN /\ task[e].asked \in BOOLEAN  BY <1>5, TaskStateIs
  <1>7. t \in TaskState  BY <1>5, <1>6, TaskTypes
  <1>8. t.stage = "Running" /\ t.on = a /\ t.asked = task[e].asked
        /\ t.told = (task[e].told \/ task[e].asked)
    BY <1>5, TaskStateIs
  <1>9. task' = [task EXCEPT ![e] = t]  BY <1>4, <1>5 DEF Typed
  <1>10. Settled  BY <1>1, <1>2, <1>5, <1>7, <1>9 DEF Settled, Typed
  <1> HIDE DEF t
  <1>11. actor'[a].flight = actor[a].flight  BY <1>2
  <1>12. t.handle = "Bound" /\ t.asked => t.told  BY <1>8
  <1>13. TasksOK'  BY <1>2, <1>3, <1>7, <1>8, <1>9, <1>11, <1>12, FlightChanges
  <1>14. QED  BY <1>3, <1>10, <1>13

\* An execution that is over, in whatever way.
LEMMA SettlesTasks ==
    ASSUME ActorInv, OneExecutionAtATime, NEW a \in Session, NEW D, Touches(a, D), Lands(a),
           NEW stage \in {"Done", "Failed", "Lost"}, Settles(a, stage),
           actor'[a].flight = NoExecution
    PROVE  TasksOK'
  <1> DEFINE e == actor[a].flight
  <1>1. Flying(a)  BY DEF Lands
  <1>2. e \in Execution /\ task[e].stage = "Running" /\ task[e].on = a
        /\ \A b \in Session : \A c \in Work(b) : call[c].exec # e
    BY <1>1, FlightIs
  <1>3. stage \in TaskStage /\ stage # "Running"  BY DEF TaskStage
  <1>4. PICK t \in TaskState : /\ task' = [task EXCEPT ![e] = t]
                               /\ t.stage = stage /\ t.on = a /\ t.handle \in {"Silent", "Missed"}
    BY <1>3, SettlesIs
  <1>5. \A b \in Session : \A c \in Work(b)' : call[c].exec # e  BY <1>2, TouchesKeeps
  <1>6. e # NoExecution  BY <1>1 DEF Flying
  <1>7. actor[a].flight = e /\ actor'[a].flight # e  BY <1>6
  <1> HIDE DEF e
  <1>8. QED  BY <1>2, <1>3, <1>4, <1>5, <1>7, TaskChanges

\* The end of an execution keeps the books of executions.
LEMMA EndedTasks ==
    ASSUME ActorInv, OneExecutionAtATime, NEW a \in Session, Ended(a)
    PROVE  TasksOK'
  <1>1. CASE Complete(a) \/ Fail(a)
    <2>1. Lands(a)  BY <1>1, EndKinds
    <2>2. PICK s : \E left \in SUBSET {a}, stage \in {"Done", "Failed"}, answer \in {"Ok", "Failed"} :
                 EndsAs(a, s, left, stage, answer)
      BY <1>1, EndKinds
    <2>3. PICK left \in SUBSET {a}, stage \in {"Done", "Failed"}, answer \in {"Ok", "Failed"} :
                 EndsAs(a, s, left, stage, answer)
      BY <2>2
    <2>4. Stays(actor[a], s) /\ s.flight = NoExecution /\ Over(a, s, left, stage, answer)
      BY <2>3 DEF EndsAs
    <2>5. Touches(a, Pilot(a))  BY <2>1, <2>4, OverTouches
    <2>6. actor'[a] = s /\ Settles(a, stage)
      BY <2>4 DEF Over, Becomes, ActorInv, Typed
    <2>7. QED  BY <2>1, <2>4, <2>5, <2>6, SettlesTasks
  <1>2. CASE LoseResource(a)
    <2>1. Lands(a) /\ Settles(a, "Lost") /\ actor'[a].flight = NoExecution  BY <1>2, LoseIs
    <2>2. PICK D : Touches(a, D)  BY <1>2, LoseIs
    <2>3. QED  BY <2>1, <2>2, SettlesTasks
  <1>3. QED  BY <1>1, <1>2 DEF Ended

\* The end of an actor keeps the books of executions.
LEMMA FinishTasks ==
    ASSUME ActorInv, OneExecutionAtATime, NEW a \in Session, Finish(a)
    PROVE  TasksOK'
  <1>1. Touches(a, {}) /\ task' = task /\ ~Flying(a) /\ actor'[a] = [Unborn EXCEPT !.life = "Ended"]
    BY FinishIs
  <1>2. actor'[a].flight = actor[a].flight  BY <1>1 DEF Unborn, Flying
  <1>3. QED  BY <1>1, <1>2, TasksKept

\* What flew when the actor crashed is left running, and nothing starts there again.
LEMMA CrashTasks ==
    ASSUME ActorInv, OneExecutionAtATime, NEW a \in Session, NEW D, Touches(a, D),
           actor' = [actor EXCEPT ![a] = Crashed], task' = task
    PROVE  TasksOK'
  <1>1. PostedOK'  BY PostedKeeps
  <1>2. \A b \in Session : actor'[b] = IF b = a THEN Crashed ELSE actor[b]
    BY DEF ActorInv, Typed
  <1>3. Crashed.life = "Crashed" /\ Crashed.flight = NoExecution  BY DEF Crashed, Unborn
  <1>4. FlightsOK'
    <2>1. \A b \in Session : Flying(b)' => b # a /\ Flying(b) /\ actor'[b] = actor[b]
      BY <1>2, <1>3 DEF Flying
    <2>2. \A b \in Session : Flying(b)' =>
             task'[actor'[b].flight].stage = "Running" /\ task'[actor'[b].flight].on = b
      BY <2>1 DEF ActorInv, FlightsOK
    <2>3. \A e \in Execution : task'[e].stage = "Running" =>
             /\ task'[e].on \in Session
             /\ actor'[task'[e].on].flight = e \/ actor'[task'[e].on].life = "Crashed"
      BY <1>2, <1>3 DEF ActorInv, FlightsOK
    <2>4. \A e \in Execution : task'[e].handle = "Bound" /\ task'[e].asked => task'[e].told
      BY DEF ActorInv, FlightsOK
    <2>5. QED  BY <2>2, <2>3, <2>4 DEF FlightsOK
  <1>5. OneExecutionAtATime'  BY DEF OneExecutionAtATime
  <1>6. QED  BY <1>1, <1>4, <1>5 DEF TasksOK

--------------------------------------------------------------------------------
(* The steps of the actors keep the invariant.                                  *)

Inv == ActorInv /\ OneExecutionAtATime

\* A step of one actor that keeps the books keeps the invariant.
LEMMA TouchesInv ==
    ASSUME Inv, NEW a \in Session, NEW D, Touches(a, D), Settled, TasksOK',
           UNCHANGED <<registryVars, begun>>
    PROVE  Inv'
  <1>1. /\ QueuesOK' /\ MessagesOK' /\ ShapesOK'
        /\ actor' \in [Session -> ActorState]
        /\ execQ' \in [Session -> Seq(Client)] /\ ctrlQ' \in [Session -> Seq(Client)]
    BY TouchesKeeps DEF Inv
  <1>2. call' \in [Client -> CallState] /\ task' \in [Execution -> TaskState] /\ unfinished' \subseteq Session
    BY DEF Touches, Settled
  <1>3. Typed'  BY <1>1, <1>2 DEF Inv, ActorInv, Typed, registryVars
  <1>4. QED  BY <1>1, <1>3 DEF Inv, ActorInv, TasksOK

\* The backend publishes a handle.
LEMMA PublishInv ==
    ASSUME Inv, NEW e \in Execution, Publish(e), UNCHANGED <<registryVars, begun>>
    PROVE  Inv'
  <1> DEFINE t == [task[e] EXCEPT !.handle = "Offered"]
  <1>1. Typed /\ task[e] \in TaskState /\ task[e].stage = "Running"
    BY DEF Inv, ActorInv, Typed, Publish
  <1>2. t \in TaskState /\ t.stage = task[e].stage /\ t.on = task[e].on /\ t.handle = "Offered"
    <2>1. t \in TaskState  BY <1>1, TaskTypes, Zenon
    <2>2. QED  BY <1>1, <2>1, TaskStateIs
  <1>3. task' = [task EXCEPT ![e] = t] /\ UNCHANGED <<actor, execQ, ctrlQ, unfinished, call>>
    BY DEF Publish
  <1> HIDE DEF t
  <1>4. /\ task' \in [Execution -> TaskState]
        /\ \A f \in Execution :
              /\ task'[f].stage = task[f].stage /\ task'[f].on = task[f].on
              /\ task'[f] = task[f] \/ task'[f].handle = "Offered"
    BY <1>1, <1>2, <1>3 DEF Typed
  <1>5. Typed'  BY <1>1, <1>3, <1>4 DEF Typed, registryVars
  <1>6. \A b \in Session : Work(b)' = Work(b) /\ Control(b)' = Control(b) /\ Waiting(b)' = Waiting(b)
    BY <1>3 DEF Work, Control, Waiting
  <1>7. QueuesOK'  BY <1>3, <1>6 DEF Inv, ActorInv, QueuesOK, Running, Flying
  <1>8. MessagesOK' /\ ShapesOK'  BY <1>3, <1>6 DEF Inv, ActorInv, MessagesOK, ShapesOK
  <1>9. PostedOK'
    <2> SUFFICES ASSUME NEW b \in Session, NEW c \in Work(b), call[c].exec # NoExecution
                 PROVE  /\ task'[call[c].exec].stage = "Posted" /\ task'[call[c].exec].on = b
                        /\ \A d \in Work(b) : call[d].exec = call[c].exec => d = c
      BY <1>3, <1>6 DEF PostedOK
    <2>1. c \in Client  BY WaitersApart DEF Inv, Waiting
    <2>2. call[c].exec \in Execution  BY <1>1, <2>1, CallStateIs DEF Typed
    <2>3. QED  BY <1>4, <2>2 DEF Inv, ActorInv, PostedOK
  <1>10. FlightsOK'
    <2>1. ASSUME NEW b \in Session, Flying(b)'
          PROVE  task'[actor'[b].flight].stage = "Running" /\ task'[actor'[b].flight].on = b
      <3>1. Flying(b)  BY <1>3, <2>1 DEF Flying
      <3>2. actor[b].flight \in Execution /\ task[actor[b].flight].stage = "Running"
            /\ task[actor[b].flight].on = b
        BY <3>1, FlightIs DEF Inv
      <3>3. QED  BY <1>3, <1>4, <3>2
    <2>2. ASSUME NEW f \in Execution
          PROVE  /\ task'[f].stage = "Running" =>
                       /\ task'[f].on \in Session
                       /\ actor'[task'[f].on].flight = f \/ actor'[task'[f].on].life = "Crashed"
                 /\ task'[f].handle = "Bound" /\ task'[f].asked => task'[f].told
      BY <1>3, <1>4 DEF Inv, ActorInv, FlightsOK
    <2>3. QED  BY <2>1, <2>2 DEF FlightsOK
  <1>11. OneExecutionAtATime'  BY <1>4 DEF Inv, OneExecutionAtATime
  <1>12. QED  BY <1>5, <1>7, <1>8, <1>9, <1>10, <1>11 DEF Inv, ActorInv

\* What the actors and the backends do.
Works ==
    \/ \E a \in Session :
          \/ \E c \in Client : Controlled(a, c) \/ Queued(a, c) \/ PanicServing(a, c)
          \/ Bind(a) \/ Ended(a) \/ Finished(a) \/ PanicReleasing(a)
    \/ \E e \in Execution : Publish(e)

\* A step of an actor or of a backend keeps the invariant.
LEMMA WorksInv == ASSUME Inv, Works, UNCHANGED <<registryVars, begun>> PROVE Inv'
  <1>1. ActorInv /\ OneExecutionAtATime  BY DEF Inv
  <1>2. ASSUME NEW a \in Session, NEW c \in Client, Controlled(a, c) PROVE Inv'
    BY <1>1, <1>2, ControlledTouches, ControlledTasks, TouchesInv
  <1>3. ASSUME NEW a \in Session, NEW c \in Client, Queued(a, c) PROVE Inv'
    BY <1>1, <1>3, QueuedTouches, QueuedTasks, TouchesInv
  <1>4. ASSUME NEW a \in Session, NEW c, PanicServing(a, c) \/ PanicReleasing(a) PROVE Inv'
    <2>1. PICK served \in SUBSET Waiting(a) : Crashes(a, served)  BY <1>1, <1>4, PanicIs
    <2>2. Running(a)  BY <1>1, <1>4, PanicIs
    <2>3. /\ Settled /\ (\E D : Touches(a, D)) /\ task' = task
          /\ actor' = [actor EXCEPT ![a] = Crashed]
      BY <1>1, <2>1, <2>2, CrashIs
    <2>4. QED  BY <1>1, <2>3, CrashTasks, TouchesInv
  <1>5. ASSUME NEW a \in Session, Bind(a) PROVE Inv'
    BY <1>1, <1>5, BindTasks, TouchesInv
  <1>6. ASSUME NEW a \in Session, Ended(a) PROVE Inv'
    BY <1>1, <1>6, EndedTouches, EndedTasks, TouchesInv
  <1>7. ASSUME NEW a \in Session, Finished(a) PROVE Inv'
    <2>1. Settled /\ Touches(a, {})  BY <1>1, <1>7, FinishIs DEF Finished
    <2>2. QED  BY <1>1, <1>7, <2>1, FinishTasks, TouchesInv DEF Finished
  <1>8. ASSUME NEW e \in Execution, Publish(e) PROVE Inv'
    BY <1>8, PublishInv
  <1>9. QED
    BY <1>2, <1>3, <1>4, <1>5, <1>6, <1>7, <1>8 DEF Works

--------------------------------------------------------------------------------
(* The steps of a call keep the invariant.                                      *)

TableTyped ==
    rows \subseteq Session /\ stale \subseteq Session /\ quota \in Int /\ begun \in 0..MaxCalls

\* An execution may be posted or refused at once; nothing else happens to them.
Books ==
    /\ task' \in [Execution -> TaskState]
    /\ \A f \in Execution :
          \/ task'[f] = task[f]
          \/ /\ task[f].stage = "None" /\ task'[f].stage \in {"Posted", "Refused"}
             /\ task'[f].handle = task[f].handle /\ task'[f].asked = task[f].asked
             /\ task'[f].told = task[f].told

\* A caller that waits nowhere becomes n, and waits for one actor at most.
LEMMA PutsKeeps ==
    ASSUME Inv, NEW c \in Client, \A b \in Session : c \notin Waiting(b),
           NEW n, Shape(n), call' = [call EXCEPT ![c] = n], Typed', Books,
           \A b \in Session :
              /\ Sorted(b)'
              /\ Work(b)' \subseteq Work(b) \cup {c} /\ Control(b)' \subseteq Control(b) \cup {c}
              /\ c \in Waiting(b)' => n.on = b /\ n.stage = "Sent"
              /\ c \in Work(b)' => n.op \notin {"Cancel", "InvalidateWorker"}
              /\ c \in Control(b)' => n.op \in {"Cancel", "InvalidateWorker"}
              /\ c \in Work(b)' /\ n.exec # NoExecution =>
                    /\ n.exec \in Execution /\ task[n.exec].stage = "None"
                    /\ task'[n.exec].stage = "Posted" /\ task'[n.exec].on = b
              /\ actor'[b].flight = actor[b].flight
              /\ actor[b].life = "Crashed" => actor'[b].life = "Crashed"
    PROVE  Inv'
  <1>1. Typed /\ QueuesOK /\ MessagesOK /\ PostedOK /\ FlightsOK /\ ShapesOK /\ OneExecutionAtATime
    BY DEF Inv, ActorInv
  <1>2. \A d \in Client : call'[d] = IF d = c THEN n ELSE call[d]  BY <1>1 DEF Typed
  <1>3. \A b \in Session : Waiting(b) \subseteq Client  BY WaitersApart DEF Inv
  <1>4. \A b \in Session : \A d \in Waiting(b)' : d # c => d \in Waiting(b) /\ call'[d] = call[d]
    BY <1>2, <1>3 DEF Waiting
  <1>5. \A b \in Session : \A d \in Work(b)' : d # c => d \in Work(b) /\ call'[d] = call[d]
    BY <1>4 DEF Waiting
  <1>6. \A b \in Session : \A d \in Control(b)' : d # c => d \in Control(b) /\ call'[d] = call[d]
    BY <1>4 DEF Waiting
  <1>7. \A b \in Session : Work(b) \subseteq Client  BY <1>3 DEF Waiting
  <1>8. QueuesOK'  BY DEF QueuesOK, Sorted
  <1>9. ShapesOK'  BY <1>1, <1>2 DEF ShapesOK
  <1>10. MessagesOK'
    <2>1. ASSUME NEW b \in Session, NEW d \in Waiting(b)'
          PROVE  call'[d].on = b /\ call'[d].stage \in {"Sent", "Gone"}
      <3>1. CASE d = c  BY <1>2, <2>1, <3>1
      <3>2. CASE d # c  BY <1>1, <1>4, <2>1, <3>2 DEF MessagesOK
      <3>3. QED  BY <3>1, <3>2
    <2>2. ASSUME NEW b \in Session, NEW d \in Work(b)'
          PROVE  call'[d].op \notin {"Cancel", "InvalidateWorker"}
      <3>1. CASE d = c  BY <1>2, <2>2, <3>1
      <3>2. CASE d # c  BY <1>1, <1>5, <2>2, <3>2 DEF MessagesOK
      <3>3. QED  BY <3>1, <3>2
    <2>3. ASSUME NEW b \in Session, NEW d \in Control(b)'
          PROVE  call'[d].op \in {"Cancel", "InvalidateWorker"}
      <3>1. CASE d = c  BY <1>2, <2>3, <3>1
      <3>2. CASE d # c  BY <1>1, <1>6, <2>3, <3>2 DEF MessagesOK
      <3>3. QED  BY <3>1, <3>2
    <2>4. QED  BY <2>1, <2>2, <2>3 DEF MessagesOK
  <1>11. PostedOK'
    <2>1. ASSUME NEW b \in Session, NEW d \in Work(b), call[d].exec # NoExecution
          PROVE  /\ call[d].exec \in Execution
                 /\ task[call[d].exec].stage = "Posted" /\ task[call[d].exec].on = b
                 /\ task'[call[d].exec] = task[call[d].exec]
      <3>1. call[d].exec \in Execution  BY <1>1, <1>7, <2>1, CallStateIs DEF Typed
      <3>2. task[call[d].exec].stage = "Posted" /\ task[call[d].exec].on = b
        BY <1>1, <2>1 DEF PostedOK
      <3>3. QED  BY <3>1, <3>2 DEF Books
    <2> SUFFICES ASSUME NEW b \in Session, NEW d \in Work(b)', call'[d].exec # NoExecution
                 PROVE  /\ task'[call'[d].exec].stage = "Posted" /\ task'[call'[d].exec].on = b
                        /\ \A x \in Work(b)' : call'[x].exec = call'[d].exec => x = d
      BY DEF PostedOK
    <2>2. CASE d = c
      <3>1. /\ call'[d] = n /\ n.exec \in Execution /\ task[n.exec].stage = "None"
            /\ task'[n.exec].stage = "Posted" /\ task'[n.exec].on = b
        BY <1>2, <2>2
      <3>2. ASSUME NEW x \in Work(b)', x # c, call'[x].exec = n.exec PROVE FALSE
        <4>1. x \in Work(b) /\ call[x].exec = n.exec  BY <1>5, <3>2
        <4>2. n.exec # NoExecution  BY <3>1, ActorAssumption
        <4>3. QED  BY <2>1, <3>1, <4>1, <4>2
      <3>3. QED  BY <2>2, <3>1, <3>2
    <2>3. CASE d # c
      <3>1. d \in Work(b) /\ call'[d] = call[d] /\ call[d].exec # NoExecution  BY <1>5, <2>3
      <3>2. /\ task'[call'[d].exec].stage = "Posted" /\ task'[call'[d].exec].on = b
            /\ task[call[d].exec].stage = "Posted"
        BY <2>1, <3>1
      <3>3. ASSUME NEW x \in Work(b)', call'[x].exec = call'[d].exec PROVE x = d
        <4>1. CASE x = c  BY <1>2, <3>1, <3>2, <3>3, <4>1
        <4>2. CASE x # c
          <5>1. x \in Work(b) /\ call[x].exec = call[d].exec  BY <1>5, <3>1, <3>3, <4>2
          <5>2. QED  BY <1>1, <3>1, <5>1 DEF PostedOK
        <4>3. QED  BY <4>1, <4>2
      <3>4. QED  BY <3>2, <3>3
    <2>4. QED  BY <2>2, <2>3
  <1>12. FlightsOK'
    <2>1. ASSUME NEW b \in Session, Flying(b)'
          PROVE  task'[actor'[b].flight].stage = "Running" /\ task'[actor'[b].flight].on = b
      <3>1. Flying(b)  BY <2>1 DEF Flying
      <3>2. actor[b].flight \in Execution /\ task[actor[b].flight].stage = "Running"
            /\ task[actor[b].flight].on = b
        BY <3>1, FlightIs DEF Inv
      <3>3. actor'[b].flight = actor[b].flight  OBVIOUS
      <3>4. QED  BY <3>2, <3>3 DEF Books
    <2>2. ASSUME NEW f \in Execution
          PROVE  /\ task'[f].stage = "Running" =>
                       /\ task'[f].on \in Session
                       /\ actor'[task'[f].on].flight = f \/ actor'[task'[f].on].life = "Crashed"
                 /\ task'[f].handle = "Bound" /\ task'[f].asked => task'[f].told
      <3>1. /\ task'[f].handle = task[f].handle /\ task'[f].asked = task[f].asked
            /\ task'[f].told = task[f].told
            /\ task'[f].stage = "Running" => task'[f] = task[f]
        BY DEF Books
      <3>2. task[f].handle = "Bound" /\ task[f].asked => task[f].told  BY <1>1 DEF FlightsOK
      <3>3. task[f].stage = "Running" =>
               /\ task[f].on \in Session
               /\ actor[task[f].on].flight = f \/ actor[task[f].on].life = "Crashed"
        BY <1>1 DEF FlightsOK
      <3>4. QED  BY <3>1, <3>2, <3>3
    <2>3. QED  BY <2>1, <2>2 DEF FlightsOK
  <1>13. OneExecutionAtATime'
    <2>1. \A f \in Execution : task'[f].stage = "Running" => task'[f] = task[f]  BY DEF Books
    <2>2. QED  BY <1>1, <2>1 DEF OneExecutionAtATime
  <1>14. QED  BY <1>8, <1>9, <1>10, <1>11, <1>12, <1>13 DEF Inv, ActorInv

\* Who does not wait for an actor is in no queue.
LEMMA Nowhere ==
    ASSUME Inv, NEW c \in Client, call[c].stage \notin {"Sent", "Gone"}
    PROVE  \A b \in Session : c \notin Waiting(b)
  BY DEF Inv, ActorInv, MessagesOK

\* The queues of a session are in order.
LEMMA SortedIs ==
    ASSUME Inv, NEW b \in Session
    PROVE  Sorted(b) /\ Waiting(b) \subseteq Client /\ actor[b] \in ActorState
           /\ execQ[b] \in Seq(Client) /\ ctrlQ[b] \in Seq(Client)
  BY WaitersApart DEF Inv, ActorInv, Typed, QueuesOK, Sorted

\* A call that goes on without a message.
LEMMA MoveInv ==
    ASSUME Inv, NEW c \in Client, call[c].stage \notin {"Sent", "Gone"},
           NEW n \in CallState, Shape(n), call' = [call EXCEPT ![c] = n],
           UNCHANGED <<actor, execQ, ctrlQ>>, unfinished' = unfinished, Books, TableTyped'
    PROVE  Inv'
  <1>1. Typed  BY DEF Inv, ActorInv
  <1>2. call' \in [Client -> CallState]  BY <1>1 DEF Typed
  <1>3. Typed'  BY <1>1, <1>2 DEF Typed, Books, TableTyped
  <1>4. \A b \in Session : Work(b)' = Work(b) /\ Control(b)' = Control(b) /\ Waiting(b)' = Waiting(b)
    BY DEF Work, Control, Waiting
  <1>5. \A b \in Session : c \notin Waiting(b)  BY Nowhere
  <1>6. \A b \in Session : Sorted(b)'  BY <1>4, SortedIs DEF Sorted, Running, Flying
  <1>7. \A b \in Session : c \notin Waiting(b)' /\ c \notin Work(b)' /\ c \notin Control(b)'
    BY <1>4, <1>5 DEF Waiting
  <1>8. QED  BY <1>3, <1>4, <1>5, <1>6, <1>7, PutsKeeps

\* A message joins a queue.
LEMMA ArriveInv ==
    ASSUME Inv, NEW c \in Client, call[c].stage \notin {"Sent", "Gone"},
           NEW n \in CallState, Shape(n), call' = [call EXCEPT ![c] = n], n.stage = "Sent",
           n.on \in Session, Running(n.on), UNCHANGED <<actor, unfinished>>, Books, TableTyped',
           \/ /\ execQ' = [execQ EXCEPT ![n.on] = Append(@, c)] /\ ctrlQ' = ctrlQ
              /\ n.op \notin {"Cancel", "InvalidateWorker"}
              /\ n.exec # NoExecution =>
                    /\ task[n.exec].stage = "None"
                    /\ task'[n.exec].stage = "Posted" /\ task'[n.exec].on = n.on
           \/ /\ ctrlQ' = [ctrlQ EXCEPT ![n.on] = Append(@, c)] /\ execQ' = execQ
              /\ n.op \in {"Cancel", "InvalidateWorker"}
    PROVE  Inv'
  <1>1. Typed  BY DEF Inv, ActorInv
  <1> DEFINE a == n.on
  <1>2. call' \in [Client -> CallState] /\ a \in Session /\ n.exec \in Execution \cup {NoExecution}
    BY <1>1, CallStateIs DEF Typed
  <1>3. \A b \in Session : c \notin Waiting(b)  BY Nowhere
  <1>4. /\ Append(execQ[a], c) \in Seq(Client) /\ Append(ctrlQ[a], c) \in Seq(Client)
        /\ Elements(Append(execQ[a], c)) = Elements(execQ[a]) \cup {c}
        /\ Elements(Append(ctrlQ[a], c)) = Elements(ctrlQ[a]) \cup {c}
        /\ Distinct(Append(execQ[a], c)) /\ Distinct(Append(ctrlQ[a], c))
    <2>1. execQ[a] \in Seq(Client) /\ ctrlQ[a] \in Seq(Client)
          /\ Distinct(execQ[a]) /\ Distinct(ctrlQ[a])
      BY <1>2, SortedIs DEF Sorted
    <2>2. c \notin Elements(execQ[a]) /\ c \notin Elements(ctrlQ[a])
      BY <1>2, <1>3 DEF Waiting, Work, Control
    <2> HIDE DEF a
    <2>3. QED  BY <2>1, <2>2, SeqAppend
  <1>5. execQ' \in [Session -> Seq(Client)] /\ ctrlQ' \in [Session -> Seq(Client)]
    BY <1>1, <1>2, <1>4 DEF Typed
  <1>6. Typed'  BY <1>1, <1>2, <1>5 DEF Typed, Books, TableTyped
  <1>7. /\ \A b \in Session : b # a => execQ'[b] = execQ[b] /\ ctrlQ'[b] = ctrlQ[b]
        /\ \/ /\ execQ'[a] = Append(execQ[a], c) /\ ctrlQ'[a] = ctrlQ[a]
              /\ n.op \notin {"Cancel", "InvalidateWorker"}
              /\ n.exec # NoExecution =>
                    /\ task[n.exec].stage = "None"
                    /\ task'[n.exec].stage = "Posted" /\ task'[n.exec].on = n.on
           \/ /\ ctrlQ'[a] = Append(ctrlQ[a], c) /\ execQ'[a] = execQ[a]
              /\ n.op \in {"Cancel", "InvalidateWorker"}
    BY <1>1, <1>2 DEF Typed
  <1> HIDE DEF a
  <1>8. \A b \in Session : b # a =>
           /\ Work(b)' = Work(b) /\ Control(b)' = Control(b) /\ Sorted(b)'
           /\ c \notin Work(b)' /\ c \notin Control(b)'
    <2> SUFFICES ASSUME NEW b \in Session, b # a
                 PROVE  /\ Work(b)' = Work(b) /\ Control(b)' = Control(b) /\ Sorted(b)'
                        /\ c \notin Work(b)' /\ c \notin Control(b)'
      OBVIOUS
    <2>1. Work(b)' = Work(b) /\ Control(b)' = Control(b)  BY <1>7 DEF Work, Control
    <2>2. Sorted(b)'  BY <1>7, <2>1, SortedIs DEF Sorted, Running, Flying, Waiting
    <2>3. QED  BY <1>3, <2>1, <2>2 DEF Waiting
  <1>9. /\ Work(a)' \subseteq Work(a) \cup {c} /\ Control(a)' \subseteq Control(a) \cup {c}
        /\ c \in Work(a)' => n.op \notin {"Cancel", "InvalidateWorker"} /\ execQ'[a] = Append(execQ[a], c)
        /\ c \in Control(a)' => n.op \in {"Cancel", "InvalidateWorker"}
        /\ Sorted(a)'
    <2>1. Sorted(a) /\ Running(a) /\ c \notin Work(a) /\ c \notin Control(a)
      BY <1>2, <1>3, SortedIs DEF a, Waiting
    <2>2. c \notin Elements(actor[a].deferred)  BY <2>1 DEF Work
    <2>3. CASE execQ'[a] = Append(execQ[a], c) /\ ctrlQ'[a] = ctrlQ[a] /\ n.op \notin {"Cancel", "InvalidateWorker"}
      <3>1. Work(a)' = Work(a) \cup {c} /\ Control(a)' = Control(a)
        BY <1>4, <2>3 DEF Work, Control
      <3>2. Sorted(a)'  BY <1>4, <2>1, <2>2, <2>3, <3>1 DEF Sorted, Running
      <3>3. QED  BY <2>1, <2>3, <3>1, <3>2
    <2>4. CASE ctrlQ'[a] = Append(ctrlQ[a], c) /\ execQ'[a] = execQ[a] /\ n.op \in {"Cancel", "InvalidateWorker"}
      <3>1. Work(a)' = Work(a) /\ Control(a)' = Control(a) \cup {c}
        BY <1>4, <2>4 DEF Work, Control
      <3>2. Sorted(a)'  BY <1>4, <2>1, <2>2, <2>4, <3>1 DEF Sorted, Running
      <3>3. QED  BY <2>1, <2>4, <3>1, <3>2
    <2>5. QED  BY <1>7, <2>3, <2>4
  <1>10. c \in Work(a)' /\ n.exec # NoExecution =>
           /\ n.exec \in Execution /\ task[n.exec].stage = "None"
           /\ task'[n.exec].stage = "Posted" /\ task'[n.exec].on = a
    <2>1. n.exec # NoExecution => n.exec \in Execution  BY <1>2
    <2>2. n.on = a  BY DEF a
    <2>3. QED  BY <1>7, <1>9, <2>1, <2>2
  <1>11. ASSUME NEW b \in Session
         PROVE  /\ Sorted(b)'
                /\ Work(b)' \subseteq Work(b) \cup {c} /\ Control(b)' \subseteq Control(b) \cup {c}
                /\ c \in Waiting(b)' => n.on = b /\ n.stage = "Sent"
                /\ c \in Work(b)' => n.op \notin {"Cancel", "InvalidateWorker"}
                /\ c \in Control(b)' => n.op \in {"Cancel", "InvalidateWorker"}
                /\ c \in Work(b)' /\ n.exec # NoExecution =>
                      /\ n.exec \in Execution /\ task[n.exec].stage = "None"
                      /\ task'[n.exec].stage = "Posted" /\ task'[n.exec].on = b
    <2>1. CASE b = a  BY <1>9, <1>10, <2>1 DEF a
    <2>2. CASE b # a  BY <1>8, <2>2 DEF Waiting
    <2>3. QED  BY <2>1, <2>2
  <1>12. \A b \in Session : actor'[b].flight = actor[b].flight
           /\ (actor[b].life = "Crashed" => actor'[b].life = "Crashed")
    OBVIOUS
  <1>13. QED  BY <1>3, <1>6, <1>11, <1>12, PutsKeeps

\* A message of which nothing more is known than that it fits its call.
LEMMA SendInv ==
    ASSUME Inv, NEW c \in Client, call[c].stage \notin {"Sent", "Gone"},
           NEW r \in CallState, r.on \in Session,
           Shape([r EXCEPT !.stage = "Sent", !.answer = "None"]),
           \/ /\ Send(c, r) /\ r.op \notin {"Cancel", "InvalidateWorker"}
              /\ r.exec # NoExecution /\ Running(r.on) =>
                    /\ task[r.exec].stage = "None"
                    /\ task'[r.exec].stage = "Posted" /\ task'[r.exec].on = r.on
           \/ /\ SendControl(c, r) /\ r.op \in {"Cancel", "InvalidateWorker"},
           UNCHANGED <<actor, unfinished>>, Books, TableTyped'
    PROVE  Inv'
  <1> DEFINE m == [r EXCEPT !.stage = "Sent", !.answer = "None"]
  <1>1. m \in CallState
    <2>1. "Sent" \in Stage /\ "None" \in Answer  BY DEF Stage, Answer
    <2>2. QED  BY <2>1, CallTypes
  <1>2. m.on = r.on /\ m.op = r.op /\ m.exec = r.exec /\ m.stage = "Sent" /\ m.answer = "None"
    BY CallStateIs
  <1>3. call' = Posted(c, r)  BY DEF Send, SendControl
  <1>4. CASE Running(r.on)
    <2>1. call' = [call EXCEPT ![c] = m]  BY <1>3, <1>4 DEF Posted
    <2>2. Shape(m)  OBVIOUS
    <2>3. \/ /\ execQ' = [execQ EXCEPT ![m.on] = Append(@, c)] /\ ctrlQ' = ctrlQ
             /\ m.op \notin {"Cancel", "InvalidateWorker"}
             /\ m.exec # NoExecution =>
                    /\ task[m.exec].stage = "None"
                    /\ task'[m.exec].stage = "Posted" /\ task'[m.exec].on = m.on
          \/ /\ ctrlQ' = [ctrlQ EXCEPT ![m.on] = Append(@, c)] /\ execQ' = execQ
             /\ m.op \in {"Cancel", "InvalidateWorker"}
      <3> HIDE DEF m
      <3>1. CASE /\ Send(c, r) /\ r.op \notin {"Cancel", "InvalidateWorker"}
                 /\ r.exec # NoExecution /\ Running(r.on) =>
                       /\ task[r.exec].stage = "None"
                       /\ task'[r.exec].stage = "Posted" /\ task'[r.exec].on = r.on
        BY <1>2, <1>4, <3>1 DEF Send
      <3>2. CASE /\ SendControl(c, r) /\ r.op \in {"Cancel", "InvalidateWorker"}
        BY <1>2, <1>4, <3>2 DEF SendControl
      <3>3. QED  BY <3>1, <3>2
    <2> HIDE DEF m
    <2>4. m.on \in Session /\ Running(m.on) /\ m.stage = "Sent"  BY <1>2, <1>4
    <2>5. QED  BY <1>1, <2>1, <2>2, <2>3, <2>4, ArriveInv
  <1>5. CASE ~Running(r.on)
    <2>1. UNCHANGED <<actor, execQ, ctrlQ>>  BY <1>5 DEF Send, SendControl
    <2>2. CASE call' = [call EXCEPT ![c] = Out]
      BY <2>1, <2>2, OutType, ShapeOut, MoveInv
    <2>3. CASE call' = [call EXCEPT ![c] = [r EXCEPT !.stage = "Answered", !.answer = "UnknownSession"]]
      <3> DEFINE n == [m EXCEPT !.stage = "Answered", !.answer = "UnknownSession"]
      <3>1. n = [r EXCEPT !.stage = "Answered", !.answer = "UnknownSession"]  BY CallStateIs
      <3>2. "UnknownSession" \in Answer /\ "Answered" \in Stage  BY DEF Answer, Stage
      <3>3. Shape(m)  OBVIOUS
      <3> HIDE DEF m
      <3>4. n \in CallState /\ Shape(n)  BY <1>1, <1>2, <3>2, <3>3, ShapeAnswered, CallTypes
      <3> HIDE DEF n
      <3>5. call' = [call EXCEPT ![c] = n]  BY <2>3, <3>1
      <3>6. QED  BY <2>1, <3>4, <3>5, MoveInv
    <2>4. QED  BY <1>3, <1>5, <2>2, <2>3 DEF Posted
  <1>6. QED  BY <1>4, <1>5

\* A new actor finds one message.
LEMMA SpawnInv ==
    ASSUME Inv, NEW c \in Client, call[c].stage \notin {"Sent", "Gone"},
           NEW r \in CallState, r.cand \in Session, r.exec = NoExecution,
           NEW deadline \in BOOLEAN, Spawn(c, r, deadline),
           NEW n, n = [r EXCEPT !.op = "Open", !.on = r.cand, !.stage = "Sent", !.answer = "None"],
           Shape(n), TableTyped'
    PROVE  Inv'
  <1> DEFINE a == r.cand
             s == [Unborn EXCEPT !.life = "Running", !.deadline = deadline]
  <1>1. Typed /\ QueuesOK  BY DEF Inv, ActorInv
  <1>2. n \in CallState /\ n.on = a /\ n.stage = "Sent" /\ n.op = "Open" /\ n.exec = NoExecution
    <2>1. "Sent" \in Stage /\ "None" \in Answer /\ "Open" \in Operation /\ a \in Somewhere
      BY DEF Stage, Answer, Operation, Somewhere
    <2>2. QED  BY <2>1, CallStateIs
  <1>3. s \in ActorState /\ s.life = "Running" /\ s.flight = NoExecution /\ s.deferred = <<>>
    <2>1. s \in ActorState  BY UnbornTypes, Zenon DEF Life
    <2>2. QED  BY <2>1 DEF Unborn
  <1>4. /\ actor[a].life = "Unborn"
        /\ actor' = [actor EXCEPT ![a] = s]
        /\ call' = [call EXCEPT ![c] = n]
        /\ execQ' = [execQ EXCEPT ![a] = <<c>>]
        /\ UNCHANGED <<ctrlQ, task, unfinished>>
    BY DEF Spawn
  <1> HIDE DEF s, a
  <1>5. a \in Session  BY DEF a
  <1>6. \A b \in Session : c \notin Waiting(b)  BY Nowhere
  <1>7. Waiting(a) = {} /\ ~Flying(a)  BY <1>1, <1>4, <1>5 DEF QueuesOK, Running
  <1>8. <<c>> \in Seq(Client) /\ Elements(<<c>>) = {c} /\ Distinct(<<c>>)
        /\ Elements(<<>>) = {} /\ Distinct(<<>>)
    BY SmallSeqs
  <1>9. Typed'
    <2>1. actor' \in [Session -> ActorState]  BY <1>1, <1>3, <1>4 DEF Typed
    <2>2. execQ' \in [Session -> Seq(Client)]  BY <1>1, <1>4, <1>8 DEF Typed
    <2>3. call' \in [Client -> CallState]  BY <1>1, <1>2, <1>4 DEF Typed
    <2>4. QED  BY <1>1, <1>4, <2>1, <2>2, <2>3 DEF Typed, TableTyped
  <1>10. Books  BY <1>1, <1>4 DEF Books, Typed
  <1>11. /\ actor'[a] = s /\ execQ'[a] = <<c>> /\ ctrlQ'[a] = ctrlQ[a]
         /\ \A b \in Session : b # a =>
               actor'[b] = actor[b] /\ execQ'[b] = execQ[b] /\ ctrlQ'[b] = ctrlQ[b]
    BY <1>1, <1>4, <1>5 DEF Typed
  <1>12. Work(a)' = {c} /\ Control(a)' = {} /\ Sorted(a)'
    <2>1. Elements(ctrlQ[a]) = {}  BY <1>7 DEF Waiting, Control
    <2>2. Work(a)' = {c} /\ Control(a)' = {}  BY <1>3, <1>8, <1>11, <2>1 DEF Work, Control
    <2>3. Distinct(ctrlQ[a])  BY <1>5, SortedIs DEF Sorted
    <2>4. QED  BY <1>3, <1>8, <1>11, <2>2, <2>3 DEF Sorted, Running
  <1>13. ASSUME NEW b \in Session
         PROVE  /\ Sorted(b)'
                /\ Work(b)' \subseteq Work(b) \cup {c} /\ Control(b)' \subseteq Control(b) \cup {c}
                /\ c \in Waiting(b)' => n.on = b /\ n.stage = "Sent"
                /\ c \in Work(b)' => n.op \notin {"Cancel", "InvalidateWorker"}
                /\ c \in Control(b)' => n.op \in {"Cancel", "InvalidateWorker"}
                /\ actor'[b].flight = actor[b].flight
                /\ actor[b].life = "Crashed" => actor'[b].life = "Crashed"
    <2>1. CASE b = a
      <3>1. actor'[a].flight = actor[a].flight  BY <1>3, <1>7, <1>11 DEF Flying
      <3>2. QED  BY <1>2, <1>4, <1>12, <2>1, <3>1
    <2>2. CASE b # a
      <3>1. Work(b)' = Work(b) /\ Control(b)' = Control(b)  BY <1>11, <2>2 DEF Work, Control
      <3>2. Sorted(b)'  BY <1>11, <2>2, <3>1, SortedIs DEF Sorted, Running, Flying, Waiting
      <3>3. c \notin Waiting(b)' /\ c \notin Work(b)' /\ c \notin Control(b)'
        BY <1>6, <3>1 DEF Waiting
      <3>4. QED  BY <1>11, <2>2, <3>1, <3>2, <3>3
    <2>3. QED  BY <2>1, <2>2
  <1>14. \A b \in Session : c \in Work(b)' /\ n.exec # NoExecution =>
            /\ n.exec \in Execution /\ task[n.exec].stage = "None"
            /\ task'[n.exec].stage = "Posted" /\ task'[n.exec].on = b
    BY <1>2
  <1>15. Shape(n) /\ call' = [call EXCEPT ![c] = n]  BY <1>4
  <1>16. QED  BY <1>6, <1>9, <1>10, <1>13, <1>14, <1>15, PutsKeeps, ZenonT(60)

\* A caller that has gone leaves its message where it is.
LEMMA GiveUpInv ==
    ASSUME Inv, NEW c \in Client, GiveUp(c), UNCHANGED <<registryVars, begun>>
    PROVE  Inv'
  <1> DEFINE n == [call[c] EXCEPT !.stage = "Gone", !.answer = "None"]
  <1>1. Typed /\ QueuesOK /\ MessagesOK /\ PostedOK /\ FlightsOK /\ ShapesOK /\ OneExecutionAtATime
    BY DEF Inv, ActorInv
  <1>2. call[c] \in CallState /\ Shape(call[c]) /\ call[c].stage \in {"Sent", "Answered"}
    BY <1>1 DEF Typed, ShapesOK, GiveUp
  <1>3. /\ n.stage = "Gone" /\ n.answer = "None"
        /\ n.plan = call[c].plan /\ n.op = call[c].op /\ n.on = call[c].on /\ n.old = call[c].old
        /\ n.cand = call[c].cand /\ n.mode = call[c].mode /\ n.exec = call[c].exec
        /\ n.lost = call[c].lost
    BY <1>2, CallStateIs
  <1>4. n \in CallState
    <2>1. "Gone" \in Stage /\ "None" \in Answer  BY DEF Stage, Answer
    <2>2. QED  BY <1>2, <2>1, CallTypes
  <1>5. call' = [call EXCEPT ![c] = n] /\ UNCHANGED <<actor, execQ, ctrlQ, task, unfinished>>
    BY DEF GiveUp, actorVars
  <1> HIDE DEF n
  <1>6. call[c].plan # "Out"
    <2>1. call[c].plan = "Out" => call[c] = Out  BY <1>2 DEF Shape
    <2>2. QED  BY <1>2, <2>1 DEF Out
  <1>7. Shape(n)  BY <1>2, <1>3, <1>6 DEF Shape
  <1>8. \A d \in Client : call'[d] = IF d = c THEN n ELSE call[d]  BY <1>1, <1>5 DEF Typed
  <1>9. \A b \in Session : Work(b)' = Work(b) /\ Control(b)' = Control(b) /\ Waiting(b)' = Waiting(b)
    BY <1>5 DEF Work, Control, Waiting
  <1>10. \A b \in Session : Waiting(b) \subseteq Client  BY WaitersApart DEF Inv
  <1>11. Typed'
    <2>1. call' \in [Client -> CallState]  BY <1>1, <1>4, <1>5 DEF Typed
    <2>2. QED  BY <1>1, <1>5, <2>1 DEF Typed, registryVars
  <1>12. QueuesOK'  BY <1>1, <1>5, <1>9 DEF QueuesOK, Running, Flying
  <1>13. ShapesOK'  BY <1>1, <1>7, <1>8 DEF ShapesOK
  <1>14. \A d \in Client :
            /\ call'[d].exec = call[d].exec /\ call'[d].on = call[d].on /\ call'[d].op = call[d].op
            /\ call'[d].stage = call[d].stage \/ call'[d].stage = "Gone"
    BY <1>3, <1>8
  <1>15. MessagesOK'  BY <1>1, <1>9, <1>10, <1>14 DEF MessagesOK, Waiting
  <1>16. PostedOK'
    <2>1. \A b \in Session : \A d \in Work(b) : call'[d].exec = call[d].exec
      BY <1>10, <1>14 DEF Waiting
    <2>2. QED  BY <1>1, <1>5, <1>9, <2>1 DEF PostedOK
  <1>17. FlightsOK' /\ OneExecutionAtATime'
    BY <1>1, <1>5 DEF FlightsOK, Flying, OneExecutionAtATime
  <1>18. QED  BY <1>11, <1>12, <1>13, <1>15, <1>16, <1>17 DEF Inv, ActorInv

\* The table is of its type; the account can be counted.
LEMMA TableKeeps ==
    ASSUME Inv
    PROVE  /\ TableTyped /\ Cardinality(stale) \in Nat
           /\ UNCHANGED task => Books
  <1>1. Typed  BY DEF Inv, ActorInv
  <1>2. IsFiniteSet(stale)  BY <1>1, FiniteAssumption, FS_Subset DEF Typed
  <1>3. Cardinality(stale) \in Nat  BY <1>2, FS_CardinalityType
  <1>4. UNCHANGED task => Books  BY <1>1 DEF Books, Typed
  <1>5. QED  BY <1>1, <1>3, <1>4 DEF Typed, TableTyped

\* A call that begins leaves the table in its type.
LEMMA CallsTable ==
    ASSUME Inv, NEW c, NEW what, Calls(c, what), UNCHANGED <<rows, stale>>, quota' \in Int
    PROVE  TableTyped' /\ call[c].stage = "Out"
  <1>1. begun \in 0..MaxCalls /\ MaxCalls \in Nat /\ begun < MaxCalls /\ begun' = begun + 1
    BY RegistryAssumption DEF Inv, ActorInv, Typed, Calls
  <1>2. begun' \in 0..MaxCalls  BY <1>1
  <1>3. QED  BY <1>2 DEF Inv, ActorInv, Typed, TableTyped, Calls

\* A call that sends its first message.
LEMMA FirstSend ==
    ASSUME Inv, NEW c \in Client, NEW what, Calls(c, what), UNCHANGED <<actor, unfinished, registryVars>>,
           Books,
           NEW r \in CallState, r.on \in Session,
           Shape([r EXCEPT !.stage = "Sent", !.answer = "None"]),
           \/ /\ Send(c, r) /\ r.op \notin {"Cancel", "InvalidateWorker"}
              /\ r.exec # NoExecution /\ Running(r.on) =>
                    /\ task[r.exec].stage = "None"
                    /\ task'[r.exec].stage = "Posted" /\ task'[r.exec].on = r.on
           \/ /\ SendControl(c, r) /\ r.op \in {"Cancel", "InvalidateWorker"}
    PROVE  Inv'
  <1>1. quota' \in Int /\ UNCHANGED <<rows, stale>>  BY DEF registryVars, Inv, ActorInv, Typed
  <1>2. TableTyped' /\ call[c].stage = "Out"  BY <1>1, CallsTable
  <1>3. QED  BY <1>2, SendInv

\* A call that begins keeps the invariant.
LEMMA BeginsInv == ASSUME Inv, NEW c \in Client, Begins(c) PROVE Inv'
  <1>1. Typed  BY DEF Inv, ActorInv
  <1>2. ASSUME ConfirmQuarantined(c) PROVE Inv'
    <2>1. Calls(c, "Confirm") /\ UNCHANGED <<actorVars, call, rows>> /\ stale' = {}
          /\ quota' = quota - Cardinality(stale)
      BY <1>2 DEF ConfirmQuarantined
    <2>2. call[c].stage = "Out" /\ begun' \in 0..MaxCalls
      <3>1. begun \in 0..MaxCalls /\ MaxCalls \in Nat  BY <1>1, RegistryAssumption DEF Typed
      <3>2. QED  BY <2>1, <3>1 DEF Calls
    <2>3. quota' \in Int  BY <1>1, <2>1, TableKeeps DEF Typed
    <2>4. TableTyped'  BY <1>1, <2>1, <2>2, <2>3 DEF TableTyped, Typed
    <2>5. call[c] \in CallState /\ Shape(call[c]) /\ call' = [call EXCEPT ![c] = call[c]]
      BY <1>1, <2>1 DEF Typed, Inv, ActorInv, ShapesOK
    <2>6. QED  BY <2>1, <2>2, <2>4, <2>5, TableKeeps, MoveInv DEF actorVars
  <1>3. ASSUME NEW what \in {"Evict", "InvalidateWorker"}, Scan(c, what) PROVE Inv'
    <2> DEFINE n == [Out EXCEPT !.plan = what, !.left = rows, !.stage = "Choosing"]
    <2>1. Calls(c, what) /\ call' = [call EXCEPT ![c] = n] /\ UNCHANGED <<actorVars, registryVars>>
      BY <1>3 DEF Scan
    <2>2. n \in CallState  BY <1>1, OutType, CallStateIs DEF Typed, Plan, Stage
    <2>3. Shape(n)  BY ActorAssumption DEF Shape, Out, Executes
    <2>4. TableTyped' /\ call[c].stage = "Out"  BY <1>1, <2>1, CallsTable DEF registryVars, Typed
    <2> HIDE DEF n
    <2>5. QED  BY <2>1, <2>2, <2>3, <2>4, TableKeeps, MoveInv DEF actorVars
  <1>4. ASSUME NEW a \in Session, Register(c, a) PROVE Inv'
    <2> DEFINE r == [Out EXCEPT !.plan = "Register", !.cand = a]
               n == [r EXCEPT !.op = "Open", !.on = r.cand, !.stage = "Sent", !.answer = "None"]
    <2>1. Calls(c, "Register") /\ Spawn(c, r, IdleEviction) /\ UNCHANGED <<rows, stale>>
      BY <1>4 DEF Register
    <2>2. quota' \in Int  BY <1>1, <2>1 DEF Spawn, Typed
    <2>3. TableTyped' /\ call[c].stage = "Out"  BY <2>1, <2>2, CallsTable
    <2>4. r \in CallState /\ r.cand = a /\ r.exec = NoExecution
      BY OutType, CallStateIs DEF Plan, Somewhere, Out
    <2>5. Shape(n)  BY ActorAssumption DEF Shape, Out, Executes
    <2>6. IdleEviction \in BOOLEAN  BY RegistryAssumption
    <2> DEFINE m == n
    <2>7. m = [r EXCEPT !.op = "Open", !.on = r.cand, !.stage = "Sent", !.answer = "None"] /\ Shape(m)
      BY <2>5
    <2> HIDE DEF r, m, n
    <2>8. QED  BY <2>1, <2>3, <2>4, <2>6, <2>7, SpawnInv
  <1>5. ASSUME NEW a \in Session, CallView(c, a) PROVE Inv'
    <2> DEFINE r == [Out EXCEPT !.plan = "View", !.op = "View", !.on = a]
    <2>1. Calls(c, "View") /\ Send(c, r) /\ UNCHANGED <<actor, task, unfinished, registryVars>>
      BY <1>5 DEF CallView
    <2>2. r \in CallState /\ r.on = a /\ Shape([r EXCEPT !.stage = "Sent", !.answer = "None"])
      BY ActorAssumption, OutType, CallStateIs, ZenonT(60) DEF Shape, Out, Executes, Plan, Operation, Somewhere
    <2>3. r.op = "View" /\ r.exec = NoExecution  BY DEF Out
    <2> HIDE DEF r
    <2>4. QED  BY <2>1, <2>2, <2>3, TableKeeps, FirstSend
  <1>6. ASSUME NEW a \in Session, CallReplace(c, a) PROVE Inv'
    <2> DEFINE r == [Out EXCEPT !.plan = "Replace", !.op = "View", !.on = a, !.old = a]
    <2>1. Calls(c, "Replace") /\ Send(c, r) /\ UNCHANGED <<actor, task, unfinished, registryVars>>
      BY <1>6 DEF CallReplace
    <2>2. r \in CallState /\ r.on = a /\ Shape([r EXCEPT !.stage = "Sent", !.answer = "None"])
      BY ActorAssumption, OutType, CallStateIs, ZenonT(60) DEF Shape, Out, Executes, Plan, Operation, Somewhere
    <2>3. r.op = "View" /\ r.exec = NoExecution  BY DEF Out
    <2> HIDE DEF r
    <2>4. QED  BY <2>1, <2>2, <2>3, TableKeeps, FirstSend
  <1>7. ASSUME NEW a \in Session, NEW arms \in BOOLEAN, CallSetIdleDeadline(c, a, arms) PROVE Inv'
    <2> DEFINE r == [Out EXCEPT !.plan = "SetIdleDeadline", !.op = "SetIdleDeadline", !.on = a,
                                !.arms = arms]
    <2>1. Calls(c, "SetIdleDeadline") /\ Send(c, r) /\ UNCHANGED <<actor, task, unfinished, registryVars>>
      BY <1>7 DEF CallSetIdleDeadline
    <2>2. r \in CallState /\ r.on = a /\ Shape([r EXCEPT !.stage = "Sent", !.answer = "None"])
      BY ActorAssumption, OutType, CallStateIs, ZenonT(60) DEF Shape, Out, Executes, Plan, Operation, Somewhere
    <2>3. r.op = "SetIdleDeadline" /\ r.exec = NoExecution  BY DEF Out
    <2> HIDE DEF r
    <2>4. QED  BY <2>1, <2>2, <2>3, TableKeeps, FirstSend
  <1>8. ASSUME NEW a \in Session, NEW mode \in {"RequireNoTransaction", "RollbackAndClose"},
               CallClose(c, a, mode)
        PROVE  Inv'
    <2> DEFINE r == [Out EXCEPT !.plan = "Close", !.op = "Close", !.on = a, !.mode = mode]
    <2>1. Calls(c, "Close") /\ Send(c, r) /\ UNCHANGED <<actor, task, unfinished, registryVars>>
      BY <1>8 DEF CallClose
    <2>2. r \in CallState /\ r.on = a /\ Shape([r EXCEPT !.stage = "Sent", !.answer = "None"])
      BY ActorAssumption, OutType, CallStateIs, ZenonT(60) DEF Shape, Out, Executes, Plan, Operation, Somewhere
    <2>3. r.op = "Close" /\ r.exec = NoExecution  BY DEF Out
    <2> HIDE DEF r
    <2>4. QED  BY <2>1, <2>2, <2>3, TableKeeps, FirstSend
  <1>9. ASSUME NEW a \in Session, NEW e \in Execution, CallCancel(c, a, e) PROVE Inv'
    <2> DEFINE r == [Out EXCEPT !.plan = "Cancel", !.op = "Cancel", !.on = a, !.exec = e]
    <2>1. Calls(c, "Cancel") /\ SendControl(c, r) /\ UNCHANGED <<actor, task, unfinished, registryVars>>
      BY <1>9 DEF CallCancel
    <2>2. r \in CallState /\ r.on = a /\ Shape([r EXCEPT !.stage = "Sent", !.answer = "None"])
      BY ActorAssumption, OutType, CallStateIs, ZenonT(60) DEF Shape, Out, Executes, Plan, Operation, Somewhere
    <2>3. r.op = "Cancel"  BY DEF Out
    <2> HIDE DEF r
    <2>4. QED  BY <2>1, <2>2, <2>3, TableKeeps, FirstSend
  <1>10. ASSUME NEW a \in Session, NEW e \in Execution, NEW op \in {"Execute", "ExecuteBound"},
                CallExecute(c, a, op, e)
         PROVE  Inv'
    <2> DEFINE r == [Out EXCEPT !.plan = "Execute", !.op = op, !.on = a, !.exec = e,
                                !.revision = actor[a].revision]
               stage == IF Running(a) THEN "Posted" ELSE "Refused"
               t == [task[e] EXCEPT !.stage = stage, !.on = a]
    <2>1. /\ Calls(c, op) /\ Send(c, r) /\ UNCHANGED <<actor, unfinished, registryVars>>
          /\ task[e].stage = "None"
          /\ task' = [task EXCEPT ![e].stage = stage, ![e].on = a]
      BY <1>10 DEF CallExecute
    <2>2. actor[a].revision \in 0..MaxRevision  BY <1>1, ActorStateIs DEF Typed
    <2>3. r \in CallState /\ r.on = a
      BY <2>2, OutType, CallStateIs DEF Plan, Operation, Somewhere
    <2>4. Shape([r EXCEPT !.stage = "Sent", !.answer = "None"])
      BY ActorAssumption DEF Shape, Out, Executes
    <2>5. r.op = op /\ r.exec = e  BY DEF Out
    <2> HIDE DEF r
    <2>6. task[e] \in TaskState  BY <1>1 DEF Typed
    <2>7. /\ t \in TaskState /\ t.stage = stage /\ t.on = a /\ t.handle = task[e].handle
          /\ t.asked = task[e].asked /\ t.told = task[e].told
      <3>1. stage \in TaskStage  BY DEF TaskStage
      <3> HIDE DEF stage
      <3>2. t \in TaskState  BY <2>6, <3>1, TaskTypes
      <3>3. QED  BY <2>6, <3>2, TaskStateIs
    <2>8. task' = [task EXCEPT ![e] = t]  BY <2>1
    <2> HIDE DEF t
    <2>9. task'[e] = t /\ \A f \in Execution : f # e => task'[f] = task[f]  BY <1>1, <2>8 DEF Typed
    <2>10. task' \in [Execution -> TaskState]  BY <1>1, <2>7, <2>8 DEF Typed
    <2>11. stage \in {"Posted", "Refused"} /\ (Running(a) => stage = "Posted")  OBVIOUS
    <2> HIDE DEF stage
    <2>12. Books  BY <2>1, <2>7, <2>9, <2>10, <2>11 DEF Books
    <2>13. /\ Send(c, r) /\ r.op \notin {"Cancel", "InvalidateWorker"}
           /\ r.exec # NoExecution /\ Running(r.on) =>
                 /\ task[r.exec].stage = "None"
                 /\ task'[r.exec].stage = "Posted" /\ task'[r.exec].on = r.on
      BY <2>1, <2>3, <2>5, <2>7, <2>9, <2>11
    <2>14. QED  BY <2>1, <2>3, <2>4, <2>12, <2>13, FirstSend
  <1>11. QED
    BY <1>2, <1>3, <1>4, <1>5, <1>6, <1>7, <1>8, <1>9, <1>10 DEF Begins

\* What a call becomes on its way.
LEMMA VisitShape ==
    ASSUME NEW r \in CallState, Shape(r), r.stage = "Choosing", NEW a \in Session
    PROVE  LET n == [r EXCEPT !.on = a, !.left = @ \ {a}, !.op = r.plan] IN
           /\ n \in CallState /\ n.on = a /\ n.op = r.plan /\ n.exec = NoExecution
           /\ r.plan \in {"Evict", "InvalidateWorker"}
           /\ Shape([n EXCEPT !.stage = "Sent", !.answer = "None"])
  <1> DEFINE n == [r EXCEPT !.on = a, !.left = @ \ {a}, !.op = r.plan]
             m == [n EXCEPT !.stage = "Sent", !.answer = "None"]
  <1>1. r.plan \in {"Evict", "InvalidateWorker"} /\ r.exec = NoExecution /\ r.cand = NoSession
        /\ r.old = NoSession
    BY DEF Shape
  <1>2. n \in CallState  BY <1>1, CallStateIs DEF Operation, Somewhere
  <1>3. n.on = a /\ n.op = r.plan /\ n.exec = NoExecution  BY <1>1, CallStateIs
  <1>4. /\ m.stage = "Sent" /\ m.answer = "None" /\ m.plan = r.plan /\ m.op = r.plan /\ m.on = a
        /\ m.exec = NoExecution /\ m.cand = NoSession /\ m.old = NoSession /\ m.lost = r.lost
    BY <1>1, CallStateIs
  <1> HIDE DEF m
  <1>5. Shape(m)  BY <1>1, <1>4 DEF Shape, Executes
  <1>6. QED  BY <1>1, <1>2, <1>3, <1>5 DEF m

\* A scan that moves on keeps its shape.
LEMMA ChooseShape ==
    ASSUME NEW r \in CallState, Shape(r), r.stage = "Answered",
           r.plan \in {"Evict", "InvalidateWorker"}, NEW X \in SUBSET Session,
           X = r.lost \/ r.plan = "InvalidateWorker"
    PROVE  LET n == [r EXCEPT !.lost = X, !.stage = "Choosing", !.on = NoSession] IN
           n \in CallState /\ Shape(n)
  <1> DEFINE n == [r EXCEPT !.lost = X, !.stage = "Choosing", !.on = NoSession]
  <1>1. n \in CallState  BY CallStateIs DEF Stage, Somewhere
  <1>2. /\ n.stage = "Choosing" /\ n.plan = r.plan /\ n.op = r.op /\ n.on = NoSession
        /\ n.exec = r.exec /\ n.cand = r.cand /\ n.old = r.old /\ n.lost = X
    BY CallStateIs
  <1> HIDE DEF n
  <1>3. r.exec = NoExecution /\ r.cand = NoSession /\ r.old = NoSession /\ r.op = r.plan
    BY DEF Shape
  <1>4. Shape(n)  BY <1>2, <1>3 DEF Shape, Executes
  <1>5. QED  BY <1>1, <1>4 DEF n

\* The steps of a replacement.
LEMMA ReplaceShape ==
    ASSUME NEW r \in CallState, Shape(r), r.stage = "Answered", r.plan = "Replace"
    PROVE  /\ r.old \in Session
           /\ r.op # "View" => r.cand \in Session
           /\ r.op = "View" => \A a \in Session :
                 LET n == [r EXCEPT !.cand = a] IN
                 /\ n \in CallState /\ n.cand = a /\ n.exec = NoExecution
                 /\ Shape([n EXCEPT !.op = "Open", !.on = n.cand, !.stage = "Sent", !.answer = "None"])
           /\ r.op \in {"Open", "Hold"} => \A op \in {"Hold", "Close"} :
                 LET n == [r EXCEPT !.op = op, !.on = r.old] IN
                 /\ n \in CallState /\ n.on = r.old /\ n.exec = NoExecution /\ n.op = op
                 /\ Shape([n EXCEPT !.stage = "Sent", !.answer = "None"])
                 /\ op = "Close" => /\ [n EXCEPT !.stage = "Publishing"] \in CallState
                                    /\ Shape([n EXCEPT !.stage = "Publishing"])
           /\ r.op = "Close" => /\ [r EXCEPT !.stage = "Publishing"] \in CallState
                                /\ Shape([r EXCEPT !.stage = "Publishing"])
           /\ r.op \in {"Open", "Hold"} => \A plan \in {"Undo", "UndoHeld"} :
                 LET n == [r EXCEPT !.plan = plan, !.op = "Close", !.on = r.cand] IN
                 /\ n \in CallState /\ n.on = r.cand /\ n.exec = NoExecution /\ n.op = "Close"
                 /\ Shape([n EXCEPT !.stage = "Sent", !.answer = "None"])
  <1>1. r.exec = NoExecution /\ r.old \in Session /\ (r.op # "View" => r.cand \in Session) /\ r.lost = {}
         /\ r.mode = "RollbackAndClose"
    BY CallStateIs DEF Shape, Somewhere
  <1>2. ASSUME r.op = "View", NEW a \in Session
        PROVE  LET n == [r EXCEPT !.cand = a] IN
                 /\ n \in CallState /\ n.cand = a /\ n.exec = NoExecution
                 /\ Shape([n EXCEPT !.op = "Open", !.on = n.cand, !.stage = "Sent", !.answer = "None"])
    <2> DEFINE n == [r EXCEPT !.cand = a]
               m == [n EXCEPT !.op = "Open", !.on = n.cand, !.stage = "Sent", !.answer = "None"]
    <2>1. n \in CallState /\ n.cand = a /\ n.exec = NoExecution  BY <1>1, CallStateIs DEF Somewhere
    <2>2. /\ m.stage = "Sent" /\ m.answer = "None" /\ m.plan = "Replace" /\ m.op = "Open" /\ m.on = a
          /\ m.exec = NoExecution /\ m.cand = a /\ m.old = r.old /\ m.lost = {} /\ m.mode = r.mode
      BY <1>1, CallStateIs
    <2> HIDE DEF m
    <2>3. Shape(m)  BY <1>1, <2>2, ActorAssumption DEF Shape, Executes
    <2>4. QED  BY <2>1, <2>3 DEF m
  <1>3. ASSUME r.op \in {"Open", "Hold"}, NEW op \in {"Hold", "Close"}
        PROVE  LET n == [r EXCEPT !.op = op, !.on = r.old] IN
                 /\ n \in CallState /\ n.on = r.old /\ n.exec = NoExecution /\ n.op = op
                 /\ Shape([n EXCEPT !.stage = "Sent", !.answer = "None"])
                 /\ op = "Close" => /\ [n EXCEPT !.stage = "Publishing"] \in CallState
                                    /\ Shape([n EXCEPT !.stage = "Publishing"])
    <2> DEFINE n == [r EXCEPT !.op = op, !.on = r.old]
               m == [n EXCEPT !.stage = "Sent", !.answer = "None"]
               p == [n EXCEPT !.stage = "Publishing"]
    <2>1. /\ n \in CallState /\ n.on = r.old /\ n.exec = NoExecution /\ n.op = op
          /\ n.plan = "Replace" /\ n.cand = r.cand /\ n.old = r.old /\ n.lost = {} /\ n.mode = r.mode
      BY <1>1, CallStateIs DEF Operation
    <2>2. /\ m.stage = "Sent" /\ m.answer = "None" /\ m.plan = "Replace" /\ m.op = op /\ m.on = r.old
          /\ m.exec = NoExecution /\ m.cand = r.cand /\ m.old = r.old /\ m.lost = {} /\ m.mode = r.mode
      BY <1>1, CallStateIs
    <2>3. /\ p.stage = "Publishing" /\ p.plan = "Replace" /\ p.op = op /\ p.on = r.old
          /\ p.exec = NoExecution /\ p.cand = r.cand /\ p.old = r.old /\ p.lost = {} /\ p.mode = r.mode
      BY <1>1, CallStateIs
    <2>4. p \in CallState
      <3>1. "Publishing" \in Stage  BY DEF Stage
      <3> HIDE DEF n
      <3>2. QED  BY <2>1, <3>1, CallTypes
    <2> HIDE DEF n, m, p
    <2>5. r.cand # NoSession /\ r.old # NoSession  BY <1>1, <1>3, ActorAssumption
    <2>6. Shape(m)  BY <1>1, <2>2, <2>5 DEF Shape, Executes
    <2>7. op = "Close" => Shape(p)  BY <1>1, <2>3, <2>5 DEF Shape, Executes
    <2>8. QED  BY <2>1, <2>4, <2>6, <2>7 DEF m, p, n
  <1>4. ASSUME r.op = "Close"
        PROVE  /\ [r EXCEPT !.stage = "Publishing"] \in CallState
               /\ Shape([r EXCEPT !.stage = "Publishing"])
    <2> DEFINE p == [r EXCEPT !.stage = "Publishing"]
    <2>1. "Publishing" \in Stage  BY DEF Stage
    <2>2. p \in CallState  BY <2>1, CallTypes
    <2>3. /\ p.stage = "Publishing" /\ p.plan = "Replace" /\ p.op = "Close" /\ p.on = r.on
          /\ p.exec = NoExecution /\ p.cand = r.cand /\ p.old = r.old /\ p.lost = {} /\ p.mode = r.mode
      BY <1>1, <1>4, CallStateIs
    <2> HIDE DEF p
    <2>4. r.cand # NoSession /\ r.old # NoSession /\ r.on = r.old
      BY <1>1, <1>4, ActorAssumption DEF Shape
    <2>5. Shape(p)  BY <1>1, <2>3, <2>4 DEF Shape, Executes
    <2>6. QED  BY <2>2, <2>5 DEF p
  <1>5. ASSUME r.op \in {"Open", "Hold"}, NEW plan \in {"Undo", "UndoHeld"}
        PROVE  LET n == [r EXCEPT !.plan = plan, !.op = "Close", !.on = r.cand] IN
                 /\ n \in CallState /\ n.on = r.cand /\ n.exec = NoExecution /\ n.op = "Close"
                 /\ Shape([n EXCEPT !.stage = "Sent", !.answer = "None"])
    <2> DEFINE n == [r EXCEPT !.plan = plan, !.op = "Close", !.on = r.cand]
               m == [n EXCEPT !.stage = "Sent", !.answer = "None"]
    <2>1. n \in CallState /\ n.on = r.cand /\ n.exec = NoExecution /\ n.op = "Close"
      BY <1>1, CallStateIs DEF Operation, Plan
    <2>2. /\ m.stage = "Sent" /\ m.answer = "None" /\ m.plan = plan /\ m.op = "Close" /\ m.on = r.cand
          /\ m.exec = NoExecution /\ m.cand = r.cand /\ m.old = r.old /\ m.lost = {} /\ m.mode = r.mode
      BY <1>1, CallStateIs
    <2> HIDE DEF m
    <2>3. r.cand # NoSession /\ r.old # NoSession /\ r.cand \in Session
      BY <1>1, <1>5, ActorAssumption
    <2>4. Shape(m)  BY <1>1, <2>2, <2>3 DEF Shape, Executes
    <2>5. QED  BY <2>1, <2>4 DEF m
  <1>6. QED  BY <1>1, <1>2, <1>3, <1>4, <1>5

\* A replacement that lifts the gate keeps its shape.
LEMMA ResumeShape ==
    ASSUME NEW r \in CallState, Shape(r), r.stage = "Answered", r.plan = "UndoHeld"
    PROVE  LET n == [r EXCEPT !.op = "Resume", !.on = r.old, !.cand = NoSession] IN
           /\ n \in CallState /\ n.on = r.old /\ r.old \in Session /\ n.exec = NoExecution
           /\ n.op = "Resume"
           /\ Shape([n EXCEPT !.stage = "Sent", !.answer = "None"])
  <1> DEFINE n == [r EXCEPT !.op = "Resume", !.on = r.old, !.cand = NoSession]
             m == [n EXCEPT !.stage = "Sent", !.answer = "None"]
  <1>1. r.exec = NoExecution /\ r.old \in Session /\ r.lost = {}
    BY CallStateIs DEF Shape, Somewhere
  <1>2. n \in CallState /\ n.on = r.old /\ n.exec = NoExecution /\ n.op = "Resume"
    BY <1>1, CallStateIs DEF Operation, Somewhere
  <1>3. /\ m.stage = "Sent" /\ m.answer = "None" /\ m.plan = "UndoHeld" /\ m.op = "Resume"
        /\ m.on = r.old /\ m.exec = NoExecution /\ m.cand = NoSession /\ m.old = r.old /\ m.lost = {}
    BY <1>1, CallStateIs
  <1> HIDE DEF m
  <1>4. Shape(m)  BY <1>1, <1>3, ActorAssumption DEF Shape, Executes
  <1>5. QED  BY <1>1, <1>2, <1>4 DEF m

\* A call that returns keeps the invariant.
LEMMA ReturnsInv ==
    ASSUME Inv, NEW c \in Client, call[c].stage \notin {"Sent", "Gone"}, Returns(c),
           UNCHANGED actorVars, TableTyped'
    PROVE  Inv'
  <1>1. call' = [call EXCEPT ![c] = Out] /\ UNCHANGED <<actor, execQ, ctrlQ, task, unfinished>>
    BY DEF Returns, actorVars
  <1>2. QED  BY <1>1, OutType, ShapeOut, TableKeeps, MoveInv

\* A row that goes leaves the table in its type.
LEMMA ForgetTyped ==
    ASSUME Inv, NEW a, Forget(a) \/ UNCHANGED <<rows, quota>>
    PROVE  rows' \subseteq Session /\ quota' \in Int
  BY DEF Forget, Inv, ActorInv, Typed

\* The answer to a call that is a scan.
LEMMA MovesOnInv ==
    ASSUME Inv, NEW c \in Client, NEW plan \in {"Evict", "InvalidateWorker"}, Answered(c, plan),
           NEW X \in SUBSET Session, X = call[c].lost \/ plan = "InvalidateWorker",
           MovesOn(c, [call[c] EXCEPT !.lost = X]), UNCHANGED actorVars, TableTyped'
    PROVE  Inv'
  <1> DEFINE n == [call[c] EXCEPT !.lost = X, !.stage = "Choosing", !.on = NoSession]
  <1>1. call[c] \in CallState /\ Shape(call[c])  BY Callers DEF Inv
  <1>2. n \in CallState /\ Shape(n)  BY <1>1, ChooseShape DEF Answered
  <1>3. call' = [call EXCEPT ![c] = n] /\ UNCHANGED <<actor, execQ, ctrlQ, task, unfinished>>
    BY DEF MovesOn, actorVars
  <1> HIDE DEF n
  <1>4. QED  BY <1>2, <1>3, TableKeeps, MoveInv DEF Answered

\* A scan that goes on keeps the invariant.
LEMMA ScansInv ==
    ASSUME Inv, NEW c \in Client, UNCHANGED begun,
           Evicted(c) \/ Invalidated(c) \/ \E a \in Session : Visit(c, a)
    PROVE  Inv'
  <1>1. Typed /\ call[c] \in CallState /\ Shape(call[c]) /\ TableTyped
    BY Callers, TableKeeps DEF Inv, ActorInv
  <1>2. call[c].lost \in SUBSET Session  BY <1>1, CallStateIs
  <1>3. call[c] = [call[c] EXCEPT !.lost = call[c].lost]  BY <1>1, CallStateIs
  <1>4. CASE Evicted(c)
    <2>1. TableTyped'  BY <1>1, <1>4, ForgetTyped DEF Evicted, TableTyped
    <2>2. MovesOn(c, [call[c] EXCEPT !.lost = call[c].lost]) /\ UNCHANGED actorVars
          /\ Answered(c, "Evict")
      BY <1>3, <1>4 DEF Evicted
    <2>3. QED  BY <1>2, <2>1, <2>2, MovesOnInv
  <1>5. CASE Invalidated(c)
    <2>1. TableTyped'  BY <1>1, <1>5 DEF Invalidated, TableTyped
    <2>2. UNCHANGED actorVars /\ Answered(c, "InvalidateWorker")  BY <1>5 DEF Invalidated
    <2>3. CASE MovesOn(c, [call[c] EXCEPT !.lost = @ \cup (rows \cap {call[c].on})])
      <3> DEFINE X == call[c].lost \cup (rows \cap {call[c].on})
      <3>1. X \in SUBSET Session  BY <1>1, <1>2 DEF Typed
      <3>2. MovesOn(c, [call[c] EXCEPT !.lost = X])  BY <2>3
      <3> HIDE DEF X
      <3>3. QED  BY <2>1, <2>2, <3>1, <3>2, MovesOnInv
    <2>4. CASE MovesOn(c, call[c])
      <3>1. MovesOn(c, [call[c] EXCEPT !.lost = call[c].lost])  BY <1>3, <2>4
      <3>2. QED  BY <1>2, <2>1, <2>2, <3>1, MovesOnInv
    <2>5. QED  BY <1>5, <2>3, <2>4 DEF Invalidated
  <1>6. ASSUME NEW a \in Session, Visit(c, a) PROVE Inv'
    <2> DEFINE n == [call[c] EXCEPT !.on = a, !.left = @ \ {a}, !.op = call[c].plan]
    <2>1. /\ call[c].stage = "Choosing" /\ UNCHANGED <<actor, task, unfinished, registryVars>>
          /\ \/ call[c].plan = "Evict" /\ Send(c, n)
             \/ call[c].plan = "InvalidateWorker" /\ SendControl(c, n)
      BY <1>6, ZenonT(60) DEF Visit
    <2>2. /\ n \in CallState /\ n.on = a /\ n.op = call[c].plan /\ n.exec = NoExecution
          /\ Shape([n EXCEPT !.stage = "Sent", !.answer = "None"])
      BY <1>1, <2>1, VisitShape
    <2>3. TableTyped'  BY <1>1, <2>1 DEF TableTyped, registryVars
    <2> HIDE DEF n
    <2>4. QED  BY <2>1, <2>2, <2>3, TableKeeps, SendInv, ZenonT(60)
  <1>7. QED  BY <1>4, <1>5, <1>6

\* A replacement that goes on keeps the invariant.
LEMMA ReplacesInv ==
    ASSUME Inv, NEW c \in Client, UNCHANGED begun,
           \/ HoldOld(c) \/ RetireOld(c) \/ OldRetired(c) \/ UndoReplace(c) \/ CandidateDestroyed(c)
           \/ \E a \in Session : OpenCandidate(c, a)
    PROVE  Inv'
  <1>1. Typed /\ call[c] \in CallState /\ Shape(call[c]) /\ TableTyped
    BY Callers, TableKeeps DEF Inv, ActorInv
  <1>2. ASSUME NEW a \in Session, OpenCandidate(c, a) PROVE Inv'
    <2> DEFINE r == [call[c] EXCEPT !.cand = a]
               n == [r EXCEPT !.op = "Open", !.on = r.cand, !.stage = "Sent", !.answer = "None"]
    <2>1. AtStep(c, "Replace", "View") /\ Spawn(c, r, FALSE) /\ UNCHANGED <<rows, stale>>
      BY <1>2, Zenon DEF OpenCandidate
    <2>2. call[c].stage = "Answered" /\ call[c].plan = "Replace" /\ call[c].op = "View"
      BY <2>1 DEF AtStep, Answered
    <2>3. r \in CallState /\ r.cand = a /\ r.exec = NoExecution /\ Shape(n)
      BY <1>1, <2>2, ReplaceShape, Zenon
    <2>4. quota' \in Int  BY <1>1, <2>1 DEF Spawn, Typed
    <2>5. TableTyped'  BY <1>1, <2>1, <2>4 DEF TableTyped
    <2> DEFINE m == n
    <2>6. m = [r EXCEPT !.op = "Open", !.on = r.cand, !.stage = "Sent", !.answer = "None"] /\ Shape(m)
      BY <2>3
    <2> HIDE DEF m, n, r
    <2>7. QED  BY <2>1, <2>2, <2>3, <2>5, <2>6, SpawnInv
  <1>3. CASE HoldOld(c)
    <2> DEFINE n == [call[c] EXCEPT !.op = "Hold", !.on = call[c].old]
    <2>1. AtStep(c, "Replace", "Open") /\ Send(c, n) /\ UNCHANGED <<actor, task, unfinished, registryVars>>
      BY <1>3 DEF HoldOld
    <2>2. call[c].stage = "Answered" /\ call[c].plan = "Replace" /\ call[c].op = "Open"
      BY <2>1 DEF AtStep, Answered
    <2>3. /\ n \in CallState /\ n.on \in Session /\ n.exec = NoExecution /\ n.op = "Hold"
          /\ Shape([n EXCEPT !.stage = "Sent", !.answer = "None"])
      BY <1>1, <2>2, ReplaceShape, Zenon
    <2>4. TableTyped'  BY <1>1, <2>1 DEF TableTyped, registryVars
    <2> HIDE DEF n
    <2>5. QED  BY <2>1, <2>2, <2>3, <2>4, TableKeeps, SendInv
  <1>4. CASE RetireOld(c)
    <2> DEFINE n == [call[c] EXCEPT !.op = "Close", !.on = call[c].old]
               p == [n EXCEPT !.stage = "Publishing"]
    <2>1. /\ AtStep(c, "Replace", "Hold") /\ UNCHANGED <<actor, task, unfinished, registryVars>>
          /\ \/ Send(c, n)
             \/ call' = [call EXCEPT ![c] = p] /\ UNCHANGED <<execQ, ctrlQ>>
      BY <1>4 DEF RetireOld
    <2>2. call[c].stage = "Answered" /\ call[c].plan = "Replace" /\ call[c].op = "Hold"
      BY <2>1 DEF AtStep, Answered
    <2>3. /\ n \in CallState /\ n.on \in Session /\ n.exec = NoExecution /\ n.op = "Close"
          /\ Shape([n EXCEPT !.stage = "Sent", !.answer = "None"])
          /\ p \in CallState /\ Shape(p)
      BY <1>1, <2>2, ReplaceShape, Zenon
    <2>4. TableTyped'  BY <1>1, <2>1 DEF TableTyped, registryVars
    <2> HIDE DEF n, p
    <2>5. CASE Send(c, n)  BY <2>1, <2>2, <2>3, <2>4, <2>5, TableKeeps, SendInv
    <2>6. CASE call' = [call EXCEPT ![c] = p] /\ UNCHANGED <<execQ, ctrlQ>>
      BY <2>1, <2>2, <2>3, <2>4, <2>6, TableKeeps, MoveInv
    <2>7. QED  BY <2>1, <2>5, <2>6
  <1>5. CASE OldRetired(c)
    <2> DEFINE p == [call[c] EXCEPT !.stage = "Publishing"]
    <2>1. /\ AtStep(c, "Replace", "Close") /\ UNCHANGED <<actorVars, stale>>
          /\ call' = [call EXCEPT ![c] = p]
      BY <1>5 DEF OldRetired
    <2>2. call[c].stage = "Answered" /\ call[c].plan = "Replace" /\ call[c].op = "Close"
      BY <2>1 DEF AtStep, Answered
    <2>3. p \in CallState /\ Shape(p)  BY <1>1, <2>2, ReplaceShape, Zenon
    <2>4. TableTyped'  BY <1>1, <1>5, <2>1, ForgetTyped DEF OldRetired, TableTyped
    <2> HIDE DEF p
    <2>5. QED  BY <2>1, <2>2, <2>3, <2>4, TableKeeps, MoveInv DEF actorVars
  <1>6. CASE UndoReplace(c)
    <2> DEFINE gated == call[c].op = "Hold" /\ call[c].answer = "Ok"
               plan == IF gated THEN "UndoHeld" ELSE "Undo"
               n == [call[c] EXCEPT !.plan = plan, !.op = "Close", !.on = call[c].cand]
    <2>1. /\ AtStep(c, "Replace", "Open") \/ AtStep(c, "Replace", "Hold")
          /\ Send(c, n) /\ UNCHANGED <<actor, task, unfinished, registryVars>>
      BY <1>6 DEF UndoReplace
    <2>2. call[c].stage = "Answered" /\ call[c].plan = "Replace" /\ call[c].op \in {"Open", "Hold"}
      BY <2>1 DEF AtStep, Answered
    <2>3. plan \in {"Undo", "UndoHeld"}  OBVIOUS
    <2> HIDE DEF plan
    <2>4. /\ n \in CallState /\ n.on \in Session /\ n.exec = NoExecution /\ n.op = "Close"
          /\ Shape([n EXCEPT !.stage = "Sent", !.answer = "None"])
      BY <1>1, <2>2, <2>3, ReplaceShape, ZenonT(60)
    <2>5. TableTyped'  BY <1>1, <2>1 DEF TableTyped, registryVars
    <2> HIDE DEF n
    <2>6. QED  BY <2>1, <2>2, <2>4, <2>5, TableKeeps, SendInv
  <1>7. CASE CandidateDestroyed(c)
    <2> DEFINE n == [call[c] EXCEPT !.op = "Resume", !.on = call[c].old, !.cand = NoSession]
    <2>1. /\ Answered(c, "Undo") \/ Answered(c, "UndoHeld")
          /\ quota' = quota - 1 /\ UNCHANGED <<actor, task, unfinished, rows, stale>>
          /\ \/ call[c].plan = "UndoHeld" /\ Send(c, n)
             \/ Returns(c) /\ UNCHANGED <<execQ, ctrlQ>>
      BY <1>7 DEF CandidateDestroyed, AtStep
    <2>2. call[c].stage = "Answered"  BY <2>1 DEF Answered
    <2>3. TableTyped'  BY <1>1, <2>1 DEF TableTyped
    <2>4. CASE call[c].plan = "UndoHeld" /\ Send(c, n)
      <3>1. /\ n \in CallState /\ n.on \in Session /\ n.exec = NoExecution /\ n.op = "Resume"
            /\ Shape([n EXCEPT !.stage = "Sent", !.answer = "None"])
        BY <1>1, <2>2, <2>4, ResumeShape
      <3> HIDE DEF n
      <3>2. QED  BY <2>1, <2>2, <2>3, <2>4, <3>1, TableKeeps, SendInv, ZenonT(60)
    <2>5. CASE Returns(c) /\ UNCHANGED <<execQ, ctrlQ>>
      BY <2>1, <2>2, <2>3, <2>5, ReturnsInv DEF actorVars
    <2>6. QED  BY <2>1, <2>4, <2>5
  <1>8. QED  BY <1>2, <1>3, <1>4, <1>5, <1>6, <1>7

\* A call that goes on keeps the invariant.
LEMMA ContinuesInv ==
    ASSUME Inv, NEW c \in Client, GoesOn(c)
    PROVE  Inv'
  <1>1. Continues(c) /\ UNCHANGED begun /\ call[c].stage \notin {"Sent", "Gone"}  BY DEF GoesOn
  <1>2. Typed /\ call[c] \in CallState /\ Shape(call[c]) /\ TableTyped
    BY Callers, TableKeeps DEF Inv, ActorInv
  <1>3. call[c].cand \in Somewhere /\ call[c].lost \subseteq Session  BY <1>2, CallStateIs
  <1>4. CASE Registered(c)
    <2>1. call[c].cand \in Session  BY <1>2, <1>3, <1>4 DEF Registered, Answered, Shape, Somewhere
    <2>2. TableTyped'  BY <1>1, <1>2, <1>4, <2>1 DEF Registered, TableTyped
    <2>3. QED  BY <1>1, <1>4, <2>2, ReturnsInv DEF Registered
  <1>5. CASE Closed(c)
    <2>1. TableTyped'  BY <1>1, <1>2, <1>5, ForgetTyped DEF Closed, TableTyped
    <2>2. QED  BY <1>1, <1>5, <2>1, ReturnsInv DEF Closed
  <1>6. CASE ScanDone(c)
    <2>1. TableTyped'  BY <1>1, <1>2, <1>3, <1>6 DEF ScanDone, TableTyped
    <2>2. QED  BY <1>1, <1>6, <2>1, ReturnsInv DEF ScanDone
  <1>7. CASE AbandonReplace(c)
    <2>1. TableTyped'  BY <1>1, <1>2, <1>7 DEF AbandonReplace, TableTyped
    <2>2. QED  BY <1>1, <1>7, <2>1, ReturnsInv DEF AbandonReplace
  <1>8. CASE PublishCandidate(c)
    <2>1. call[c].plan = "Replace" /\ call[c].op = "Close"
      BY <1>2, <1>8 DEF PublishCandidate, Shape
    <2>2. call[c].cand \in Session  BY <1>2, <1>3, <2>1 DEF Shape, Somewhere
    <2>3. TableTyped'  BY <1>1, <1>2, <1>8, <2>2 DEF PublishCandidate, TableTyped
    <2>4. QED  BY <1>1, <1>8, <2>3, ReturnsInv DEF PublishCandidate
  <1>9. CASE Resumed(c)
    <2>1. TableTyped'  BY <1>1, <1>2, <1>9 DEF Resumed, TableTyped, registryVars
    <2>2. QED  BY <1>1, <1>9, <2>1, ReturnsInv DEF Resumed
  <1>10. QED
    BY <1>1, <1>4, <1>5, <1>6, <1>7, <1>8, <1>9, ScansInv, ReplacesInv DEF Continues

--------------------------------------------------------------------------------
(* The theorems.                                                                *)

\* The invariant holds at first.
LEMMA InitInv == Init => Inv
  <1> SUFFICES ASSUME Init PROVE Inv
    OBVIOUS
  <1>1. Typed
    <2>1. begun \in 0..MaxCalls /\ quota \in Int /\ rows \subseteq Session /\ stale \subseteq Session
          /\ unfinished \subseteq Session
      BY RegistryAssumption DEF Init
    <2>2. <<>> \in Seq(Client)  OBVIOUS
    <2>3. QED  BY <2>1, <2>2, UnbornTypes, OutType DEF Init, Typed
  <1>2. \A a \in Session : Work(a) = {} /\ Control(a) = {} /\ Waiting(a) = {} /\ ~Flying(a)
    BY SmallSeqs DEF Init, Work, Control, Waiting, Flying, Unborn
  <1>3. QueuesOK  BY <1>2, SmallSeqs DEF Init, QueuesOK, Unborn
  <1>4. MessagesOK /\ PostedOK  BY <1>2 DEF MessagesOK, PostedOK
  <1>5. FlightsOK /\ OneExecutionAtATime
    BY <1>2 DEF FlightsOK, OneExecutionAtATime, Init, NoTask
  <1>6. ShapesOK  BY ShapeOut DEF Init, ShapesOK
  <1>7. QED  BY <1>1, <1>3, <1>4, <1>5, <1>6 DEF Inv, ActorInv

\* Nothing that happens elsewhere disturbs it.
LEMMA StutterInv == Inv /\ UNCHANGED vars => Inv'
  <1> SUFFICES ASSUME Inv, UNCHANGED vars PROVE Inv'
    OBVIOUS
  <1>1. UNCHANGED <<actor, execQ, ctrlQ, task, unfinished, call, rows, quota, stale, begun>>
    BY DEF vars
  <1>2. \A a \in Session : Work(a)' = Work(a) /\ Control(a)' = Control(a) /\ Waiting(a)' = Waiting(a)
          /\ (Running(a))' = Running(a) /\ (Flying(a))' = Flying(a)
    BY <1>1 DEF Work, Control, Waiting, Running, Flying
  <1>3. Typed' /\ FlightsOK' /\ ShapesOK' /\ OneExecutionAtATime'
    BY <1>1, <1>2 DEF Inv, ActorInv, Typed, FlightsOK, ShapesOK, OneExecutionAtATime
  <1>4. QueuesOK'  BY <1>1, <1>2 DEF Inv, ActorInv, QueuesOK
  <1>5. MessagesOK' /\ PostedOK'  BY <1>1, <1>2 DEF Inv, ActorInv, MessagesOK, PostedOK
  <1>6. QED  BY <1>3, <1>4, <1>5 DEF Inv, ActorInv

\* Every step keeps it.
LEMMA NextInv == ASSUME Inv, Next PROVE Inv'
  <1>1. ASSUME NEW c \in Client, GoesOn(c) PROVE Inv'  BY <1>1, ContinuesInv
  <1>2. ASSUME NEW c \in Client, Begins(c) PROVE Inv'  BY <1>2, BeginsInv
  <1>3. ASSUME NEW c \in Client, Apart(GiveUp(c)) PROVE Inv'  BY <1>3, GiveUpInv DEF Apart
  <1>4. ASSUME Works, UNCHANGED <<registryVars, begun>> PROVE Inv'  BY <1>4, WorksInv
  <1>5. (\E c \in Client : GoesOn(c) \/ Begins(c) \/ Apart(GiveUp(c)))
        \/ (Works /\ UNCHANGED <<registryVars, begun>>)
    BY DEF Next, Proceeds, Apart, Works
  <1>6. QED  BY <1>1, <1>2, <1>3, <1>4, <1>5

\* The queues, the messages in them, the books of executions and the shapes of calls agree.
THEOREM InvariantHolds == Spec => []Inv
  BY InitInv, NextInv, StutterInv, PTL DEF Spec

\* Two executions never run on one session at the same time: none starts while another
\* flies, whatever was put off, and none starts where an actor has crashed over one.
THEOREM OneExecution == Spec => []OneExecutionAtATime
  <1>1. Inv => OneExecutionAtATime  BY DEF Inv
  <1>2. QED  BY <1>1, InvariantHolds, PTL

--------------------------------------------------------------------------------
(* What becomes of an execution.                                                *)

\* An execution keeps its session, and one that ends when its actor has its handle, or had
\* one to find, was told of its cancellation.
Passed(e) ==
    /\ task'[e].on = task[e].on \/ task[e].stage = "None"
    /\ task[e].stage = "Running" /\ task'[e].stage # "Running"
       => (task[e].asked /\ task[e].handle \in {"Offered", "Bound"} => task[e].told)

\* An execution that settles was told of its cancellation, if its handle was there to find.
LEMMA SettlesPasses ==
    ASSUME Inv, NEW a \in Session, Lands(a), NEW stage \in TaskStage, Settles(a, stage)
    PROVE  \A e \in Execution : Passed(e) /\ task'[e].on = task[e].on
  <1> DEFINE f == actor[a].flight
  <1>1. Flying(a) /\ ~Offered(a)  BY DEF Lands
  <1>2. f \in Execution /\ task[f] \in TaskState /\ task[f].on = a  BY <1>1, FlightIs DEF Inv
  <1>3. task[f].handle # "Offered"  BY <1>1 DEF Offered
  <1>4. task[f].handle = "Bound" /\ task[f].asked => task[f].told
    BY <1>2 DEF Inv, ActorInv, FlightsOK
  <1>5. PICK t : task' = [task EXCEPT ![f] = t] /\ t.on = a  BY SettlesIs
  <1>6. task \in [Execution -> TaskState]  BY DEF Inv, ActorInv, Typed
  <1> HIDE DEF f
  <1>7. \A e \in Execution : task'[e] = IF e = f THEN t ELSE task[e]  BY <1>5, <1>6
  <1>8. QED  BY <1>2, <1>3, <1>4, <1>5, <1>7 DEF Passed

\* A change that leaves the session, and the stage of what runs.
LEMMA ChangePasses ==
    ASSUME Inv, NEW f, NEW t, task' = [task EXCEPT ![f] = t],
           t.on = task[f].on, task[f].stage = "Running" => t.stage = "Running"
    PROVE  \A e \in Execution : Passed(e) /\ task'[e].on = task[e].on
  <1>1. \A e \in Execution : task'[e] = IF e = f THEN t ELSE task[e]
    BY DEF Inv, ActorInv, Typed
  <1>2. QED  BY <1>1 DEF Passed

\* No step of an actor or of a backend ends an execution that was not told.
LEMMA WorksPasses ==
    ASSUME Inv, Works
    PROVE  \A e \in Execution : Passed(e) /\ task'[e].on = task[e].on
  <1>1. Typed /\ ActorInv /\ \A e \in Execution : task[e] \in TaskState
    BY DEF Inv, ActorInv, Typed
  <1>2. ASSUME task' = task PROVE \A e \in Execution : Passed(e) /\ task'[e].on = task[e].on
    BY <1>2 DEF Passed
  <1>3. ASSUME NEW a \in Session, NEW c \in Client, Queued(a, c)
        PROVE  \A e \in Execution : Passed(e) /\ task'[e].on = task[e].on
    <2> DEFINE f == call[c].exec
    <2>1. /\ c \in Work(a)
          /\ Opens(a, c) \/ Closes(a, c) \/ Refuses(a, c) \/ Starts(a, c) \/ Passes(a, c)
      BY <1>1, <1>3, QueuedKinds
    <2>2. f # NoExecution => f \in Execution /\ task[f].stage = "Posted"
      <3>1. f \in Execution \cup {NoExecution}  BY <1>1, CallStateIs DEF Typed
      <3>2. QED  BY <1>1, <2>1, <3>1 DEF ActorInv, PostedOK
    <2>3. ASSUME f # NoExecution, NEW stage, task' = [task EXCEPT ![f].stage = stage]
          PROVE  \A e \in Execution : Passed(e) /\ task'[e].on = task[e].on
      <3> DEFINE t == [task[f] EXCEPT !.stage = stage]
      <3>1. t.on = task[f].on /\ task' = [task EXCEPT ![f] = t]
        BY <1>1, <2>2, <2>3, TaskStateIs
      <3> HIDE DEF t, f
      <3>2. QED  BY <2>2, <2>3, <3>1, ChangePasses
    <2>4. CASE Starts(a, c)
      <3>1. f \in Execution  BY <1>1, <2>4, Callers, OpPlan DEF Starts
      <3>2. QED  BY <2>3, <2>4, <3>1, ActorAssumption DEF Starts
    <2>5. CASE Refuses(a, c)  BY <1>2, <2>3, <2>5 DEF Refuses
    <2>6. CASE Opens(a, c) \/ Closes(a, c) \/ Passes(a, c)
      BY <1>2, <2>6 DEF Opens, Closes, Passes
    <2>7. QED  BY <2>1, <2>4, <2>5, <2>6
  <1>4. ASSUME NEW a \in Session, NEW c \in Client, Controlled(a, c)
        PROVE  \A e \in Execution : Passed(e) /\ task'[e].on = task[e].on
    <2> DEFINE f == call[c].exec
    <2>1. CASE task' = task  BY <1>2, <2>1
    <2>2. CASE CancelQueued(a, c) \/ CancelDelivered(a, c)
      <3>1. call[c].op = "Cancel"  BY <2>2 DEF CancelQueued, CancelDelivered, Controls
      <3>2. f \in Execution  BY <1>1, <3>1, Callers, OpPlan
      <3>3. task' = [task EXCEPT ![f].asked = TRUE] \/ task' = [task EXCEPT ![f].told = TRUE]
        BY <2>2 DEF CancelQueued, CancelDelivered
      <3> DEFINE t == [task[f] EXCEPT !.asked = TRUE]
                 u == [task[f] EXCEPT !.told = TRUE]
      <3>4. /\ t.on = task[f].on /\ t.stage = task[f].stage
            /\ u.on = task[f].on /\ u.stage = task[f].stage
        BY <1>1, <3>2, TaskStateIs
      <3>5. task' = [task EXCEPT ![f] = t] \/ task' = [task EXCEPT ![f] = u]  BY <3>3
      <3> HIDE DEF t, u, f
      <3>6. QED  BY <3>4, <3>5, ChangePasses
    <2>3. QED
      BY <1>4, <2>1, <2>2 DEF Controlled, CancelAnswered, InvalidateWorker
  <1>5. ASSUME NEW a \in Session, Bind(a)
        PROVE  \A e \in Execution : Passed(e) /\ task'[e].on = task[e].on
    <2> DEFINE f == actor[a].flight
               t == [task[f] EXCEPT !.handle = "Bound", !.told = task[f].told \/ task[f].asked]
    <2>1. Flying(a) /\ task' = [task EXCEPT ![f].handle = "Bound",
                                            ![f].told = @ \/ task[f].asked]
      BY <1>5 DEF Bind, Offered
    <2>2. f \in Execution /\ task[f] \in TaskState  BY <1>1, <2>1, FlightIs
    <2>3. t.on = task[f].on /\ t.stage = task[f].stage  BY <2>2, TaskStateIs
    <2>4. task' = [task EXCEPT ![f] = t]  BY <1>1, <2>1, <2>2 DEF Typed
    <2> HIDE DEF t, f
    <2>5. QED  BY <2>3, <2>4, ChangePasses
  <1>6. ASSUME NEW f \in Execution, Publish(f)
        PROVE  \A e \in Execution : Passed(e) /\ task'[e].on = task[e].on
    <2> DEFINE t == [task[f] EXCEPT !.handle = "Offered"]
    <2>1. t.on = task[f].on /\ t.stage = task[f].stage /\ task' = [task EXCEPT ![f] = t]
      BY <1>1, <1>6, TaskStateIs DEF Publish
    <2> HIDE DEF t
    <2>2. QED  BY <2>1, ChangePasses
  <1>7. ASSUME NEW a \in Session, Ended(a)
        PROVE  \A e \in Execution : Passed(e) /\ task'[e].on = task[e].on
    <2>1. CASE LoseResource(a)
      <3>1. Lands(a) /\ Settles(a, "Lost")  BY <2>1 DEF LoseResource
      <3>2. QED  BY <3>1, SettlesPasses DEF TaskStage
    <2>2. CASE Complete(a) \/ Fail(a)
      <3>1. Lands(a) /\ \E stage \in TaskStage : Settles(a, stage)
        BY <2>2 DEF Complete, Fail, Over, TaskStage
      <3>2. QED  BY <3>1, SettlesPasses
    <2>3. QED  BY <1>7, <2>1, <2>2 DEF Ended
  <1>8. ASSUME NEW a \in Session, NEW c, Finished(a) \/ PanicServing(a, c) \/ PanicReleasing(a)
        PROVE  task' = task
    BY <1>8 DEF Finished, Finish, PanicServing, PanicReleasing, Crashes
  <1>9. QED  BY <1>2, <1>3, <1>4, <1>5, <1>6, <1>7, <1>8 DEF Works

\* A call changes the books only when it posts an execution.
LEMMA CallsPass ==
    ASSUME Inv, NEW c \in Client, GoesOn(c) \/ Begins(c) \/ GiveUp(c)
    PROVE  \A e \in Execution :
              /\ Passed(e)
              /\ task'[e].on = task[e].on \/ task'[e].on \in rows
  <1>1. Typed  BY DEF Inv, ActorInv
  <1>2. CASE task' = task  BY <1>2 DEF Passed
  <1>3. ASSUME NEW a \in Session, NEW f \in Execution, NEW op, CallExecute(c, a, op, f)
        PROVE  \A e \in Execution : Passed(e) /\ (task'[e].on = task[e].on \/ task'[e].on \in rows)
    <2> DEFINE t == [task[f] EXCEPT !.stage = IF Running(a) THEN "Posted" ELSE "Refused", !.on = a]
    <2>1. task[f].stage = "None" /\ task' = [task EXCEPT ![f] = t] /\ a \in rows
      BY <1>3 DEF CallExecute
    <2>2. task[f] \in TaskState  BY <1>1 DEF Typed
    <2>3. t.on = a  BY <2>2, TaskStateIs
    <2> HIDE DEF t
    <2>4. \A e \in Execution : task'[e] = IF e = f THEN t ELSE task[e]  BY <1>1, <2>1 DEF Typed
    <2>5. QED  BY <2>1, <2>3, <2>4 DEF Passed
  <1>4. CASE GoesOn(c) \/ GiveUp(c)
    <2>1. task' = task
      BY <1>4 DEF GoesOn, Continues, GiveUp, actorVars, Registered, Closed, Evicted, Invalidated,
                  ScanDone, AbandonReplace, HoldOld, RetireOld, OldRetired, PublishCandidate,
                  UndoReplace, CandidateDestroyed, Resumed, Visit, OpenCandidate, Spawn
    <2>2. QED  BY <1>2, <2>1
  <1>5. CASE Begins(c)
    <2>1. \/ task' = task
          \/ \E a \in Session, f \in Execution, op \in {"Execute", "ExecuteBound"} :
                CallExecute(c, a, op, f)
      BY <1>5 DEF Begins, actorVars, ConfirmQuarantined, Scan, Register, Spawn, CallView, CallReplace,
                  CallSetIdleDeadline, CallClose, CallCancel
    <2>2. QED  BY <1>2, <1>3, <2>1
  <1>6. QED  BY <1>4, <1>5

\* A cancellation accepted before the actor had the handle is passed on with it: the handle
\* is looked for before the end of the execution, and what that look finds is bound, and
\* the cancellation delivered, before the end is taken.  Of a handle that is published after
\* the look and before the end is found, nothing is said: that cancellation is lost.
THEOREM HandleTakesCancel == Spec => OfferedHandleTakesCancel
  <1> DEFINE Told == \A e \in Execution :
          task[e].stage = "Running" /\ task'[e].stage # "Running"
          => (task[e].asked /\ task[e].handle \in {"Offered", "Bound"} => task[e].told)
  <1>1. ASSUME Inv, Next PROVE Told
    <2>1. ASSUME Works PROVE Told  BY <1>1, <2>1, WorksPasses DEF Passed
    <2>2. ASSUME NEW c \in Client, GoesOn(c) \/ Begins(c) \/ GiveUp(c) PROVE Told
      BY <1>1, <2>2, CallsPass DEF Passed
    <2>3. Works \/ \E c \in Client : GoesOn(c) \/ Begins(c) \/ GiveUp(c)
      BY <1>1 DEF Next, Proceeds, Apart, Works
    <2>4. QED  BY <2>1, <2>2, <2>3
  <1>2. Inv /\ [Next]_vars => [Told]_vars
    <2> HIDE DEF Told
    <2>1. QED  BY <1>1
  <1>3. OfferedHandleTakesCancel <=> [][Told]_vars  BY DEF OfferedHandleTakesCancel
  <1> HIDE DEF Told
  <1>4. QED  BY <1>2, <1>3, InvariantHolds, PTL DEF Spec

--------------------------------------------------------------------------------
(* The account of sessions.                                                     *)

Slots == rows \cup stale \cup Charged \cup Detained

Mine(c) == call[c].left \cup call[c].lost \cup ({call[c].on, call[c].old, call[c].cand} \ {NoSession})

\* What the calls hold in the account: one of them, and the rest.
Own(c) == ({call[c].cand} \ {NoSession}) \cup call[c].lost
Rest(c) == UNION {Own(d) : d \in Client \ {c}}

Count == BornOK /\ PrivateOK /\ ApartOK /\ quota = Cardinality(Slots)

\* Who knows of a session.
LEMMA KnownIs ==
    \A a : a \in Known <=>
        \/ a \in rows \/ a \in stale
        \/ \E c \in Client : a \in Mine(c)
        \/ a # NoSession /\ \E e \in Execution : task[e].on = a
  BY DEF Known, Mine

\* The slots from the point of view of one call.
LEMMA SlotsAre ==
    ASSUME NEW c \in Client
    PROVE  Slots = rows \cup stale \cup Rest(c) \cup Own(c)
  BY DEF Slots, Rest, Own, Charged, Detained

\* Sessions that are known are sessions, and a slot is of one that is known.
LEMMA KnownTyped == ASSUME Inv PROVE Known \subseteq Session /\ Slots \subseteq Known
  <1>1. \A c \in Client : call[c] \in CallState  BY DEF Inv, ActorInv, Typed
  <1>2. \A c \in Client : Mine(c) \subseteq Session  BY <1>1, CallStateIs DEF Mine, Somewhere
  <1>3. \A e \in Execution : task[e].on \in Somewhere  BY TaskStateIs DEF Inv, ActorInv, Typed
  <1>4. rows \subseteq Session /\ stale \subseteq Session  BY DEF Inv, ActorInv, Typed
  <1>5. Known \subseteq Session
    <2> SUFFICES ASSUME NEW a, a \in Known PROVE a \in Session
      OBVIOUS
    <2>1. CASE \E c \in Client : a \in Mine(c)  BY <1>2, <2>1
    <2>2. CASE a # NoSession /\ \E e \in Execution : task[e].on = a
      BY <1>3, <2>2 DEF Somewhere
    <2>3. QED  BY <1>4, <2>1, <2>2, KnownIs
  <1>6. Slots \subseteq Known
    <2> SUFFICES ASSUME NEW a, a \in Slots PROVE a \in Known
      OBVIOUS
    <2>1. a \in rows \/ a \in stale \/ \E c \in Client : a \in Mine(c)
      BY DEF Slots, Charged, Detained, Mine
    <2>2. QED  BY <2>1, KnownIs
  <1>7. QED  BY <1>5, <1>6

\* A step of one call leaves what the others hold.
LEMMA RestStays ==
    ASSUME Typed, NEW c \in Client, NEW n, call' = [call EXCEPT ![c] = n]
    PROVE  Rest(c)' = Rest(c) /\ Own(c)' = ({n.cand} \ {NoSession}) \cup n.lost
           /\ Mine(c)' = n.left \cup n.lost \cup ({n.on, n.old, n.cand} \ {NoSession})
           /\ \A d \in Client : d # c => call'[d] = call[d] /\ Mine(d)' = Mine(d) /\ Own(d)' = Own(d)
  <1>1. call'[c] = n /\ \A d \in Client : d # c => call'[d] = call[d]  BY DEF Typed
  <1>2. \A d \in Client : d # c => Own(d)' = Own(d) /\ Mine(d)' = Mine(d)  BY <1>1 DEF Own, Mine
  <1>3. Own(c)' = ({n.cand} \ {NoSession}) \cup n.lost  BY <1>1 DEF Own
  <1>4. Mine(c)' = n.left \cup n.lost \cup ({n.on, n.old, n.cand} \ {NoSession})
    BY <1>1 DEF Mine
  <1>5. Rest(c)' = Rest(c)  BY <1>2 DEF Rest
  <1>6. QED  BY <1>1, <1>2, <1>3, <1>4, <1>5

\* A slot is counted in one place.
LEMMA Places ==
    ASSUME Inv, PrivateOK, ApartOK, NEW c \in Client
    PROVE  /\ rows \cap stale = {} /\ (rows \cup stale) \cap Rest(c) = {}
           /\ call[c].lost \cap (rows \cup stale \cup Rest(c)) = {}
           /\ call[c].cand # NoSession =>
                 call[c].cand \notin rows \cup stale \cup Rest(c) \cup call[c].lost
           /\ IsFiniteSet(Slots) /\ Slots \subseteq Session
  <1>1. Typed  BY DEF Inv, ActorInv
  <1>2. rows \cap stale = {} /\ call[c].lost \cap (rows \cup stale) = {}  BY DEF ApartOK
  <1>3. ASSUME NEW d \in Client, d # c
        PROVE  /\ (rows \cup stale) \cap Own(d) = {} /\ call[c].lost \cap Own(d) = {}
               /\ call[c].cand # NoSession => call[c].cand \notin Own(d)
    <2>1. (rows \cup stale) \cap call[d].lost = {} /\ call[c].lost \cap call[d].lost = {}
      BY <1>3 DEF ApartOK
    <2>2. call[d].cand # NoSession => call[d].cand \notin rows \cup stale \cup call[c].lost
      BY DEF PrivateOK
    <2>3. call[c].cand # NoSession => call[c].cand # call[d].cand /\ call[c].cand \notin call[d].lost
      BY <1>3 DEF PrivateOK
    <2>4. QED  BY <2>1, <2>2, <2>3 DEF Own
  <1>4. call[c].cand # NoSession => call[c].cand \notin rows \cup stale \cup call[c].lost
    BY DEF PrivateOK
  <1>5. Slots \subseteq Session
    <2>1. \A d \in Client : call[d].cand \in Somewhere /\ call[d].lost \subseteq Session
      BY <1>1, CallStateIs DEF Typed
    <2>2. QED  BY <1>1, <2>1 DEF Slots, Charged, Detained, Typed, Somewhere
  <1>6. IsFiniteSet(Slots)  BY <1>5, FiniteAssumption, FS_Subset
  <1>7. QED  BY <1>2, <1>3, <1>4, <1>5, <1>6 DEF Rest

\* A step that takes nothing from a call but the sessions it knows of.
Lessens(c) ==
    /\ call'[c].cand = call[c].cand /\ call'[c].lost = call[c].lost
    /\ Mine(c)' \subseteq Mine(c) /\ call'[c].left \subseteq call[c].left
    /\ call[c].cand # NoSession => call'[c].old = call[c].old

\* Such a step of every call keeps the account.
LEMMA LessensCount ==
    ASSUME Inv, Count, \A c \in Client : Lessens(c), UNCHANGED registryVars,
           \A a \in Session : actor[a].life # "Unborn" => actor'[a].life # "Unborn",
           \A e \in Execution : task'[e].on = task[e].on
    PROVE  Count'
  <1>1. UNCHANGED <<rows, stale, quota>>  BY DEF registryVars
  <1>2. Known' \subseteq Known  BY <1>1, KnownIs DEF Known, Mine, Lessens
  <1>3. BornOK'
    <2>1. Known \subseteq Session  BY KnownTyped
    <2>2. QED  BY <1>2, <2>1 DEF Count, BornOK
  <1>4. PrivateOK'
    <2> SUFFICES ASSUME NEW c \in Client, call'[c].cand # NoSession
                 PROVE  LET a == call'[c].cand IN
                        /\ a \notin rows \cup stale /\ call'[c].old # a
                        /\ \A d \in Client :
                              /\ a \notin call'[d].left \cup call'[d].lost
                              /\ d # c => a \notin {call'[d].on, call'[d].old, call'[d].cand}
                        /\ \A e \in Execution : task'[e].on # a
      BY <1>1 DEF PrivateOK
    <2> DEFINE a == call[c].cand
    <2>1. a = call'[c].cand /\ a # NoSession  BY DEF Lessens
    <2>2. /\ a \notin rows \cup stale /\ call[c].old # a
          /\ \A d \in Client :
                /\ a \notin call[d].left \cup call[d].lost
                /\ d # c => a \notin {call[d].on, call[d].old, call[d].cand}
          /\ \A e \in Execution : task[e].on # a
      BY <2>1 DEF Count, PrivateOK
    <2>3. ASSUME NEW d \in Client, d # c PROVE a \notin {call'[d].on, call'[d].old, call'[d].cand}
      <3>1. a \notin Mine(d)  BY <2>2, <2>3 DEF Mine
      <3>2. a \notin Mine(d)'  BY <3>1 DEF Lessens
      <3>3. QED  BY <2>1, <3>2 DEF Mine
    <2>4. QED  BY <2>1, <2>2, <2>3 DEF Lessens
  <1>5. ApartOK'  BY <1>1 DEF Count, ApartOK, Lessens
  <1>6. Slots' = Slots  BY <1>1 DEF Slots, Charged, Detained, Lessens
  <1>7. QED  BY <1>1, <1>3, <1>4, <1>5, <1>6 DEF Count

\* An answer is such a step.
LEMMA RepliedLessens ==
    ASSUME Inv, NEW c \in Client, call'[c] = call[c] \/ Replied(c)
    PROVE  Lessens(c)
  <1>1. call[c] \in CallState /\ Shape(call[c])  BY Callers DEF Inv
  <1>2. CASE call'[c] = call[c]  BY <1>2 DEF Lessens, Mine
  <1>3. CASE call[c].plan \in Relays /\ call'[c] = Out
    <2>1. call[c].cand = NoSession /\ call[c].lost = {}
      BY <1>1, <1>3 DEF Shape, Relays
    <2>2. Out.cand = NoSession /\ Out.lost = {} /\ Out.left = {} /\ Out.on = NoSession /\ Out.old = NoSession
      BY DEF Out
    <2>3. QED  BY <1>3, <2>1, <2>2 DEF Lessens, Mine
  <1>4. CASE \E x \in Answer : call'[c] = [call[c] EXCEPT !.stage = "Answered", !.answer = x]
    <2>1. /\ call'[c].cand = call[c].cand /\ call'[c].lost = call[c].lost
          /\ call'[c].left = call[c].left /\ call'[c].on = call[c].on /\ call'[c].old = call[c].old
      BY <1>1, <1>4, CallStateIs
    <2>2. QED  BY <2>1 DEF Lessens, Mine
  <1>5. QED  BY <1>2, <1>3, <1>4 DEF Replied

\* A step of an actor or of a backend keeps the account.
LEMMA WorksCount == ASSUME Inv, Count, Works, UNCHANGED registryVars PROVE Count'
  <1>1. ActorInv  BY DEF Inv
  <1>2. ASSUME NEW a \in Session, NEW D, Touches(a, D)
        PROVE  /\ \A c \in Client : Lessens(c)
               /\ \A b \in Session : actor[b].life # "Unborn" => actor'[b].life # "Unborn"
    <2>1. \A c \in Client : Lessens(c)  BY <1>2, RepliedLessens DEF Touches
    <2>2. \A b \in Session : actor'[b] = actor[b] \/ (b = a /\ actor'[a].life # "Unborn")
      BY <1>1, <1>2, TouchesKeeps DEF Touches
    <2>3. QED  BY <2>1, <2>2
  <1>3. (\E a \in Session : \E D : Touches(a, D)) \/ (\E e \in Execution : Publish(e))
    <2>1. ASSUME NEW a \in Session, NEW c \in Client, Controlled(a, c) \/ Queued(a, c)
          PROVE  \E D : Touches(a, D)
      BY <1>1, <2>1, ControlledTouches, QueuedTouches
    <2>2. ASSUME NEW a \in Session, NEW c, PanicServing(a, c) \/ PanicReleasing(a)
          PROVE  \E D : Touches(a, D)
      BY <1>1, <2>2, PanicIs, CrashIs
    <2>3. ASSUME NEW a \in Session, Bind(a) PROVE \E D : Touches(a, D)
      BY <2>3, BindTasks DEF Inv
    <2>4. ASSUME NEW a \in Session, Ended(a) \/ Finished(a) PROVE \E D : Touches(a, D)
      BY <1>1, <2>4, EndedTouches, FinishIs DEF Finished
    <2>5. QED  BY <2>1, <2>2, <2>3, <2>4 DEF Works
  <1>4. \A e \in Execution : task'[e].on = task[e].on  BY WorksPasses
  <1>5. CASE \E a \in Session : \E D : Touches(a, D)
    BY <1>2, <1>4, <1>5, LessensCount
  <1>6. CASE \E e \in Execution : Publish(e)
    <2>1. UNCHANGED <<actor, call>>  BY <1>6 DEF Publish
    <2>2. \A c \in Client : Lessens(c)  BY <2>1, RepliedLessens
    <2>3. QED  BY <1>4, <2>1, <2>2, LessensCount
  <1>7. QED  BY <1>3, <1>5, <1>6

\* A caller that is dropped keeps its stake.
LEMMA GiveUpCount ==
    ASSUME Inv, Count, NEW c \in Client, GiveUp(c), UNCHANGED registryVars
    PROVE  Count'
  <1>1. UNCHANGED <<actor, task>> /\ call' = [call EXCEPT ![c].stage = "Gone", ![c].answer = "None"]
    BY DEF GiveUp, actorVars
  <1>2. ASSUME NEW d \in Client PROVE Lessens(d)
    <2>1. call[d] \in CallState  BY Callers DEF Inv
    <2>2. /\ call'[d].cand = call[d].cand /\ call'[d].lost = call[d].lost
          /\ call'[d].left = call[d].left /\ call'[d].on = call[d].on /\ call'[d].old = call[d].old
      BY <1>1, <2>1, CallStateIs DEF Inv, ActorInv, Typed
    <2>3. QED  BY <2>2 DEF Lessens, Mine
  <1>3. QED  BY <1>1, <1>2, LessensCount

\* One call goes on with the sessions it knows of, and those in the table.
LEMMA OneCall ==
    ASSUME Inv, BornOK, PrivateOK, NEW c \in Client, NEW n, call' = [call EXCEPT ![c] = n],
           UNCHANGED actor,
           rows' \subseteq rows \cup Mine(c), stale' \subseteq stale \cup Mine(c),
           Mine(c)' \subseteq rows \cup Mine(c),
           \A e \in Execution : task'[e].on = task[e].on \/ task'[e].on \in rows,
           n.cand # NoSession =>
               /\ n.cand = call[c].cand /\ rows' \subseteq rows /\ stale' \subseteq stale
               /\ n.old = call[c].old /\ n.left \cup n.lost \subseteq call[c].left \cup call[c].lost
    PROVE  BornOK' /\ PrivateOK'
  <1>1. Typed  BY DEF Inv, ActorInv
  <1>2. call'[c] = n /\ \A d \in Client : d # c => call'[d] = call[d] /\ Mine(d)' = Mine(d)
    BY <1>1, RestStays DEF Typed
  <1>3. BornOK'
    <2>1. ASSUME NEW a, a \in Known' PROVE a \in Known
      <3>1. \/ a \in rows' \/ a \in stale'
            \/ \E d \in Client : a \in Mine(d)'
            \/ a # NoSession /\ \E e \in Execution : task'[e].on = a
        BY <2>1 DEF Known, Mine
      <3>2. CASE a \in rows' \/ a \in stale'  BY <3>2, KnownIs
      <3>3. ASSUME NEW d \in Client, a \in Mine(d)' PROVE a \in Known
        <4>1. a \in rows \/ a \in Mine(d)  BY <1>2, <3>3
        <4>2. QED  BY <4>1, KnownIs
      <3>4. CASE a # NoSession /\ \E e \in Execution : task'[e].on = a
        BY <3>4, KnownIs
      <3>5. QED  BY <3>1, <3>2, <3>3, <3>4
    <2>2. QED  BY <2>1 DEF BornOK
  <1>4. PrivateOK'
    <2> SUFFICES ASSUME NEW d \in Client, call'[d].cand # NoSession
                 PROVE  LET a == call'[d].cand IN
                        /\ a \notin rows' \cup stale' /\ call'[d].old # a
                        /\ \A x \in Client :
                              /\ a \notin call'[x].left \cup call'[x].lost
                              /\ x # d => a \notin {call'[x].on, call'[x].old, call'[x].cand}
                        /\ \A e \in Execution : task'[e].on # a
      BY DEF PrivateOK
    <2> DEFINE a == call'[d].cand
    <2>1. a = call[d].cand  BY <1>2
    <2>2. /\ a \notin rows \cup stale /\ call[d].old # a
          /\ \A x \in Client :
                /\ a \notin call[x].left \cup call[x].lost
                /\ x # d => a \notin {call[x].on, call[x].old, call[x].cand}
          /\ \A e \in Execution : task[e].on # a
      BY <2>1 DEF PrivateOK
    <2>3. a # NoSession  OBVIOUS
    <2> HIDE DEF a
    <2>4. \A e \in Execution : task'[e].on # a  BY <2>2
    <2>5. CASE d = c
      <3>1. a = n.cand /\ n.cand # NoSession  BY <1>2, <2>3, <2>5 DEF a
      <3>2. a \notin rows' \cup stale' /\ call'[d].old # a  BY <1>2, <2>2, <2>5, <3>1
      <3>3. a \notin n.left \cup n.lost  BY <2>2, <2>5, <3>1
      <3>4. QED  BY <1>2, <2>2, <2>4, <2>5, <3>2, <3>3 DEF a
    <2>6. CASE d # c
      <3>1. a \notin rows \cup Mine(c)  BY <2>2, <2>6 DEF Mine
      <3>2. a \notin Mine(c)'  BY <3>1
      <3>3. a \notin n.left \cup n.lost /\ a \notin {n.on, n.old, n.cand}
        BY <1>2, <2>3, <3>2 DEF Mine
      <3>4. a \notin rows' \cup stale'  BY <2>2, <3>1
      <3>5. call'[d].old # a  BY <1>2, <2>2, <2>6
      <3>6. QED  BY <1>2, <2>2, <2>4, <2>6, <3>3, <3>4, <3>5 DEF a
    <2>7. QED  BY <2>5, <2>6
  <1>5. QED  BY <1>3, <1>4

\* The account after a step of one call.
LEMMA ApartStays ==
    ASSUME Inv, PrivateOK, ApartOK, NEW c \in Client, NEW n, call' = [call EXCEPT ![c] = n],
           rows' \cap stale' = {}, n.lost \cap (rows' \cup stale' \cup Rest(c)) = {},
           (rows' \cup stale') \cap Rest(c) = {}
    PROVE  ApartOK'
  <1>1. call'[c] = n /\ \A d \in Client : d # c => call'[d] = call[d]
    BY DEF Inv, ActorInv, Typed
  <1>2. \A d \in Client : d # c => call[d].lost \subseteq Rest(c)  BY DEF Rest, Own
  <1>3. \A d, x \in Client : d # x => call'[d].lost \cap call'[x].lost = {}
    BY <1>1, <1>2 DEF ApartOK
  <1>4. \A d \in Client : call'[d].lost \cap (rows' \cup stale') = {}
    BY <1>1, <1>2
  <1>5. QED  BY <1>3, <1>4 DEF ApartOK

\* A call with no stake in the account, before and after.
LEMMA SameCount ==
    ASSUME Inv, Count, NEW c \in Client, NEW n, call' = [call EXCEPT ![c] = n],
           UNCHANGED <<actor, rows, quota, stale>>,
           Mine(c)' \subseteq rows \cup Mine(c),
           \A e \in Execution : task'[e].on = task[e].on \/ task'[e].on \in rows,
           n.cand = call[c].cand, n.lost = call[c].lost,
           n.cand # NoSession => n.old = call[c].old /\ n.left \subseteq call[c].left
    PROVE  Count'
  <1>1. BornOK' /\ PrivateOK'  BY OneCall DEF Count
  <1>2. ApartOK'
    <2>1. PrivateOK /\ ApartOK  BY DEF Count
    <2>2. /\ rows \cap stale = {} /\ (rows \cup stale) \cap Rest(c) = {}
          /\ call[c].lost \cap (rows \cup stale \cup Rest(c)) = {}
      BY <2>1, Places
    <2>3. QED  BY <2>1, <2>2, ApartStays
  <1>3. Rest(c)' = Rest(c) /\ Own(c)' = ({n.cand} \ {NoSession}) \cup n.lost
    BY RestStays DEF Inv, ActorInv
  <1>4. Slots' = rows' \cup stale' \cup Rest(c)' \cup Own(c)'
    BY DEF Slots, Rest, Own, Charged, Detained
  <1>5. Slots' = Slots  BY <1>3, <1>4, SlotsAre DEF Own
  <1>6. QED  BY <1>1, <1>2, <1>5 DEF Count

\* The slots after a step, from the point of view of one call.
LEMMA NewSlots ==
    ASSUME NEW c \in Client
    PROVE  Slots' = rows' \cup stale' \cup Rest(c)' \cup Own(c)'
  BY DEF Slots, Rest, Own, Charged, Detained

\* A call that has not begun knows of nothing.
LEMMA MineOut ==
    /\ Out.cand = NoSession /\ Out.lost = {} /\ Out.left = {}
    /\ Out.on = NoSession /\ Out.old = NoSession
  BY DEF Out

\* What a call becomes by sending.
LEMMA PostedIs ==
    ASSUME Inv, NEW c \in Client, NEW r \in CallState,
           Shape([r EXCEPT !.stage = "Sent", !.answer = "None"]), call' = Posted(c, r)
    PROVE  \E n : /\ call' = [call EXCEPT ![c] = n]
                  /\ n.cand = r.cand /\ n.lost = r.lost
                  /\ n.left \subseteq r.left
                  /\ n.on \in {r.on, NoSession} /\ n.old \in {r.old, NoSession}
                  /\ n.cand # NoSession => n.old = r.old
  <1> DEFINE m == [r EXCEPT !.stage = "Sent", !.answer = "None"]
             u == [r EXCEPT !.stage = "Answered", !.answer = "UnknownSession"]
  <1>1. /\ m.plan = r.plan /\ m.cand = r.cand /\ m.lost = r.lost /\ m.left = r.left
        /\ m.on = r.on /\ m.old = r.old
    BY CallStateIs
  <1>2. u.cand = r.cand /\ u.lost = r.lost /\ u.left = r.left /\ u.on = r.on /\ u.old = r.old
    BY CallStateIs
  <1>3. Shape(m)  OBVIOUS
  <1>4. \/ call' = [call EXCEPT ![c] = m] \/ call' = [call EXCEPT ![c] = u]
        \/ r.plan \in Relays /\ call' = [call EXCEPT ![c] = Out]
    BY DEF Posted
  <1> HIDE DEF m, u
  <1>5. CASE call' = [call EXCEPT ![c] = m]  BY <1>1, <1>5
  <1>6. CASE call' = [call EXCEPT ![c] = u]  BY <1>2, <1>6
  <1>7. CASE r.plan \in Relays /\ call' = [call EXCEPT ![c] = Out]
    <2>1. m.cand = NoSession /\ m.lost = {}  BY <1>1, <1>3, <1>7 DEF Shape, Relays
    <2>2. QED  BY <1>1, <1>7, <2>1, MineOut
  <1>8. QED  BY <1>4, <1>5, <1>6, <1>7

\* Sending keeps the account.
LEMMA SendCount ==
    ASSUME Inv, Count, NEW c \in Client, NEW r \in CallState,
           Shape([r EXCEPT !.stage = "Sent", !.answer = "None"]), Send(c, r) \/ SendControl(c, r),
           UNCHANGED <<actor, rows, quota, stale>>,
           \A e \in Execution : task'[e].on = task[e].on \/ task'[e].on \in rows,
           r.cand = call[c].cand, r.lost = call[c].lost, r.left \subseteq call[c].left,
           {r.on, r.old} \ {NoSession} \subseteq rows \cup Mine(c),
           r.cand # NoSession => r.old = call[c].old
    PROVE  Count'
  <1>1. call' = Posted(c, r)  BY DEF Send, SendControl
  <1>2. PICK n : /\ call' = [call EXCEPT ![c] = n]
                 /\ n.cand = r.cand /\ n.lost = r.lost
                 /\ n.left \subseteq r.left
                 /\ n.on \in {r.on, NoSession} /\ n.old \in {r.old, NoSession}
                 /\ n.cand # NoSession => n.old = r.old
    BY <1>1, PostedIs
  <1>3. Mine(c)' = n.left \cup n.lost \cup ({n.on, n.old, n.cand} \ {NoSession})
    BY <1>2, RestStays DEF Inv, ActorInv
  <1>4. Mine(c)' \subseteq rows \cup Mine(c)
    BY <1>2, <1>3 DEF Mine
  <1>5. QED  BY <1>2, <1>4, SameCount

\* A new session takes a slot.
LEMMA SpawnCount ==
    ASSUME Inv, Count, NEW c \in Client, NEW r \in CallState, r.cand \in Session, NEW deadline,
           Spawn(c, r, deadline), UNCHANGED <<rows, stale>>,
           call[c].cand = NoSession, r.old = call[c].old, r.left = call[c].left,
           r.lost = call[c].lost
    PROVE  Count'
  <1> DEFINE a == r.cand
             n == [r EXCEPT !.op = "Open", !.on = r.cand, !.stage = "Sent", !.answer = "None"]
  <1>1. Typed /\ PrivateOK /\ ApartOK /\ BornOK /\ quota = Cardinality(Slots)
    BY DEF Inv, ActorInv, Count
  <1>2. /\ actor[a].life = "Unborn" /\ call' = [call EXCEPT ![c] = n] /\ quota' = quota + 1
        /\ actor' = [actor EXCEPT ![a] = [Unborn EXCEPT !.life = "Running", !.deadline = deadline]]
        /\ task' = task
    BY DEF Spawn
  <1>3. n.cand = a /\ n.on = a /\ n.old = call[c].old /\ n.left = call[c].left /\ n.lost = call[c].lost
    BY CallStateIs
  <1>4. [Unborn EXCEPT !.life = "Running", !.deadline = deadline].life = "Running"  BY DEF Unborn
  <1> HIDE DEF n
  <1>5. a \in Session /\ a # NoSession  BY ActorAssumption
  <1> HIDE DEF a
  <1>6. actor'[a].life = "Running" /\ \A b \in Session : b # a => actor'[b] = actor[b]
    BY <1>1, <1>2, <1>4, <1>5 DEF Typed
  <1>7. a \notin Known  BY <1>1, <1>2 DEF BornOK
  <1>8. /\ a \notin rows \cup stale /\ \A d \in Client : a \notin Mine(d)
        /\ \A e \in Execution : task[e].on # a
    BY <1>5, <1>7, KnownIs
  <1>9. /\ Rest(c)' = Rest(c) /\ Own(c)' = ({n.cand} \ {NoSession}) \cup n.lost
        /\ Mine(c)' = n.left \cup n.lost \cup ({n.on, n.old, n.cand} \ {NoSession})
        /\ \A d \in Client : d # c => call'[d] = call[d] /\ Mine(d)' = Mine(d)
    BY <1>1, <1>2, RestStays
  <1>10. Mine(c)' \subseteq Mine(c) \cup {a}  BY <1>3, <1>9 DEF Mine
  <1>11. call'[c] = n  BY <1>1, <1>2 DEF Typed
  <1>12. BornOK'
    <2>1. ASSUME NEW b, b \in Known' PROVE b \in Known \/ b = a
      <3>1. \/ b \in rows \/ b \in stale
            \/ \E d \in Client : b \in Mine(d)'
            \/ b # NoSession /\ \E e \in Execution : task[e].on = b
        BY <1>2, <2>1 DEF Known, Mine
      <3>2. ASSUME NEW d \in Client, b \in Mine(d)' PROVE b \in Known \/ b = a
        <4>1. b \in Mine(d) \/ b = a  BY <1>9, <1>10, <3>2
        <4>2. QED  BY <4>1, KnownIs
      <3>3. QED  BY <3>1, <3>2, KnownIs
    <2>2. Known \subseteq Session  BY KnownTyped
    <2>3. QED  BY <1>1, <1>6, <2>1, <2>2 DEF BornOK
  <1>13. PrivateOK'
    <2> SUFFICES ASSUME NEW d \in Client, call'[d].cand # NoSession
                 PROVE  LET b == call'[d].cand IN
                        /\ b \notin rows \cup stale /\ call'[d].old # b
                        /\ \A x \in Client :
                              /\ b \notin call'[x].left \cup call'[x].lost
                              /\ x # d => b \notin {call'[x].on, call'[x].old, call'[x].cand}
                        /\ \A e \in Execution : task[e].on # b
      BY <1>2 DEF PrivateOK
    <2>1. CASE d = c
      <3>1. call'[d].cand = a  BY <1>3, <1>11, <2>1
      <3>2. call'[d].old # a  BY <1>3, <1>5, <1>8, <1>11, <2>1 DEF Mine
      <3>3. ASSUME NEW x \in Client, x # c
            PROVE  a \notin {call'[x].on, call'[x].old, call'[x].cand}
                   /\ a \notin call'[x].left \cup call'[x].lost
        BY <1>5, <1>8, <1>9, <3>3 DEF Mine
      <3>4. a \notin call'[c].left \cup call'[c].lost  BY <1>3, <1>8, <1>11 DEF Mine
      <3>5. QED  BY <1>8, <2>1, <3>1, <3>2, <3>3, <3>4
    <2>2. CASE d # c
      <3> DEFINE b == call[d].cand
      <3>1. call'[d] = call[d] /\ b # NoSession  BY <1>9, <2>2
      <3>2. /\ b \notin rows \cup stale /\ call[d].old # b
            /\ \A x \in Client :
                  /\ b \notin call[x].left \cup call[x].lost
                  /\ x # d => b \notin {call[x].on, call[x].old, call[x].cand}
            /\ \A e \in Execution : task[e].on # b
        BY <1>1, <3>1 DEF PrivateOK
      <3>3. b # a  BY <1>8, <3>1 DEF Mine
      <3> HIDE DEF b
      <3>4. b \notin n.left \cup n.lost /\ b \notin {n.on, n.old, n.cand}
        BY <1>3, <2>2, <3>2, <3>3
      <3>5. QED  BY <1>9, <1>11, <3>1, <3>2, <3>4 DEF b
    <2>3. QED  BY <2>1, <2>2
  <1>14. /\ rows \cap stale = {} /\ (rows \cup stale) \cap Rest(c) = {}
         /\ call[c].lost \cap (rows \cup stale \cup Rest(c)) = {} /\ IsFiniteSet(Slots)
    BY <1>1, Places
  <1>15. ApartOK'  BY <1>1, <1>2, <1>3, <1>14, ApartStays
  <1>16. a \notin Slots  BY <1>7, KnownTyped
  <1>17. Slots' = Slots \cup {a}
    <2>1. Slots = rows \cup stale \cup Rest(c) \cup call[c].lost  BY SlotsAre DEF Own
    <2>2. Slots' = rows \cup stale \cup Rest(c) \cup ({a} \cup call[c].lost)
      BY <1>3, <1>5, <1>9, NewSlots
    <2>3. QED  BY <2>1, <2>2
  <1>18. Cardinality(Slots') = Cardinality(Slots) + 1
    BY <1>14, <1>16, <1>17, FS_AddElement
  <1>19. QED  BY <1>1, <1>2, <1>12, <1>13, <1>15, <1>18 DEF Count

\* A slot that is given back was taken: the set of those in use loses one.
LEMMA GivenBack ==
    ASSUME Inv, PrivateOK, ApartOK, quota = Cardinality(Slots), NEW a \in Slots,
           Slots' = Slots \ {a}, quota' = quota - 1
    PROVE  quota' = Cardinality(Slots')
  <1>1. IsFiniteSet(Slots)
    BY KnownTyped, FiniteAssumption, FS_Subset
  <1>2. QED  BY <1>1, FS_RemoveElement, FS_CardinalityType

\* The row of a session goes, and its slot with it.
LEMMA ForgetCount ==
    ASSUME Inv, Count, NEW c \in Client, NEW n, call' = [call EXCEPT ![c] = n], NEW a,
           UNCHANGED <<actor, task, stale>>, Forget(a) \/ UNCHANGED <<rows, quota>>,
           Mine(c)' \subseteq Mine(c), n.cand = call[c].cand, n.lost = call[c].lost,
           n.cand # NoSession => n.old = call[c].old /\ n.left \subseteq call[c].left
    PROVE  Count'
  <1>1. Typed /\ PrivateOK /\ ApartOK /\ BornOK /\ quota = Cardinality(Slots)
    BY DEF Inv, ActorInv, Count
  <1>2. rows' \subseteq rows  BY DEF Forget
  <1>3. BornOK' /\ PrivateOK'  BY <1>1, <1>2, OneCall
  <1>4. /\ rows \cap stale = {} /\ (rows \cup stale) \cap Rest(c) = {}
        /\ call[c].lost \cap (rows \cup stale \cup Rest(c)) = {}
        /\ call[c].cand # NoSession => call[c].cand \notin rows
    BY <1>1, Places
  <1>5. ApartOK'  BY <1>1, <1>2, <1>4, ApartStays
  <1>6. /\ Slots = rows \cup stale \cup Rest(c) \cup Own(c)
        /\ Slots' = rows' \cup stale \cup Rest(c) \cup Own(c)
    <2>1. Rest(c)' = Rest(c) /\ Own(c)' = ({n.cand} \ {NoSession}) \cup n.lost
      BY <1>1, RestStays
    <2>2. Own(c)' = Own(c)  BY <2>1 DEF Own
    <2>3. Slots = rows \cup stale \cup Rest(c) \cup Own(c)  BY SlotsAre
    <2>4. Slots' = rows' \cup stale' \cup Rest(c)' \cup Own(c)'  BY NewSlots
    <2>5. QED  BY <2>1, <2>2, <2>3, <2>4
  <1>7. quota' = Cardinality(Slots')
    <2>1. CASE rows' = rows /\ quota' = quota  BY <1>1, <1>6, <2>1
    <2>2. CASE a \in rows /\ rows' = rows \ {a} /\ quota' = quota - 1
      <3>1. a \notin stale /\ a \notin Rest(c) /\ a \notin Own(c)  BY <1>4, <2>2 DEF Own
      <3>2. a \in Slots /\ Slots' = Slots \ {a}  BY <1>6, <2>2, <3>1
      <3>3. QED  BY <1>1, <2>2, <3>2, GivenBack
    <2>3. QED  BY <2>1, <2>2 DEF Forget
  <1>8. QED  BY <1>3, <1>5, <1>7 DEF Count

\* What a call had in the account goes to the table, or is given back.
LEMMA LeaveCount ==
    ASSUME Inv, Count, NEW c \in Client, NEW n, call' = [call EXCEPT ![c] = n],
           n.cand = NoSession, UNCHANGED <<actor, task>>, Mine(c)' \subseteq Mine(c),
           \/ /\ UNCHANGED quota /\ n.lost = {}
              /\ \/ /\ call[c].lost = {} /\ call[c].cand # NoSession
                    /\ rows' = rows \cup {call[c].cand} /\ UNCHANGED stale
                 \/ /\ call[c].cand = NoSession
                    /\ stale' = stale \cup call[c].lost /\ UNCHANGED rows
           \/ /\ quota' = quota - 1 /\ call[c].cand # NoSession
              /\ n.lost = call[c].lost /\ UNCHANGED <<rows, stale>>
    PROVE  Count'
  <1>1. Typed /\ PrivateOK /\ ApartOK /\ BornOK /\ quota = Cardinality(Slots)
    BY DEF Inv, ActorInv, Count
  <1>2. rows' \subseteq rows \cup Mine(c) /\ stale' \subseteq stale \cup Mine(c)  BY DEF Mine
  <1>3. BornOK' /\ PrivateOK'  BY <1>1, <1>2, OneCall
  <1>4. /\ rows \cap stale = {} /\ (rows \cup stale) \cap Rest(c) = {}
        /\ call[c].lost \cap (rows \cup stale \cup Rest(c)) = {}
        /\ call[c].cand # NoSession =>
              call[c].cand \notin rows \cup stale \cup Rest(c) \cup call[c].lost
    BY <1>1, Places
  <1>5. /\ Slots = rows \cup stale \cup Rest(c) \cup (({call[c].cand} \ {NoSession}) \cup call[c].lost)
        /\ Slots' = rows' \cup stale' \cup Rest(c) \cup n.lost
    <2>1. Rest(c)' = Rest(c) /\ Own(c)' = ({n.cand} \ {NoSession}) \cup n.lost
      BY <1>1, RestStays
    <2>2. Own(c)' = n.lost  BY <2>1
    <2>3. QED  BY <2>1, <2>2, SlotsAre, NewSlots DEF Own
  <1>6. ApartOK'  BY <1>1, <1>4, ApartStays, ZenonT(60)
  <1>7. quota' = Cardinality(Slots')
    <2>1. CASE UNCHANGED quota /\ n.lost = {}
      <3>1. CASE /\ call[c].lost = {} /\ call[c].cand # NoSession
                 /\ rows' = rows \cup {call[c].cand} /\ UNCHANGED stale
        <4>1. Slots' = Slots  BY <1>5, <2>1, <3>1
        <4>2. QED  BY <1>1, <2>1, <4>1
      <3>2. CASE call[c].cand = NoSession /\ stale' = stale \cup call[c].lost /\ UNCHANGED rows
        <4>1. Slots = rows \cup stale \cup Rest(c) \cup call[c].lost  BY <1>5, <3>2
        <4>2. Slots' = Slots  BY <1>5, <2>1, <3>2, <4>1
        <4>3. QED  BY <1>1, <2>1, <4>2
      <3>3. CASE call[c].lost = n.lost /\ quota' = quota - 1 /\ call[c].cand # NoSession
                 /\ UNCHANGED <<rows, stale>>
        <4>1. call[c].cand \in Slots /\ Slots' = Slots \ {call[c].cand}  BY <1>4, <1>5, <3>3
        <4>2. QED  BY <1>1, <3>3, <4>1, GivenBack
      <3>4. QED  BY <2>1, <3>1, <3>2, <3>3
    <2>2. CASE /\ quota' = quota - 1 /\ call[c].cand # NoSession
               /\ n.lost = call[c].lost /\ UNCHANGED <<rows, stale>>
      <3>1. call[c].cand \in Slots /\ Slots' = Slots \ {call[c].cand}  BY <1>4, <1>5, <2>2
      <3>2. QED  BY <1>1, <2>2, <3>1, GivenBack
    <2>3. QED  BY <2>1, <2>2
  <1>8. QED  BY <1>3, <1>6, <1>7 DEF Count

\* A call that has not begun has no stake.
LEMMA OutCount == ASSUME Inv, NEW c \in Client, NEW what, Calls(c, what) PROVE call[c] = Out /\ Mine(c) = {}
  <1>1. call[c] = Out  BY Callers DEF Inv, Calls, Shape
  <1>2. QED  BY <1>1, MineOut DEF Mine

\* A first message keeps the account.
LEMMA FirstSendCount ==
    ASSUME Inv, Count, NEW c \in Client, NEW what, Calls(c, what), NEW r \in CallState,
           Shape([r EXCEPT !.stage = "Sent", !.answer = "None"]), Send(c, r) \/ SendControl(c, r),
           UNCHANGED <<actor, registryVars>>,
           \A e \in Execution : task'[e].on = task[e].on \/ task'[e].on \in rows,
           r.cand = NoSession, r.lost = {}, r.left = {}, {r.on, r.old} \ {NoSession} \subseteq rows
    PROVE  Count'
  <1>1. call[c].cand = NoSession /\ call[c].lost = {} /\ call[c].left = {}  BY OutCount, MineOut
  <1>2. UNCHANGED <<actor, rows, quota, stale>>  BY DEF registryVars
  <1>3. QED  BY <1>1, <1>2, SendCount

\* The slots of a worker known to be isolated are free, and no others.
LEMMA ConfirmCount ==
    ASSUME Inv, Count, NEW c \in Client, ConfirmQuarantined(c)
    PROVE  Count'
  <1>1. Typed /\ PrivateOK /\ ApartOK /\ BornOK /\ quota = Cardinality(Slots)
    BY DEF Inv, ActorInv, Count
  <1>2. UNCHANGED <<actor, task, call, rows>> /\ stale' = {} /\ quota' = quota - Cardinality(stale)
    BY DEF ConfirmQuarantined, actorVars
  <1>3. Known' \subseteq Known  BY <1>2 DEF Known
  <1>4. BornOK' /\ PrivateOK' /\ ApartOK'
    BY <1>1, <1>2, <1>3 DEF BornOK, PrivateOK, ApartOK
  <1>5. /\ rows \cap stale = {} /\ (rows \cup stale) \cap Rest(c) = {}
        /\ call[c].lost \cap (rows \cup stale \cup Rest(c)) = {}
        /\ call[c].cand # NoSession => call[c].cand \notin rows \cup stale
        /\ IsFiniteSet(Slots)
    BY <1>1, Places
  <1>6. Slots = rows \cup stale \cup Rest(c) \cup Own(c)  BY SlotsAre
  <1>7. Slots' = rows \cup Rest(c) \cup Own(c)
    <2>1. Rest(c)' = Rest(c) /\ Own(c)' = Own(c)  BY <1>2 DEF Rest, Own
    <2>2. QED  BY <1>2, <2>1, NewSlots
  <1>8. stale \cap Own(c) = {}  BY <1>5 DEF Own
  <1>9. Slots' = Slots \ stale /\ Slots \cap stale = stale  BY <1>5, <1>6, <1>7, <1>8
  <1>10. Cardinality(Slots') = Cardinality(Slots) - Cardinality(stale)
    BY <1>5, <1>9, FS_Difference, ZenonT(60)
  <1>11. QED  BY <1>1, <1>2, <1>4, <1>10 DEF Count

\* A call that begins keeps the account.
LEMMA BeginsCount == ASSUME Inv, Count, NEW c \in Client, Begins(c) PROVE Count'
  <1>1. Typed /\ (\A e \in Execution : task'[e].on = task[e].on \/ task'[e].on \in rows)
    BY CallsPass DEF Inv, ActorInv
  <1>2. ASSUME NEW what \in {"Evict", "InvalidateWorker"}, Scan(c, what) PROVE Count'
    <2> DEFINE n == [Out EXCEPT !.plan = what, !.left = rows, !.stage = "Choosing"]
    <2>1. Calls(c, what) /\ call' = [call EXCEPT ![c] = n]
          /\ UNCHANGED <<actor, rows, quota, stale>>
      BY <1>2 DEF Scan, actorVars, registryVars
    <2>2. /\ n.cand = NoSession /\ n.lost = {} /\ n.left = rows /\ n.on = NoSession
          /\ n.old = NoSession
      BY OutType, CallStateIs, MineOut
    <2> HIDE DEF n
    <2>3. Mine(c)' \subseteq rows
      <3>1. Mine(c)' = n.left \cup n.lost \cup ({n.on, n.old, n.cand} \ {NoSession})
        BY <1>1, <2>1, RestStays
      <3>2. QED  BY <2>2, <3>1
    <2>4. call[c].cand = NoSession /\ call[c].lost = {}  BY <2>1, OutCount, MineOut
    <2>5. QED  BY <1>1, <2>1, <2>2, <2>3, <2>4, SameCount
  <1>3. ASSUME NEW a \in Session, Register(c, a) PROVE Count'
    <2> DEFINE r == [Out EXCEPT !.plan = "Register", !.cand = a]
    <2>1. Calls(c, "Register") /\ Spawn(c, r, IdleEviction) /\ UNCHANGED <<rows, stale>>
      BY <1>3 DEF Register
    <2>2. r \in CallState  BY OutType, CallStateIs DEF Plan, Somewhere
    <2>3. r.cand = a /\ r.old = Out.old /\ r.left = Out.left /\ r.lost = Out.lost  BY DEF Out
    <2> HIDE DEF r
    <2>4. call[c] = Out /\ Out.cand = NoSession  BY <2>1, OutCount, MineOut
    <2>5. r.cand \in Session  BY <2>3
    <2>6. QED  BY <2>1, <2>2, <2>3, <2>4, <2>5, SpawnCount
  <1>4. ASSUME NEW a \in Session, CallView(c, a) PROVE Count'
    <2> DEFINE r == [Out EXCEPT !.plan = "View", !.op = "View", !.on = a]
    <2>1. Calls(c, "View") /\ Send(c, r) /\ UNCHANGED <<actor, registryVars>> /\ a \in rows
      BY <1>4 DEF CallView
    <2>2. r \in CallState /\ Shape([r EXCEPT !.stage = "Sent", !.answer = "None"])
      BY ActorAssumption, OutType, CallStateIs, ZenonT(60) DEF Shape, Out, Executes, Plan, Operation, Somewhere
    <2>3. r.cand = NoSession /\ r.lost = {} /\ r.left = {} /\ r.on = a /\ r.old = NoSession
      BY DEF Out
    <2> HIDE DEF r
    <2>4. {r.on, r.old} \ {NoSession} \subseteq rows  BY <2>1, <2>3
    <2>5. QED  BY <1>1, <2>1, <2>2, <2>3, <2>4, FirstSendCount
  <1>5. ASSUME NEW a \in Session, CallReplace(c, a) PROVE Count'
    <2> DEFINE r == [Out EXCEPT !.plan = "Replace", !.op = "View", !.on = a, !.old = a]
    <2>1. Calls(c, "Replace") /\ Send(c, r) /\ UNCHANGED <<actor, registryVars>> /\ a \in rows
      BY <1>5 DEF CallReplace
    <2>2. r \in CallState /\ Shape([r EXCEPT !.stage = "Sent", !.answer = "None"])
      BY ActorAssumption, OutType, CallStateIs, ZenonT(60) DEF Shape, Out, Executes, Plan, Operation, Somewhere
    <2>3. r.cand = NoSession /\ r.lost = {} /\ r.left = {} /\ r.on = a /\ r.old = a
      BY DEF Out
    <2> HIDE DEF r
    <2>4. {r.on, r.old} \ {NoSession} \subseteq rows  BY <2>1, <2>3
    <2>5. QED  BY <1>1, <2>1, <2>2, <2>3, <2>4, FirstSendCount
  <1>6. ASSUME NEW a \in Session, NEW arms \in BOOLEAN, CallSetIdleDeadline(c, a, arms) PROVE Count'
    <2> DEFINE r == [Out EXCEPT !.plan = "SetIdleDeadline", !.op = "SetIdleDeadline", !.on = a,
                                !.arms = arms]
    <2>1. Calls(c, "SetIdleDeadline") /\ Send(c, r) /\ UNCHANGED <<actor, registryVars>> /\ a \in rows
      BY <1>6 DEF CallSetIdleDeadline
    <2>2. r \in CallState /\ Shape([r EXCEPT !.stage = "Sent", !.answer = "None"])
      BY ActorAssumption, OutType, CallStateIs, ZenonT(60) DEF Shape, Out, Executes, Plan, Operation, Somewhere
    <2>3. r.cand = NoSession /\ r.lost = {} /\ r.left = {} /\ r.on = a /\ r.old = NoSession
      BY DEF Out
    <2> HIDE DEF r
    <2>4. {r.on, r.old} \ {NoSession} \subseteq rows  BY <2>1, <2>3
    <2>5. QED  BY <1>1, <2>1, <2>2, <2>3, <2>4, FirstSendCount
  <1>7. ASSUME NEW a \in Session, NEW mode \in {"RequireNoTransaction", "RollbackAndClose"},
               CallClose(c, a, mode)
        PROVE  Count'
    <2> DEFINE r == [Out EXCEPT !.plan = "Close", !.op = "Close", !.on = a, !.mode = mode]
    <2>1. Calls(c, "Close") /\ Send(c, r) /\ UNCHANGED <<actor, registryVars>> /\ a \in rows
      BY <1>7 DEF CallClose
    <2>2. r \in CallState /\ Shape([r EXCEPT !.stage = "Sent", !.answer = "None"])
      BY ActorAssumption, OutType, CallStateIs, ZenonT(60) DEF Shape, Out, Executes, Plan, Operation, Somewhere
    <2>3. r.cand = NoSession /\ r.lost = {} /\ r.left = {} /\ r.on = a /\ r.old = NoSession
      BY DEF Out
    <2> HIDE DEF r
    <2>4. {r.on, r.old} \ {NoSession} \subseteq rows  BY <2>1, <2>3
    <2>5. QED  BY <1>1, <2>1, <2>2, <2>3, <2>4, FirstSendCount
  <1>8. ASSUME NEW a \in Session, NEW e \in Execution, CallCancel(c, a, e) PROVE Count'
    <2> DEFINE r == [Out EXCEPT !.plan = "Cancel", !.op = "Cancel", !.on = a, !.exec = e]
    <2>1. Calls(c, "Cancel") /\ SendControl(c, r) /\ UNCHANGED <<actor, registryVars>> /\ a \in rows
      BY <1>8 DEF CallCancel
    <2>2. r \in CallState /\ Shape([r EXCEPT !.stage = "Sent", !.answer = "None"])
      BY ActorAssumption, OutType, CallStateIs, ZenonT(60) DEF Shape, Out, Executes, Plan, Operation, Somewhere
    <2>3. r.cand = NoSession /\ r.lost = {} /\ r.left = {} /\ r.on = a /\ r.old = NoSession
      BY DEF Out
    <2> HIDE DEF r
    <2>4. {r.on, r.old} \ {NoSession} \subseteq rows  BY <2>1, <2>3
    <2>5. QED  BY <1>1, <2>1, <2>2, <2>3, <2>4, FirstSendCount
  <1>9. ASSUME NEW a \in Session, NEW e \in Execution, NEW op \in {"Execute", "ExecuteBound"},
               CallExecute(c, a, op, e)
        PROVE  Count'
    <2> DEFINE r == [Out EXCEPT !.plan = "Execute", !.op = op, !.on = a, !.exec = e,
                                !.revision = actor[a].revision]
    <2>1. Calls(c, op) /\ Send(c, r) /\ UNCHANGED <<actor, registryVars>> /\ a \in rows
      BY <1>9 DEF CallExecute
    <2>2. actor[a].revision \in 0..MaxRevision  BY <1>1, ActorStateIs DEF Typed
    <2>3. r \in CallState  BY <2>2, OutType, CallStateIs, ZenonT(60) DEF Plan, Operation, Somewhere
    <2>4. Shape([r EXCEPT !.stage = "Sent", !.answer = "None"])
      BY ActorAssumption DEF Shape, Out, Executes
    <2>5. r.cand = NoSession /\ r.lost = {} /\ r.left = {} /\ r.on = a /\ r.old = NoSession
      BY DEF Out
    <2> HIDE DEF r
    <2>6. {r.on, r.old} \ {NoSession} \subseteq rows  BY <2>1, <2>5
    <2>7. QED  BY <1>1, <2>1, <2>3, <2>4, <2>5, <2>6, FirstSendCount
  <1>10. QED
    BY <1>2, <1>3, <1>4, <1>5, <1>6, <1>7, <1>8, <1>9, ConfirmCount DEF Begins

--------------------------------------------------------------------------------
(* The calls that go on.                                                        *)

\* A call that returns forgets what it knew.
LEMMA ReturnsLeave ==
    ASSUME Inv, NEW c \in Client, Returns(c)
    PROVE  call' = [call EXCEPT ![c] = Out] /\ Mine(c)' = {} /\ Mine(c)' \subseteq Mine(c)
  <1>1. call' = [call EXCEPT ![c] = Out]  BY DEF Returns
  <1>2. Mine(c)' = {}
    <2>1. Mine(c)' = Out.left \cup Out.lost \cup ({Out.on, Out.old, Out.cand} \ {NoSession})
      BY <1>1, RestStays DEF Inv, ActorInv
    <2>2. QED  BY <2>1, MineOut
  <1>3. QED  BY <1>1, <1>2

\* What a call has to do with the account, by its plan.
LEMMA Stakes ==
    ASSUME Inv, NEW c \in Client
    PROVE  /\ call[c] \in CallState
           /\ call[c].plan # "InvalidateWorker" => call[c].lost = {}
           /\ call[c].plan \in {"View", "Execute", "SetIdleDeadline", "Close", "Cancel", "Evict",
                                "InvalidateWorker"} => call[c].cand = NoSession
           /\ call[c].plan = "Replace" /\ call[c].op = "View" => call[c].cand = NoSession
           /\ call[c].plan = "Replace" /\ call[c].op # "View" => call[c].cand # NoSession
           /\ call[c].plan \in {"Register", "Undo"} => call[c].cand # NoSession
           /\ call[c].plan = "UndoHeld" /\ call[c].op = "Close" => call[c].cand # NoSession
           /\ call[c].plan = "UndoHeld" /\ call[c].op = "Resume" => call[c].cand = NoSession
           /\ call[c].plan \in {"Replace", "Undo", "UndoHeld"} => call[c].old # NoSession
           /\ call[c].stage = "Publishing" => call[c].plan = "Replace" /\ call[c].op = "Close"
  BY Callers DEF Inv, Shape

\* The calls that end keep the account.
LEMMA ClosesCount ==
    ASSUME Inv, Count, NEW c \in Client,
           Registered(c) \/ Closed(c) \/ ScanDone(c) \/ AbandonReplace(c) \/ PublishCandidate(c)
           \/ Resumed(c)
    PROVE  Count'
  <1>1. Returns(c) /\ UNCHANGED <<actor, task>>
    BY DEF Registered, Closed, ScanDone, AbandonReplace, PublishCandidate, Resumed, actorVars
  <1>2. call' = [call EXCEPT ![c] = Out] /\ Mine(c)' = {} /\ Mine(c)' \subseteq Mine(c)
    BY <1>1, ReturnsLeave
  <1>3. Out.cand = NoSession /\ Out.lost = {}  BY MineOut
  <1>4. CASE Registered(c)
    <2>1. call[c].cand # NoSession /\ call[c].lost = {}
      BY <1>4, Stakes DEF Registered, Answered
    <2>2. \/ rows' = rows \cup {call[c].cand} /\ UNCHANGED <<stale, quota>>
          \/ quota' = quota - 1 /\ UNCHANGED <<rows, stale>>
      BY <1>4 DEF Registered
    <2>3. QED  BY <1>1, <1>2, <1>3, <2>1, <2>2, LeaveCount
  <1>5. CASE Closed(c)
    <2>1. call[c].cand = NoSession /\ call[c].lost = {}  BY <1>5, Stakes DEF Closed, Answered
    <2>2. UNCHANGED stale /\ (Forget(call[c].on) \/ UNCHANGED <<rows, quota>>)
      BY <1>5 DEF Closed
    <2>3. QED  BY <1>1, <1>2, <1>3, <2>1, <2>2, ForgetCount
  <1>6. CASE ScanDone(c)
    <2>1. call[c].cand = NoSession  BY <1>6, Stakes DEF ScanDone
    <2>2. stale' = stale \cup call[c].lost /\ UNCHANGED <<rows, quota>>  BY <1>6 DEF ScanDone
    <2>3. QED  BY <1>1, <1>2, <1>3, <2>1, <2>2, LeaveCount
  <1>7. CASE AbandonReplace(c)
    <2>1. UNCHANGED <<rows, stale>> /\ call[c].plan = "Replace"
      BY <1>7 DEF AbandonReplace, AtStep, Answered
    <2>2. call[c].lost = {}  BY <2>1, Stakes
    <2>3. CASE AtStep(c, "Replace", "View") /\ UNCHANGED quota
      <3>1. call[c].cand = NoSession  BY <2>3, Stakes DEF AtStep, Answered
      <3>2. QED  BY <1>1, <1>2, <1>3, <2>1, <2>2, <2>3, <3>1, SameCount
    <2>4. CASE AtStep(c, "Replace", "Open") /\ quota' = quota - 1
      <3>1. call[c].cand # NoSession  BY <2>4, Stakes DEF AtStep, Answered
      <3>2. QED  BY <1>1, <1>2, <1>3, <2>1, <2>2, <2>4, <3>1, LeaveCount
    <2>5. QED  BY <1>7, <2>3, <2>4 DEF AbandonReplace
  <1>8. CASE PublishCandidate(c)
    <2>1. call[c].cand # NoSession /\ call[c].lost = {}  BY <1>8, Stakes DEF PublishCandidate
    <2>2. rows' = rows \cup {call[c].cand} /\ UNCHANGED <<stale, quota>>
      BY <1>8 DEF PublishCandidate
    <2>3. QED  BY <1>1, <1>2, <1>3, <2>1, <2>2, LeaveCount
  <1>9. CASE Resumed(c)
    <2>1. call[c].cand = NoSession /\ call[c].lost = {}
      BY <1>9, Stakes DEF Resumed, AtStep, Answered
    <2>2. UNCHANGED <<rows, quota, stale>>  BY <1>9 DEF Resumed, registryVars
    <2>3. QED  BY <1>1, <1>2, <1>3, <2>1, <2>2, SameCount
  <1>10. QED  BY <1>4, <1>5, <1>6, <1>7, <1>8, <1>9

\* A session of the lost worker leaves the table and keeps its slot.
LEMMA DetainCount ==
    ASSUME Inv, Count, NEW c \in Client, NEW n, NEW a, call' = [call EXCEPT ![c] = n],
           UNCHANGED <<actor, task, quota, stale>>, rows' = rows \ {a},
           call[c].cand = NoSession, n.cand = NoSession,
           n.lost = call[c].lost \cup (rows \cap {a}), Mine(c)' \subseteq rows \cup Mine(c)
    PROVE  Count'
  <1>1. Typed /\ PrivateOK /\ ApartOK /\ BornOK /\ quota = Cardinality(Slots)
    BY DEF Inv, ActorInv, Count
  <1>2. BornOK' /\ PrivateOK'  BY <1>1, OneCall
  <1>3. /\ rows \cap stale = {} /\ (rows \cup stale) \cap Rest(c) = {}
        /\ call[c].lost \cap (rows \cup stale \cup Rest(c)) = {}
    BY <1>1, Places
  <1>4. ApartOK'  BY <1>1, <1>3, ApartStays
  <1>5. Slots' = Slots
    <2>1. Rest(c)' = Rest(c) /\ Own(c)' = ({n.cand} \ {NoSession}) \cup n.lost
      BY <1>1, RestStays
    <2>2. Own(c) = call[c].lost /\ Own(c)' = call[c].lost \cup (rows \cap {a})
      BY <2>1 DEF Own
    <2>3. Slots = rows \cup stale \cup Rest(c) \cup Own(c)  BY SlotsAre
    <2>4. Slots' = rows' \cup stale' \cup Rest(c)' \cup Own(c)'  BY NewSlots
    <2>5. QED  BY <2>1, <2>2, <2>3, <2>4
  <1>6. QED  BY <1>1, <1>2, <1>4, <1>5 DEF Count

\* A scan that goes on keeps the account.
LEMMA ScansCount ==
    ASSUME Inv, Count, NEW c \in Client,
           Evicted(c) \/ Invalidated(c) \/ \E a \in Session : Visit(c, a)
    PROVE  Count'
  <1>1. Typed /\ call[c] \in CallState /\ Shape(call[c])  BY Callers DEF Inv, ActorInv
  <1>2. CASE Evicted(c)
    <2> DEFINE n == [call[c] EXCEPT !.stage = "Choosing", !.on = NoSession]
    <2>1. /\ call' = [call EXCEPT ![c] = n] /\ UNCHANGED <<actor, task, stale>>
          /\ Forget(call[c].on) \/ UNCHANGED <<rows, quota>>
          /\ call[c].plan = "Evict"
      BY <1>2 DEF Evicted, MovesOn, actorVars, Answered
    <2>2. /\ n.cand = call[c].cand /\ n.lost = call[c].lost /\ n.left = call[c].left
          /\ n.on = NoSession /\ n.old = call[c].old
      BY <1>1, CallStateIs
    <2> HIDE DEF n
    <2>3. Mine(c)' \subseteq Mine(c)  BY <1>1, <2>1, <2>2, RestStays DEF Mine
    <2>4. QED  BY <2>1, <2>2, <2>3, ForgetCount
  <1>3. CASE Invalidated(c)
    <2>1. /\ UNCHANGED <<actor, task, quota, stale>> /\ call[c].plan = "InvalidateWorker"
          /\ call[c].stage = "Answered"
      BY <1>3 DEF Invalidated, actorVars, Answered
    <2>2. call[c].cand = NoSession  BY <2>1, Stakes
    <2>3. CASE /\ rows' = rows \ {call[c].on}
               /\ MovesOn(c, [call[c] EXCEPT !.lost = @ \cup (rows \cap {call[c].on})])
      <3> DEFINE X == call[c].lost \cup (rows \cap {call[c].on})
                 n == [call[c] EXCEPT !.lost = X, !.stage = "Choosing", !.on = NoSession]
      <3>1. call' = [call EXCEPT ![c] = n]  BY <2>3 DEF MovesOn
      <3>2. /\ n.cand = call[c].cand /\ n.lost = X /\ n.left = call[c].left
            /\ n.on = NoSession /\ n.old = call[c].old
        BY <1>1, CallStateIs
      <3> HIDE DEF n
      <3>3. Mine(c)' \subseteq rows \cup Mine(c)  BY <1>1, <3>1, <3>2, RestStays DEF Mine
      <3>4. QED  BY <2>1, <2>2, <2>3, <3>1, <3>2, <3>3, DetainCount
    <2>4. CASE UNCHANGED rows /\ MovesOn(c, call[c])
      <3> DEFINE n == [call[c] EXCEPT !.stage = "Choosing", !.on = NoSession]
      <3>1. call' = [call EXCEPT ![c] = n]  BY <2>4 DEF MovesOn
      <3>2. /\ n.cand = call[c].cand /\ n.lost = call[c].lost /\ n.left = call[c].left
            /\ n.on = NoSession /\ n.old = call[c].old
        BY <1>1, CallStateIs
      <3> HIDE DEF n
      <3>3. Mine(c)' \subseteq rows \cup Mine(c)  BY <1>1, <3>1, <3>2, RestStays DEF Mine
      <3>4. QED  BY <2>1, <2>2, <2>4, <3>1, <3>2, <3>3, SameCount
    <2>5. QED  BY <1>3, <2>3, <2>4 DEF Invalidated
  <1>4. ASSUME NEW a \in Session, Visit(c, a) PROVE Count'
    <2> DEFINE n == [call[c] EXCEPT !.on = a, !.left = @ \ {a}, !.op = call[c].plan]
    <2>1. /\ call[c].stage = "Choosing" /\ UNCHANGED <<actor, task, rows, quota, stale>>
          /\ a \in call[c].left
          /\ \/ call[c].plan = "Evict" /\ Send(c, n)
             \/ call[c].plan = "InvalidateWorker" /\ SendControl(c, n)
      BY <1>4, Zenon DEF Visit, registryVars
    <2>2. n \in CallState /\ Shape([n EXCEPT !.stage = "Sent", !.answer = "None"])
      BY <1>1, <2>1, VisitShape
    <2>3. /\ n.cand = call[c].cand /\ n.lost = call[c].lost /\ n.left = call[c].left \ {a}
          /\ n.on = a /\ n.old = call[c].old
      BY <1>1, CallStateIs
    <2> HIDE DEF n
    <2>4. {n.on, n.old} \ {NoSession} \subseteq rows \cup Mine(c)  BY <2>1, <2>3 DEF Mine
    <2>5. QED  BY <2>1, <2>2, <2>3, <2>4, SendCount, ZenonT(60)
  <1>5. QED  BY <1>2, <1>3, <1>4

\* A replacement that goes on keeps the account.
LEMMA ReplacesCount ==
    ASSUME Inv, Count, NEW c \in Client,
           \/ HoldOld(c) \/ RetireOld(c) \/ OldRetired(c) \/ UndoReplace(c) \/ CandidateDestroyed(c)
           \/ \E a \in Session : OpenCandidate(c, a)
    PROVE  Count'
  <1>1. Typed /\ call[c] \in CallState /\ Shape(call[c])  BY Callers DEF Inv, ActorInv
  <1>2. ASSUME NEW a \in Session, OpenCandidate(c, a) PROVE Count'
    <2> DEFINE r == [call[c] EXCEPT !.cand = a]
    <2>1. AtStep(c, "Replace", "View") /\ Spawn(c, r, FALSE) /\ UNCHANGED <<rows, stale>>
      BY <1>2, Zenon DEF OpenCandidate
    <2>2. call[c].stage = "Answered" /\ call[c].plan = "Replace" /\ call[c].op = "View"
      BY <2>1 DEF AtStep, Answered
    <2>3. r \in CallState /\ r.cand = a  BY <1>1, <2>2, ReplaceShape, Zenon
    <2>4. r.old = call[c].old /\ r.left = call[c].left /\ r.lost = call[c].lost
      BY <1>1, CallStateIs
    <2>5. call[c].cand = NoSession  BY <2>2, Stakes
    <2> HIDE DEF r
    <2>6. r.cand \in Session  BY <2>3
    <2>7. QED  BY <2>1, <2>3, <2>4, <2>5, <2>6, SpawnCount
  <1>3. CASE HoldOld(c)
    <2> DEFINE n == [call[c] EXCEPT !.op = "Hold", !.on = call[c].old]
    <2>1. /\ AtStep(c, "Replace", "Open") /\ Send(c, n)
          /\ UNCHANGED <<actor, task, rows, quota, stale>>
      BY <1>3 DEF HoldOld, registryVars
    <2>2. call[c].stage = "Answered" /\ call[c].plan = "Replace" /\ call[c].op = "Open"
      BY <2>1 DEF AtStep, Answered
    <2>3. n \in CallState /\ Shape([n EXCEPT !.stage = "Sent", !.answer = "None"])
      BY <1>1, <2>2, ReplaceShape, Zenon
    <2>4. /\ n.cand = call[c].cand /\ n.lost = call[c].lost /\ n.left = call[c].left
          /\ n.on = call[c].old /\ n.old = call[c].old
      BY <1>1, CallStateIs
    <2> HIDE DEF n
    <2>5. {n.on, n.old} \ {NoSession} \subseteq rows \cup Mine(c)  BY <2>4 DEF Mine
    <2>6. QED  BY <2>1, <2>3, <2>4, <2>5, SendCount
  <1>4. CASE RetireOld(c)
    <2> DEFINE n == [call[c] EXCEPT !.op = "Close", !.on = call[c].old]
               p == [n EXCEPT !.stage = "Publishing"]
    <2>1. /\ AtStep(c, "Replace", "Hold") /\ UNCHANGED <<actor, task, rows, quota, stale>>
          /\ Send(c, n) \/ call' = [call EXCEPT ![c] = p]
      BY <1>4 DEF RetireOld, registryVars
    <2>2. call[c].stage = "Answered" /\ call[c].plan = "Replace" /\ call[c].op = "Hold"
      BY <2>1 DEF AtStep, Answered
    <2>3. n \in CallState /\ Shape([n EXCEPT !.stage = "Sent", !.answer = "None"])
      BY <1>1, <2>2, ReplaceShape, Zenon
    <2>4. /\ n.cand = call[c].cand /\ n.lost = call[c].lost /\ n.left = call[c].left
          /\ n.on = call[c].old /\ n.old = call[c].old
      BY <1>1, CallStateIs
    <2>5. /\ p.cand = call[c].cand /\ p.lost = call[c].lost /\ p.left = call[c].left
          /\ p.on = call[c].old /\ p.old = call[c].old
      BY <1>1, CallStateIs
    <2> HIDE DEF n, p
    <2>6. CASE Send(c, n)
      <3>1. {n.on, n.old} \ {NoSession} \subseteq rows \cup Mine(c)  BY <2>4 DEF Mine
      <3>2. QED  BY <2>1, <2>3, <2>4, <2>6, <3>1, SendCount
    <2>7. CASE call' = [call EXCEPT ![c] = p]
      <3>1. Mine(c)' \subseteq rows \cup Mine(c)  BY <1>1, <2>5, <2>7, RestStays DEF Mine
      <3>2. QED  BY <2>1, <2>5, <2>7, <3>1, SameCount
    <2>8. QED  BY <2>1, <2>6, <2>7
  <1>5. CASE OldRetired(c)
    <2> DEFINE p == [call[c] EXCEPT !.stage = "Publishing"]
    <2>1. /\ UNCHANGED <<actor, task, stale>> /\ call' = [call EXCEPT ![c] = p]
          /\ Forget(call[c].old) \/ UNCHANGED <<rows, quota>>
      BY <1>5 DEF OldRetired, actorVars
    <2>2. /\ p.cand = call[c].cand /\ p.lost = call[c].lost /\ p.left = call[c].left
          /\ p.on = call[c].on /\ p.old = call[c].old
      BY <1>1, CallStateIs
    <2> HIDE DEF p
    <2>3. Mine(c)' \subseteq Mine(c)  BY <1>1, <2>1, <2>2, RestStays DEF Mine
    <2>4. QED  BY <2>1, <2>2, <2>3, ForgetCount
  <1>6. CASE UndoReplace(c)
    <2> DEFINE plan == IF call[c].op = "Hold" /\ call[c].answer = "Ok" THEN "UndoHeld" ELSE "Undo"
               n == [call[c] EXCEPT !.plan = plan, !.op = "Close", !.on = call[c].cand]
    <2>1. /\ AtStep(c, "Replace", "Open") \/ AtStep(c, "Replace", "Hold")
          /\ Send(c, n) /\ UNCHANGED <<actor, task, rows, quota, stale>>
      BY <1>6 DEF UndoReplace, registryVars
    <2>2. call[c].stage = "Answered" /\ call[c].plan = "Replace" /\ call[c].op \in {"Open", "Hold"}
      BY <2>1 DEF AtStep, Answered
    <2>3. plan \in {"Undo", "UndoHeld"}  OBVIOUS
    <2> HIDE DEF plan
    <2>4. n \in CallState /\ Shape([n EXCEPT !.stage = "Sent", !.answer = "None"])
      BY <1>1, <2>2, <2>3, ReplaceShape, Zenon
    <2>5. /\ n.cand = call[c].cand /\ n.lost = call[c].lost /\ n.left = call[c].left
          /\ n.on = call[c].cand /\ n.old = call[c].old
      BY <1>1, CallStateIs
    <2> HIDE DEF n
    <2>6. {n.on, n.old} \ {NoSession} \subseteq rows \cup Mine(c)  BY <2>5 DEF Mine
    <2>7. QED  BY <2>1, <2>4, <2>5, <2>6, SendCount
  <1>7. CASE CandidateDestroyed(c)
    <2> DEFINE n == [call[c] EXCEPT !.op = "Resume", !.on = call[c].old, !.cand = NoSession]
    <2>1. /\ AtStep(c, "Undo", "Close") \/ AtStep(c, "UndoHeld", "Close")
          /\ quota' = quota - 1 /\ UNCHANGED <<actor, task, rows, stale>>
          /\ \/ call[c].plan = "UndoHeld" /\ Send(c, n)
             \/ Returns(c)
      BY <1>7 DEF CandidateDestroyed
    <2>2. call[c].stage = "Answered" /\ call[c].cand # NoSession /\ call[c].lost = {}
      BY <2>1, Stakes DEF AtStep, Answered
    <2>3. CASE call[c].plan = "UndoHeld" /\ Send(c, n)
      <3>1. n \in CallState /\ Shape([n EXCEPT !.stage = "Sent", !.answer = "None"])
        BY <1>1, <2>2, <2>3, ResumeShape
      <3>2. /\ n.cand = NoSession /\ n.lost = call[c].lost /\ n.left = call[c].left
            /\ n.on = call[c].old /\ n.old = call[c].old
        BY <1>1, CallStateIs
      <3> HIDE DEF n
      <3>3. call' = Posted(c, n)  BY <2>3 DEF Send
      <3>4. PICK m : /\ call' = [call EXCEPT ![c] = m]
                     /\ m.cand = n.cand /\ m.lost = n.lost
                     /\ m.left \subseteq n.left
                     /\ m.on \in {n.on, NoSession} /\ m.old \in {n.old, NoSession}
                     /\ m.cand # NoSession => m.old = n.old
        BY <3>1, <3>3, PostedIs
      <3>5. Mine(c)' \subseteq Mine(c)  BY <1>1, <3>2, <3>4, RestStays DEF Mine
      <3>6. m.cand = NoSession /\ m.lost = call[c].lost  BY <3>2, <3>4
      <3>7. QED  BY <2>1, <2>2, <3>4, <3>5, <3>6, LeaveCount
    <2>4. CASE Returns(c)
      <3>1. call' = [call EXCEPT ![c] = Out] /\ Mine(c)' \subseteq Mine(c)  BY <2>4, ReturnsLeave
      <3>2. QED  BY <2>1, <2>2, <3>1, MineOut, LeaveCount
    <2>5. QED  BY <2>1, <2>3, <2>4
  <1>8. QED  BY <1>2, <1>3, <1>4, <1>5, <1>6, <1>7

\* Every step keeps the account.
LEMMA NextCount == ASSUME Inv, Count, Next PROVE Count'
  <1>1. ASSUME NEW c \in Client, GoesOn(c) PROVE Count'
    BY <1>1, ClosesCount, ScansCount, ReplacesCount DEF GoesOn, Continues
  <1>2. ASSUME NEW c \in Client, Begins(c) PROVE Count'  BY <1>2, BeginsCount
  <1>3. ASSUME NEW c \in Client, Apart(GiveUp(c)) PROVE Count'  BY <1>3, GiveUpCount DEF Apart
  <1>4. ASSUME Works, UNCHANGED registryVars PROVE Count'  BY <1>4, WorksCount
  <1>5. (\E c \in Client : GoesOn(c) \/ Begins(c) \/ Apart(GiveUp(c)))
        \/ (Works /\ UNCHANGED registryVars)
    BY DEF Next, Proceeds, Apart, Works
  <1>6. QED  BY <1>1, <1>2, <1>3, <1>4, <1>5

\* The account holds.
LEMMA CountHolds == Spec => []Count
  <1>1. Init => Count
    <2> SUFFICES ASSUME Init PROVE Count
      OBVIOUS
    <2>1. \A c \in Client : call[c] = Out  BY DEF Init
    <2>2. \A c \in Client : Own(c) = {} /\ Mine(c) = {}  BY <2>1, MineOut DEF Own, Mine
    <2>3. rows = {} /\ stale = {} /\ quota = 0 /\ \A e \in Execution : task[e].on = NoSession
      BY DEF Init, NoTask
    <2>4. Slots = {} /\ Known = {}
      <3>1. Slots = {}  BY <2>1, <2>3, MineOut DEF Slots, Charged, Detained
      <3>2. \A a : a \notin Known  BY <2>2, <2>3, KnownIs
      <3>3. QED  BY <3>1, <3>2
    <2>5. quota = Cardinality(Slots)  BY <2>3, <2>4, FS_EmptySet
    <2>6. BornOK /\ PrivateOK /\ ApartOK
      BY <2>1, <2>3, <2>4, MineOut DEF BornOK, PrivateOK, ApartOK
    <2>7. QED  BY <2>5, <2>6 DEF Count
  <1>2. Inv /\ Count /\ UNCHANGED vars => Count'
    BY DEF vars, Count, BornOK, PrivateOK, ApartOK, Known, Slots, Charged, Detained
  <1>3. QED  BY <1>1, <1>2, NextCount, InvariantHolds, PTL DEF Spec

\* Every slot taken is one session, in the table, waiting for its quarantine or in the
\* hands of a call: no path gives a slot back twice, and none keeps one.
THEOREM SlotsAreSessions == Spec => []QuotaCountsSessions
  <1>1. Count => QuotaCountsSessions  BY DEF Count, QuotaCountsSessions, Slots
  <1>2. QED  BY <1>1, CountHolds, PTL

\* The types, and that quota never passes below zero: what is given back was taken.
THEOREM TypesHold == Spec => []TypeOK
  <1>1. Inv /\ QuotaCountsSessions => TypeOK
    <2> SUFFICES ASSUME Inv, QuotaCountsSessions PROVE TypeOK
      OBVIOUS
    <2>1. Typed /\ quota = Cardinality(Slots)  BY DEF Inv, ActorInv, QuotaCountsSessions, Slots
    <2>2. IsFiniteSet(Slots)  BY KnownTyped, FiniteAssumption, FS_Subset
    <2>3. quota \in Nat  BY <2>1, <2>2, FS_CardinalityType
    <2>4. QED  BY <2>1, <2>3 DEF Typed, TypeOK
  <1>2. QED  BY <1>1, SlotsAreSessions, InvariantHolds, PTL
===============================================================================
