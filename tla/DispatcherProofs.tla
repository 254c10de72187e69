-------------------------- MODULE DispatcherProofs --------------------------
(***************************************************************************)
(* Proofs about the dispatcher for any calls, users, urls and limits.      *)
(***************************************************************************)
EXTENDS DispatcherProps, FiniteSetTheorems, WellFoundedInduction, TLAPS

USE DEF Threads, Goto

(***************************************************************************)
(* Type correctness.                                                       *)
(***************************************************************************)

\* No step leaves the types: one case per action of Next.
LEMMA TypeStep == TypeOK /\ [Next]_vars => TypeOK'
  <1> SUFFICES ASSUME TypeOK, [Next]_vars PROVE TypeOK'
    OBVIOUS
  <1> USE DispatcherAssumption DEF TypeOK
  <1>1. ASSUME NEW t \in Threads, Promote(t) PROVE TypeOK'
    <2>1. PICK S \in SUBSET ready :
               /\ ready' = ready \ S
               /\ running' = running \cup S
               /\ todo' = [todo EXCEPT ![t] = S]
               /\ pc' = [pc EXCEPT ![t] = IF S = {} THEN "idle" ELSE "launch"]
      BY <1>1 DEF Promote
    <2>2. UNCHANGED <<ticket, arrivals, arg, job, cancels, process>> /\ pc[t] = "promote"
      BY <1>1 DEF Promote
    <2>3. \A s \in Threads : /\ pc'[s] = "launch" <=> todo'[s] # {}
                             /\ pc'[s] \in {"check", "remove", "drop"} <=> arg'[s] # NoCall
      BY <2>1, <2>2
    <2> QED
      BY <2>1, <2>2, <2>3
  <1>2. ASSUME NEW t \in Threads, Launch(t) PROVE TypeOK'
    <2>1. PICK c \in todo[t] :
               /\ todo' = [todo EXCEPT ![t] = @ \ {c}]
               /\ job' = [job EXCEPT ![c] = "executing"]
               /\ pc' = [pc EXCEPT ![t] = IF todo[t] = {c} THEN "idle" ELSE "launch"]
      BY <1>2 DEF Launch
    <2>2. UNCHANGED <<ready, ticket, arrivals, running, arg, cancels, process>>
          /\ pc[t] = "launch"
      BY <1>2 DEF Launch
    <2>3. \A s \in Threads : /\ pc'[s] = "launch" <=> todo'[s] # {}
                             /\ pc'[s] \in {"check", "remove", "drop"} <=> arg'[s] # NoCall
      BY <2>1, <2>2
    <2> QED
      BY <2>1, <2>2, <2>3
  <1>3. ASSUME NEW t \in Threads, Check(t) PROVE TypeOK'
    BY <1>3 DEF Check
  <1>4. ASSUME NEW t \in Threads, Remove(t) PROVE TypeOK'
    BY <1>4 DEF Remove
  <1>5. ASSUME NEW t \in Threads, Drop(t) PROVE TypeOK'
    BY <1>5 DEF Drop
  <1>6. ASSUME NEW t \in Threads, NEW c \in Calls, Cancel(t, c) PROVE TypeOK'
    BY <1>6 DEF Cancel
  <1>7. ASSUME NEW u \in Users, NEW c \in Calls, Enqueue(u, c) PROVE TypeOK'
    BY <1>7 DEF Enqueue
  <1>8. ASSUME NEW c \in Calls, EndExecute(c) PROVE TypeOK'
    BY <1>8 DEF EndExecute
  <1>9. CASE UNCHANGED vars
    BY <1>9 DEF vars
  <1> QED
    BY <1>1, <1>2, <1>3, <1>4, <1>5, <1>6, <1>7, <1>8, <1>9 DEF Next, Step

\* Type correctness: a call waits or runs but not both, and a thread has calls
\* to launch exactly when it is launching.
THEOREM TypeCorrect == Spec => []TypeOK
  <1>1. Init => TypeOK
    BY DispatcherAssumption DEF Init, TypeOK
  <1> QED
    BY <1>1, TypeStep, PTL DEF Spec

(***************************************************************************)
(* No call is stranded.                                                    *)
(***************************************************************************)

\* Room only shrinks when more calls run.
LEMMA RoomShrinks ==
  ASSUME TypeOK, NEW c \in Calls, NEW T \in SUBSET Calls, NEW S \in SUBSET T, Room(T, c)
  PROVE  Room(S, c)
  <1>1. IsFiniteSet(T) /\ SameUrl(T, c) \in SUBSET T
    BY DispatcherAssumption, FS_Subset DEF SameUrl
  <1>2. IsFiniteSet(S) /\ Cardinality(S) <= Cardinality(T)
    BY <1>1, FS_Subset
  <1>3. IsFiniteSet(SameUrl(T, c)) /\ SameUrl(S, c) \in SUBSET SameUrl(T, c)
    BY <1>1, FS_Subset DEF SameUrl
  <1>4. IsFiniteSet(SameUrl(S, c))
        /\ Cardinality(SameUrl(S, c)) <= Cardinality(SameUrl(T, c))
    BY <1>3, FS_Subset
  <1>5. /\ Cardinality(S) \in Nat /\ Cardinality(T) \in Nat
        /\ Cardinality(SameUrl(S, c)) \in Nat /\ Cardinality(SameUrl(T, c)) \in Nat
    BY <1>1, <1>2, <1>3, <1>4, FS_CardinalityType
  <1> QED
    BY <1>2, <1>4, <1>5, DispatcherAssumption DEF Room

\* A step that frees room or adds a call leaves its thread about to promote;
\* a promotion leaves no call there is room for.
LEMMA StrandedStep == TypeOK /\ NoneStranded /\ [Next]_vars => NoneStranded'
  <1> SUFFICES ASSUME TypeOK, NoneStranded, [Next]_vars PROVE NoneStranded'
    OBVIOUS
  <1>0. CASE UNCHANGED vars
    BY <1>0 DEF vars, NoneStranded, Room, SameUrl
  <1>1. ASSUME NEW t \in Threads, Promote(t) PROVE NoneStranded'
    <2>1. PICK S \in SUBSET ready :
               Picked(S) /\ ready' = ready \ S /\ running' = running \cup S
      BY <1>1 DEF Promote
    <2>2. ASSUME NEW c \in ready' PROVE ~Room(running', c)
      <3> DEFINE A == running \cup {d \in S : ticket[d] < ticket[c]}
      <3>1. c \in Calls /\ ~Room(A, c)
        BY <2>1, <2>2 DEF Picked, TypeOK
      <3>2. A \in SUBSET running' /\ running' \in SUBSET Calls
        BY <2>1 DEF TypeOK
      <3> HIDE DEF A
      <3> QED
        BY <3>1, <3>2, RoomShrinks
    <2> QED
      BY <2>2 DEF NoneStranded, Room, SameUrl
  <1>2. ASSUME NEW t \in Threads, pc'[t] = "promote" PROVE NoneStranded'
    BY <1>2 DEF NoneStranded
  <1>3. ASSUME NEW t \in Threads, Remove(t) PROVE NoneStranded'
    BY <1>2, <1>3 DEF Remove, TypeOK
  <1>4. ASSUME NEW u \in Users, NEW c \in Calls, Enqueue(u, c) PROVE NoneStranded'
    BY <1>2, <1>4 DEF Enqueue, TypeOK
  <1>5. ASSUME process = "up", ready' \subseteq ready, running' = running,
               \A s \in Threads : pc[s] = "promote" => pc'[s] = "promote"
        PROVE  NoneStranded'
    BY <1>5 DEF NoneStranded, Room, SameUrl
  <1>6. ASSUME process = "up", NEW t \in Threads, Launch(t) \/ Check(t) \/ Drop(t)
        PROVE  NoneStranded'
    BY <1>5, <1>6 DEF Launch, Check, Drop, TypeOK
  <1>7. ASSUME process = "up", NEW t \in Threads, NEW c \in Calls, Cancel(t, c)
        PROVE  NoneStranded'
    BY <1>5, <1>7 DEF Cancel, TypeOK
  <1>8. ASSUME process = "up", NEW c \in Calls, EndExecute(c)
        PROVE  NoneStranded'
    BY <1>5, <1>8 DEF EndExecute, TypeOK
  <1> QED
    BY <1>0, <1>1, <1>3, <1>4, <1>6, <1>7, <1>8 DEF Next, Step

\* Work conservation: whatever is cancelled while other threads promote, a call
\* waits only for a limit or for a thread that is on its way.
THEOREM NoCallStranded == Spec => []NoneStranded
  <1>1. Init => NoneStranded
    BY DEF Init, NoneStranded
  <1> QED
    BY <1>1, TypeCorrect, StrandedStep, PTL DEF Spec

(***************************************************************************)
(* Who owns a call: the queue, the thread that launches it, its worker.    *)
(***************************************************************************)

\* A call that has not been handed to the executor is owned once.
Owned ==
  /\ \A c \in ready : job[c] = "new" /\ \A t \in Threads : c \notin todo[t]
  /\ \A t \in Threads : \A c \in todo[t] : job[c] = "new" /\ ticket[c] > 0
  /\ \A s, t \in Threads : s # t => todo[s] \cap todo[t] = {}
  /\ \A c \in Calls : job[c] # "new" => ticket[c] > 0

\* No step of the dispatcher duplicates a call or forgets a slot.
LEMMA OwnedStep ==
  TypeOK /\ Owned /\ SlotsHeld /\ [Next]_vars => Owned' /\ SlotsHeld'
  <1> SUFFICES ASSUME TypeOK, Owned, SlotsHeld, [Next]_vars
               PROVE  Owned' /\ SlotsHeld'
    OBVIOUS
  <1> USE DispatcherAssumption DEF TypeOK
  <1>0. CASE UNCHANGED vars
    BY <1>0 DEF vars, Owned, SlotsHeld
  <1>1. ASSUME NEW t \in Threads, Promote(t) PROVE Owned' /\ SlotsHeld'
    <2>1. PICK S \in SUBSET ready :
               /\ ready' = ready \ S
               /\ running' = running \cup S
               /\ todo' = [todo EXCEPT ![t] = S]
      BY <1>1 DEF Promote
    <2>2. UNCHANGED <<ticket, arg, job>> /\ pc[t] = "promote" /\ todo[t] = {}
      BY <1>1 DEF Promote
    <2>3. \A s \in Threads : pc[s] # "promote" => pc'[s] = pc[s]
      BY <1>1 DEF Promote
    <2>4. todo'[t] = S /\ \A s \in Threads : s # t => todo'[s] = todo[s]
      BY <2>1
    <2>5. Owned'
      BY <2>1, <2>2, <2>4 DEF Owned
    <2>6. SlotsHeld'
      <3> SUFFICES ASSUME NEW c \in running'
                   PROVE  \/ \E s \in Threads : c \in todo'[s]
                          \/ job'[c] = "executing"
                          \/ job'[c] = "done" /\ pc'[c] \in {"check", "remove"} /\ arg'[c] = c
        BY DEF SlotsHeld
      <3>1. CASE c \in S
        BY <2>4, <3>1
      <3>2. CASE c \in running
        BY <2>2, <2>3, <2>4, <3>2 DEF SlotsHeld
      <3> QED
        BY <2>1, <3>1, <3>2
    <2> QED
      BY <2>5, <2>6
  <1>2. ASSUME NEW t \in Threads, Launch(t) PROVE Owned' /\ SlotsHeld'
    <2>1. PICK c \in todo[t] :
               /\ todo' = [todo EXCEPT ![t] = @ \ {c}]
               /\ job' = [job EXCEPT ![c] = "executing"]
      BY <1>2 DEF Launch
    <2>2. UNCHANGED <<ready, running, ticket, arg>> /\ pc[t] = "launch" /\ c \in Calls
      BY <1>2 DEF Launch
    <2>3. \A s \in Threads : pc[s] # "launch" => pc'[s] = pc[s]
      BY <1>2 DEF Launch
    <2>4. /\ todo'[t] = todo[t] \ {c} /\ \A s \in Threads : s # t => todo'[s] = todo[s]
          /\ job'[c] = "executing" /\ \A d \in Calls : d # c => job'[d] = job[d]
      BY <2>1, <2>2
    <2>5. Owned'
      BY <2>2, <2>4 DEF Owned
    <2>6. SlotsHeld'
      <3> SUFFICES ASSUME NEW d \in running'
                   PROVE  \/ \E s \in Threads : d \in todo'[s]
                          \/ job'[d] = "executing"
                          \/ job'[d] = "done" /\ pc'[d] \in {"check", "remove"} /\ arg'[d] = d
        BY DEF SlotsHeld
      <3>1. CASE d = c
        BY <2>4, <3>1
      <3>2. CASE d # c
        BY <2>2, <2>3, <2>4, <3>2 DEF SlotsHeld
      <3> QED
        BY <3>1, <3>2
    <2> QED
      BY <2>5, <2>6
  <1>3. ASSUME NEW t \in Threads, Check(t) PROVE Owned' /\ SlotsHeld'
    BY <1>3 DEF Check, Owned, SlotsHeld
  <1>4. ASSUME NEW t \in Threads, Remove(t) PROVE Owned' /\ SlotsHeld'
    BY <1>4 DEF Remove, Owned, SlotsHeld
  <1>5. ASSUME NEW t \in Threads, Drop(t) PROVE Owned' /\ SlotsHeld'
    BY <1>5 DEF Drop, Owned, SlotsHeld
  <1>6. ASSUME NEW t \in Threads, NEW c \in Calls, Cancel(t, c)
        PROVE  Owned' /\ SlotsHeld'
    BY <1>6 DEF Cancel, Owned, SlotsHeld
  <1>7. ASSUME NEW u \in Users, NEW c \in Calls, Enqueue(u, c)
        PROVE  Owned' /\ SlotsHeld'
    <2>1. Owned'
      BY <1>7 DEF Enqueue, Owned
    <2>2. SlotsHeld'
      BY <1>7 DEF Enqueue, SlotsHeld
    <2> QED
      BY <2>1, <2>2
  <1>8. ASSUME NEW c \in Calls, EndExecute(c) PROVE Owned' /\ SlotsHeld'
    <2>1. Owned'
      BY <1>8 DEF EndExecute, Owned
    <2>2. SlotsHeld'
      BY <1>8 DEF EndExecute, SlotsHeld
    <2> QED
      BY <2>1, <2>2
  <1> QED
    BY <1>0, <1>1, <1>2, <1>3, <1>4, <1>5, <1>6, <1>7, <1>8 DEF Next, Step

\* The ownership invariant holds throughout.
LEMMA Ownership == Spec => [](TypeOK /\ Owned /\ SlotsHeld)
  <1>1. Init => Owned /\ SlotsHeld
    BY DEF Init, Owned, SlotsHeld
  <1> QED
    BY <1>1, TypeCorrect, OwnedStep, PTL DEF Spec

\* No slot of the two limits leaks: whoever holds one will give it back.
THEOREM SlotsAreHeld == Spec => []SlotsHeld
  BY Ownership, PTL

\* A call is handed to the executor once at most.
THEOREM CallsStartOnce == Spec => StartedOnce
  <1>1. TypeOK /\ Owned /\ [Next]_vars =>
          [\A t \in Threads : \A c \in todo[t] \ todo'[t] :
             job[c] = "new" /\ c \notin ready]_vars
    BY DEF Owned
  <1> QED
    BY <1>1, Ownership, PTL DEF Spec, StartedOnce

(***************************************************************************)
(* The limits.                                                             *)
(***************************************************************************)

\* Tickets are handed out once.
Ticketed ==
  /\ \A c \in Calls : ticket[c] <= arrivals
  /\ \A c, d \in Calls : ticket[c] > 0 /\ ticket[c] = ticket[d] => c = d

\* Every step keeps tickets unique.
LEMMA TicketStep == TypeOK /\ Ticketed /\ [Next]_vars => Ticketed'
  <1> SUFFICES ASSUME TypeOK, Ticketed, [Next]_vars PROVE Ticketed'
    OBVIOUS
  <1>1. ASSUME NEW u \in Users, NEW c \in Calls, Enqueue(u, c) PROVE Ticketed'
    BY <1>1 DEF Enqueue, Ticketed, TypeOK
  <1>2. CASE UNCHANGED <<ticket, arrivals>>
    BY <1>2 DEF Ticketed
  <1> QED
    BY <1>1, <1>2 DEF Next, Step, Promote, Launch, Check, Remove, Drop, Cancel,
       EndExecute, vars

\* A set of calls has one that was enqueued last.
LEMMA LastCall ==
  ASSUME TypeOK, Ticketed, NEW S \in SUBSET Calls, S # {}
  PROVE  \E m \in S : \A c \in S : ticket[c] <= ticket[m]
  <1> DEFINE R == OpToRel(<, Nat)
             D == {arrivals - ticket[c] : c \in S}
  <1>1. D \subseteq Nat /\ D # {}
    BY DEF TypeOK, Ticketed
  <1>2. PICK x \in D : \A y \in D : <<y, x>> \notin R
    <2> HIDE DEF D, R
    <2>1. IsWellFoundedOn(R, Nat)
      BY NatLessThanWellFounded DEF R
    <2> QED
      BY <1>1, <2>1, WFMin
  <1>3. PICK m \in S : x = arrivals - ticket[m]
    OBVIOUS
  <1>4. ASSUME NEW c \in S PROVE ticket[c] <= ticket[m]
    <2>1. arrivals - ticket[c] \in Nat /\ arrivals - ticket[m] \in Nat
      BY DEF TypeOK, Ticketed
    <2>2. ~(arrivals - ticket[c] < arrivals - ticket[m])
      BY <1>2, <1>3, <2>1 DEF OpToRel
    <2> QED
      BY <2>1, <2>2 DEF TypeOK
  <1> QED
    BY <1>4

\* Taking one more call than there was room for before reaches a limit at most.
LEMMA RoomForOne ==
  ASSUME TypeOK, NEW A \in SUBSET Calls, NEW m \in Calls, Room(A, m)
  PROVE  /\ Cardinality(A \cup {m}) <= MaxRequests
         /\ Cardinality(SameUrl(A \cup {m}, m)) <= MaxPerHost
  <1>1. IsFiniteSet(A) /\ SameUrl(A, m) \in SUBSET A
    BY DispatcherAssumption, FS_Subset DEF SameUrl
  <1>2. IsFiniteSet(SameUrl(A, m))
    BY <1>1, FS_Subset
  <1>3. SameUrl(A \cup {m}, m) = SameUrl(A, m) \cup {m}
    BY DEF SameUrl
  <1>4. Cardinality(A) \in Nat /\ Cardinality(SameUrl(A, m)) \in Nat
    BY <1>1, <1>2, FS_CardinalityType
  <1>5. Cardinality(A \cup {m}) \in {Cardinality(A), Cardinality(A) + 1}
    BY <1>1, FS_AddElement
  <1>6. Cardinality(SameUrl(A, m) \cup {m})
          \in {Cardinality(SameUrl(A, m)), Cardinality(SameUrl(A, m)) + 1}
    BY <1>2, FS_AddElement
  <1>7. Cardinality(A) < MaxRequests /\ Cardinality(SameUrl(A, m)) < MaxPerHost
    BY DEF Room
  <1>8. Cardinality(A \cup {m}) <= MaxRequests
    BY <1>4, <1>5, <1>7, DispatcherAssumption
  <1>9. Cardinality(SameUrl(A, m) \cup {m}) <= MaxPerHost
    BY <1>4, <1>6, <1>7, DispatcherAssumption
  <1> QED
    BY <1>3, <1>8, <1>9

\* A promotion keeps both limits: the last call picked had room next to all
\* the others, and so had the last one of each url.
LEMMA PickKeepsLimits ==
  ASSUME TypeOK, Ticketed, LimitsRespected, NEW S \in SUBSET ready, Picked(S)
  PROVE  /\ Cardinality(running \cup S) <= MaxRequests
         /\ \A c \in running \cup S :
              Cardinality(SameUrl(running \cup S, c)) <= MaxPerHost
  <1> DEFINE Before(m) == running \cup {d \in S : ticket[d] < ticket[m]}
  <1>0. /\ S \in SUBSET Calls /\ running \in SUBSET Calls
        /\ \A c \in Calls : ticket[c] \in Nat
        /\ \A c \in S : ticket[c] > 0
    BY DEF TypeOK
  <1>1. ASSUME NEW m \in S
        PROVE  Before(m) \in SUBSET Calls /\ Room(Before(m), m)
    BY <1>0, <1>1 DEF Picked
  <1>2. Cardinality(running \cup S) <= MaxRequests
    <2>1. CASE S = {}
      <3>1. running \cup S = running
        BY <2>1
      <3> QED
        BY <3>1 DEF LimitsRespected
    <2>2. CASE S # {}
      <3>1. PICK m \in S : \A c \in S : ticket[c] <= ticket[m]
        BY <1>0, <2>2, LastCall
      <3>2. running \cup S = Before(m) \cup {m}
        BY <1>0, <3>1 DEF Ticketed
      <3> HIDE DEF Before
      <3> QED
        BY <1>0, <1>1, <3>2, RoomForOne
    <2> QED
      BY <2>1, <2>2
  <1>3. ASSUME NEW c \in running \cup S
        PROVE  Cardinality(SameUrl(running \cup S, c)) <= MaxPerHost
    <2> DEFINE U == SameUrl(S, c)
    <2>1. CASE U = {}
      <3>1. c \in running /\ SameUrl(running \cup S, c) = SameUrl(running, c)
        BY <1>3, <2>1 DEF SameUrl
      <3> QED
        BY <3>1 DEF LimitsRespected
    <2>2. CASE U # {}
      <3>1. U \in SUBSET Calls /\ U \subseteq S
        BY <1>0 DEF SameUrl
      <3>2. PICK m \in U : \A d \in U : ticket[d] <= ticket[m]
        <4> HIDE DEF U
        <4> QED
          BY <2>2, <3>1, LastCall
      <3>3. m \in S /\ url[m] = url[c]
        BY <3>2 DEF SameUrl
      <3>4. SameUrl(running \cup S, c) = SameUrl(Before(m) \cup {m}, m)
        <4>1. ASSUME NEW d \in S, url[d] = url[c]
              PROVE  d \in Before(m) \cup {m}
          <5>1. ticket[d] <= ticket[m]
            BY <3>2, <4>1 DEF SameUrl
          <5> QED
            BY <1>0, <3>3, <4>1, <5>1 DEF Ticketed
        <4>2. Before(m) \cup {m} \subseteq running \cup S
          BY <3>3
        <4> QED
          BY <3>3, <4>1, <4>2 DEF SameUrl
      <3> HIDE DEF Before
      <3> QED
        BY <1>0, <1>1, <3>3, <3>4, RoomForOne
    <2> QED
      BY <2>1, <2>2
  <1> QED
    BY <1>2, <1>3

\* Promotions keep the limits, and no other step makes a call run.
LEMMA LimitStep ==
  TypeOK /\ Ticketed /\ LimitsRespected /\ [Next]_vars => LimitsRespected'
  <1> SUFFICES ASSUME TypeOK, Ticketed, LimitsRespected, [Next]_vars
               PROVE  LimitsRespected'
    OBVIOUS
  <1>1. ASSUME NEW t \in Threads, Promote(t) PROVE LimitsRespected'
    <2>1. PICK S \in SUBSET ready : Picked(S) /\ running' = running \cup S
      BY <1>1 DEF Promote
    <2>2. /\ Cardinality(running') <= MaxRequests
          /\ \A c \in running' : Cardinality(SameUrl(running', c)) <= MaxPerHost
      BY <2>1, PickKeepsLimits
    <2> QED
      BY <2>2 DEF LimitsRespected, SameUrl
  <1>2. ASSUME running' \subseteq running PROVE LimitsRespected'
    <2>1. IsFiniteSet(running)
      BY DispatcherAssumption, FS_Subset DEF TypeOK
    <2>2. IsFiniteSet(running') /\ Cardinality(running') <= Cardinality(running)
      BY <1>2, <2>1, FS_Subset
    <2>3. Cardinality(running') <= MaxRequests
      BY <2>1, <2>2, FS_CardinalityType, DispatcherAssumption DEF LimitsRespected
    <2>4. ASSUME NEW c \in running'
          PROVE  Cardinality(SameUrl(running', c)) <= MaxPerHost
      <3>1. SameUrl(running, c) \in SUBSET running
            /\ SameUrl(running', c) \in SUBSET SameUrl(running, c)
        BY <1>2 DEF SameUrl
      <3>2. IsFiniteSet(SameUrl(running, c))
        BY <2>1, <3>1, FS_Subset
      <3>3. IsFiniteSet(SameUrl(running', c))
            /\ Cardinality(SameUrl(running', c)) <= Cardinality(SameUrl(running, c))
        BY <3>1, <3>2, FS_Subset
      <3>4. Cardinality(SameUrl(running, c)) <= MaxPerHost
        BY <1>2, <2>4 DEF LimitsRespected
      <3> QED
        BY <3>2, <3>3, <3>4, FS_CardinalityType, DispatcherAssumption
    <2> QED
      BY <2>3, <2>4 DEF LimitsRespected, SameUrl
  <1> QED
    BY <1>1, <1>2 DEF Next, Step, Launch, Check, Remove, Drop, Cancel, Enqueue,
       EndExecute, vars

\* Neither limit is ever exceeded by the calls the dispatcher counts as running.
THEOREM WithinLimits == Spec => []LimitsRespected
  <1>1. Init => Ticketed
    BY DEF Init, Ticketed
  <1>2. Init => LimitsRespected
    <2> SUFFICES ASSUME Init PROVE LimitsRespected
      OBVIOUS
    <2>1. running = {}
      BY DEF Init
    <2>2. Cardinality(running) = 0
      BY <2>1, FS_EmptySet
    <2> QED
      BY <2>1, <2>2, DispatcherAssumption DEF LimitsRespected
  <1> QED
    BY <1>1, <1>2, TypeCorrect, TicketStep, LimitStep, PTL DEF Spec
\* The slots are neither overbooked nor lost.
THEOREM SlotsAreSound == Spec => []SlotsSound
  <1>1. LimitsRespected /\ SlotsHeld => SlotsSound
    BY DEF SlotsSound
  <1> QED
    BY <1>1, WithinLimits, SlotsAreHeld, PTL
==============================================================================
