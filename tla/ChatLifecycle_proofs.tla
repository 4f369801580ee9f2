------------------------ MODULE ChatLifecycle_proofs ------------------------
(***************************************************************************)
(* Proofs about ChatLifecycle, for any number of programs on the machine   *)
(* and any number of starts and messages.                                  *)
(***************************************************************************)
EXTENDS ChatLifecycle, TLAPS

-----------------------------------------------------------------------------
(* Type correctness.                                                       *)

LEMMA TypeStep == TypeOK /\ [Next]_vars => TypeOK'
<1> SUFFICES ASSUME TypeOK, [Next]_vars PROVE TypeOK'
  OBVIOUS
<1>1. ASSUME NEW p \in Programs, Start(p) PROVE TypeOK'
  <2>1. ui' \in [Programs -> UIPlaces]
    BY <1>1 DEF TypeOK, Start, UIMoves, UIPlaces
  <2>2. /\ writers' \in [Programs -> SUBSET {"ui", "client"}]
        /\ greeting' \in [Programs -> {"none", "running", "failed"}]
    BY <1>1 DEF TypeOK, Start
  <2>3. /\ texts' \in [Programs -> Nat] /\ owed' \in [Programs -> Nat]
        /\ starts' \in [Programs -> 0..MaxStarts] /\ shared' \in BOOLEAN
    BY <1>1, LifecycleAssumption DEF TypeOK, Start
  <2> QED
    BY <1>1, <2>1, <2>2, <2>3 DEF TypeOK, Start, semaphore
<1>2. ASSUME NEW p \in Programs, UIOpen(p) \/ ClientOpen(p) PROVE TypeOK'
  <2>1. created' \in BOOLEAN /\ sem' \in Nat
    <3>1. created' = TRUE /\ sem' \in {sem, 0, 1}
      BY <1>2, Zenon DEF UIOpen, ClientOpen, SemOpen
    <3> QED
      BY <3>1 DEF TypeOK
  <2>2. ui' \in [Programs -> UIPlaces] /\ client' \in [Programs -> ClientPlaces]
    BY <1>2 DEF TypeOK, UIPlaces, ClientPlaces, UIMoves, ClientMoves, UIOpen, ClientOpen
  <2> QED
    BY <1>2, <2>1, <2>2 DEF TypeOK, UIOpen, ClientOpen, SemOpen, channel
<1>3. ASSUME NEW p \in Programs, Fork(p) \/ CloseEnds(p) \/ ReadGreeting(p) PROVE TypeOK'
  BY <1>3 DEF TypeOK, UIPlaces, ClientPlaces, UIMoves, ClientMoves, Fork, CloseEnds,
              ReadGreeting, semaphore, channel
<1>4. ASSUME NEW p \in Programs, Exec(p) \/ Connect(p) PROVE TypeOK'
  BY <1>4 DEF TypeOK, ClientPlaces, ClientMoves, Exec, Connect, semaphore, channel
<1>5. ASSUME NEW p \in Programs, Write(p) \/ Post(p) PROVE TypeOK'
  <2>1. client' \in [Programs -> ClientPlaces]
    BY <1>5 DEF TypeOK, Write, Post, ClientMoves, ClientPlaces
  <2>2. texts' \in [Programs -> Nat] /\ sem' \in Nat /\ posts' \in Nat /\ waits' \in Nat
    BY <1>5 DEF TypeOK, Write, Post, channel, semaphore
  <2> QED
    BY <1>5, <2>1, <2>2 DEF TypeOK, Write, Post, channel, semaphore
<1>6. ASSUME NEW p \in Programs, Ask(p) PROVE TypeOK'
  <2>1. ui' \in [Programs -> UIPlaces]
    BY <1>6 DEF TypeOK, Ask, UIMoves, UIPlaces
  <2>2. owed' \in [Programs -> Nat] /\ woken' \in [Programs -> Nat]
    BY <1>6 DEF TypeOK, Ask
  <2> QED
    BY <1>6, <2>1, <2>2 DEF TypeOK, Ask, semaphore
<1>7. ASSUME NEW p \in Programs, Relay(p) PROVE TypeOK'
  <2>1. PICK n \in 1..owed[p] : owed' = [owed EXCEPT ![p] = @ - n]
    BY <1>7 DEF Relay
  <2>2. owed' \in [Programs -> Nat] /\ texts' \in [Programs -> Nat]
    BY <1>7, <2>1 DEF TypeOK, Relay
  <2> QED
    BY <1>7, <2>2 DEF TypeOK, Relay, process, semaphore
<1>8. ASSUME NEW p \in Programs, MainRead(p) \/ Take(p) PROVE TypeOK'
  <2>1. texts' \in [Programs -> Nat]
    BY <1>8 DEF TypeOK, MainRead, Take, Taken
  <2>2. woken' \in [Programs -> Nat]
    BY <1>8 DEF TypeOK, MainRead, Take
  <2>3. ui' \in [Programs -> UIPlaces]
    BY <1>8 DEF TypeOK, MainRead, Take, process, UIMoves, UIPlaces
  <2> QED
    BY <1>8, <2>1, <2>2, <2>3 DEF TypeOK, MainRead, Take, process, semaphore
<1>9. ASSUME NEW p \in Programs, Wake(p) PROVE TypeOK'
  <2>1. sem' \in Nat /\ waits' \in Nat /\ woken' \in [Programs -> Nat]
    BY <1>9 DEF TypeOK, Wake
  <2> QED
    BY <1>9, <2>1 DEF TypeOK, Wake, process
<1>10. ASSUME NEW p \in Programs, End(p) \/ ClientEnd(p) PROVE TypeOK'
  <2>1. /\ ui' \in [Programs -> UIPlaces] /\ client' \in [Programs -> ClientPlaces]
        /\ writers' \in [Programs -> SUBSET {"ui", "client"}]
    BY <1>10 DEF TypeOK, End, ClientEnd, UIPlaces, ClientPlaces
  <2>2. woken' \in [Programs -> Nat]
    BY <1>10 DEF TypeOK, End, ClientEnd, channel
  <2> QED
    BY <1>10, <2>1, <2>2 DEF TypeOK, End, ClientEnd, channel, semaphore
<1>11. CASE UNCHANGED vars
  BY <1>11 DEF TypeOK, vars
<1> QED
  BY <1>1, <1>2, <1>3, <1>4, <1>5, <1>6, <1>7, <1>8, <1>9, <1>10, <1>11
  DEF Next, Progress, Session

\* Every variable keeps its type (both processes of all programs).
THEOREM LifecycleTypeCorrect == Spec => []TypeOK
<1>1. Init => TypeOK
  <2> SUFFICES ASSUME Init PROVE TypeOK
    OBVIOUS
  <2>1. starts \in [Programs -> 0..MaxStarts] /\ texts \in [Programs -> Nat]
    BY LifecycleAssumption DEF Init
  <2>2. /\ writers \in [Programs -> SUBSET {"ui", "client"}]
        /\ owed \in [Programs -> Nat] /\ woken \in [Programs -> Nat]
    BY DEF Init
  <2> QED
    BY <2>1, <2>2 DEF Init, TypeOK, UIPlaces, ClientPlaces
<1> QED
  BY <1>1, TypeStep, PTL DEF Spec

-----------------------------------------------------------------------------
(* The semaphore.                                                          *)

\* As long as nobody has created the semaphore no program is past its sem_open,
\* so that no client opens it first.
UncreatedYet ==
  /\ sem = 0 /\ posts = 0 /\ waits = 0
  /\ \A p \in Programs : ui[p] \in {"off", "open"} /\ client[p] = "off"

CountsInv == Counts /\ (~created => UncreatedYet)

LEMMA CountsStep == TypeOK /\ CountsInv /\ [Next]_vars => CountsInv'
<1> SUFFICES ASSUME TypeOK, CountsInv, [Next]_vars PROVE CountsInv'
  OBVIOUS
<1> USE DEF TypeOK, CountsInv, Counts, UncreatedYet, UIMoves, ClientMoves
<1>1. ASSUME NEW p \in Programs, Start(p) PROVE CountsInv'
  BY <1>1 DEF Start, semaphore
<1>2. ASSUME NEW p \in Programs, UIOpen(p) PROVE CountsInv'
  BY <1>2 DEF UIOpen, SemOpen
<1>3. ASSUME NEW p \in Programs, ClientOpen(p) PROVE CountsInv'
  BY <1>3 DEF ClientOpen, SemOpen
<1>4. ASSUME NEW p \in Programs,
             Fork(p) \/ CloseEnds(p) \/ ReadGreeting(p) \/ Exec(p) \/ Connect(p)
      PROVE  CountsInv'
  BY <1>4 DEF Fork, CloseEnds, ReadGreeting, Exec, Connect, semaphore
<1>5. ASSUME NEW p \in Programs, Post(p) \/ Wake(p) PROVE CountsInv'
  BY <1>5 DEF Post, Wake, process
<1>6. ASSUME NEW p \in Programs, Write(p) \/ ClientEnd(p) PROVE CountsInv'
  BY <1>6 DEF Write, ClientEnd, semaphore
<1>7. ASSUME NEW p \in Programs, Ask(p) \/ Relay(p) \/ MainRead(p) \/ Take(p) \/ End(p)
      PROVE  CountsInv'
  <2>1. UNCHANGED semaphore /\ UNCHANGED client
    BY <1>7 DEF Ask, Relay, MainRead, Take, End, process
  <2>2. ui[p] \notin {"off", "open"} \/ client[p] # "off"
    BY <1>7 DEF Ask, Relay, MainRead, Take, End
  <2>3. created
    BY <2>2
  <2> QED
    BY <2>1, <2>3 DEF semaphore
<1>8. CASE UNCHANGED vars
  BY <1>8 DEF vars
<1> QED
  BY <1>1, <1>2, <1>3, <1>4, <1>5, <1>6, <1>7, <1>8 DEF Next, Progress, Session

LEMMA CountsInvAlways == Spec => []CountsInv
<1>1. Init => CountsInv
  BY DEF Init, CountsInv, Counts, UncreatedYet
<1> QED
  BY <1>1, CountsStep, LifecycleTypeCorrect, PTL DEF Spec

\* The semaphore's value is what was posted and not waited for, over every
\* program and session on the machine: the client's initial value of one never
\* takes effect (chat_ui.c 118, main.c 60).
THEOREM CountsAlways == Spec => []Counts
<1>1. CountsInv => Counts
  BY DEF CountsInv
<1> QED
  BY <1>1, CountsInvAlways, PTL

-----------------------------------------------------------------------------
(* A program that runs alone.                                              *)

\* Without two programs at once, no more than one has a process.
Alone == \A p, q \in Programs : Runs(p) /\ Runs(q) => p = q

\* Before its menu a program has no texts and owes none; from then on there are
\* enough readers, while it has a client.
Balanced(p) ==
  /\ ui[p] \in {"open", "fork", "asleep", "reading"} => texts[p] = 0 /\ owed[p] = 0
  /\ ui[p] \in {"menu", "await"} /\ client[p] # "off" => texts[p] + owed[p] <= Readers(p)

LoneInv == ~shared => Alone /\ \A p \in Programs : Balanced(p)

\* A client that is there can write to the response pipe.
HoldsEnd == \A p \in Programs : client[p] # "off" => "client" \in writers[p]

LEMMA HoldsEndAlways == Spec => []HoldsEnd
<1>1. Init => HoldsEnd
  BY DEF Init, HoldsEnd
<1>2. ASSUME TypeOK, HoldsEnd, [Next]_vars PROVE HoldsEnd'
  <2> USE <1>2 DEF TypeOK, HoldsEnd
  <2>1. ASSUME NEW p \in Programs, Start(p) PROVE HoldsEnd'
    BY <2>1 DEF Start
  <2>2. ASSUME NEW p \in Programs, Progress(p) PROVE HoldsEnd'
    BY <2>2 DEF Progress, UIOpen, Fork, CloseEnds, ReadGreeting, Exec, ClientOpen, Connect,
                ClientMoves
  <2>3. ASSUME NEW p \in Programs, Session(p) PROVE HoldsEnd'
    BY <2>3 DEF Session, Write, Post, Ask, Relay, MainRead, Wake, Take, End, ClientEnd,
                ClientMoves, process
  <2>4. CASE UNCHANGED vars
    BY <2>4 DEF vars
  <2> QED
    BY <2>1, <2>2, <2>3, <2>4 DEF Next
<1> QED
  BY <1>1, <1>2, LifecycleTypeCorrect, PTL DEF Spec

\* What a step of one program leaves alone of the others.
LEMMA OthersStay ==
  ASSUME TypeOK, NEW p \in Programs, Start(p) \/ Progress(p) \/ Session(p),
         NEW q \in Programs, q # p
  PROVE  /\ ui'[q] = ui[q] /\ client'[q] = client[q]
         /\ texts'[q] = texts[q] /\ owed'[q] = owed[q] /\ woken'[q] = woken[q]
<1>1. ui'[q] = ui[q] /\ client'[q] = client[q]
  BY DEF TypeOK, Start, Progress, UIOpen, Fork, CloseEnds, ReadGreeting, Exec, ClientOpen,
     Connect, Session, Write, Post, Ask, Relay, MainRead, Wake, Take, End, ClientEnd, UIMoves,
     ClientMoves, process
<1>2. texts'[q] = texts[q] /\ owed'[q] = owed[q] /\ woken'[q] = woken[q]
  <2>1. CASE Start(p) \/ Progress(p)
    BY <2>1 DEF TypeOK, Start, Progress, UIOpen, Fork, CloseEnds, ReadGreeting, Exec, ClientOpen,
       Connect, channel
  <2>2. CASE Session(p)
    BY <2>2 DEF TypeOK, Session, Write, Post, Ask, Relay, MainRead, Taken, Wake, Take, End,
       ClientEnd, channel, process
  <2> QED
    BY <2>1, <2>2
<1> QED
  BY <1>1, <1>2

\* A program that runs alone still does after a step that is not the start of
\* another one.
LEMMA AloneStep ==
  ASSUME TypeOK, Alone, NEW p \in Programs, Start(p) \/ Progress(p) \/ Session(p), ~shared'
  PROVE  ~shared /\ Alone' /\ \A q \in Programs : q # p => ~Runs(q) /\ ~Runs(q)'
<1>1. CASE Start(p)
  <2>1. ~shared /\ \A q \in Programs : ~Runs(q)
    BY <1>1 DEF Start, TypeOK
  <2> QED
    BY <1>1, <2>1, OthersStay DEF Alone, Runs
<1>2. CASE Progress(p) \/ Session(p)
  <2>1. ~shared /\ Runs(p)
    BY <1>2 DEF Progress, UIOpen, Fork, CloseEnds, ReadGreeting, Exec, ClientOpen, Connect,
       Session, Write, Post, Ask, Relay, MainRead, Wake, Take, End, ClientEnd, UIMoves,
       ClientMoves, process, Runs
  <2> QED
    BY <1>2, <2>1, OthersStay DEF Alone, Runs
<1> QED
  BY <1>1, <1>2

\* The program begins.
LEMMA ProgressBalanced ==
  ASSUME TypeOK, CountsInv, NEW p \in Programs, Balanced(p), Start(p) \/ Progress(p)
  PROVE  Balanced(p)'
<1>1. CASE Start(p)
  BY <1>1 DEF Start, UIMoves, TypeOK, Balanced
<1>2. CASE UIOpen(p) \/ Fork(p) \/ CloseEnds(p)
  <2>1. ui'[p] \in {"fork", "asleep", "reading"} /\ ui[p] \in {"open", "fork", "asleep"}
    BY <1>2 DEF UIOpen, Fork, CloseEnds, UIMoves, TypeOK
  <2>2. UNCHANGED channel
    BY <1>2 DEF UIOpen, Fork, CloseEnds
  <2> QED
    BY <2>1, <2>2 DEF Balanced, channel
<1>3. CASE ReadGreeting(p)
  <2>1. ui'[p] \in {"menu", "off"} /\ ui[p] = "reading" /\ UNCHANGED <<channel, client, semaphore>>
    BY <1>3 DEF ReadGreeting, UIMoves, TypeOK
  <2>2. texts'[p] = 0 /\ owed'[p] = 0
    BY <2>1 DEF Balanced, channel
  <2>3. sem' \in Nat /\ woken'[p] \in Nat
    BY <2>1 DEF TypeOK, channel, semaphore
  <2>4. Readers(p)' >= 0
    BY <2>3 DEF Readers
  <2> QED
    BY <2>1, <2>2, <2>4 DEF Balanced, Readers
<1>4. CASE Exec(p) \/ ClientOpen(p) \/ Connect(p)
  <2>1. client[p] \in {"exec", "open", "connect"} /\ client'[p] # "posting"
    BY <1>4 DEF Exec, ClientOpen, Connect, ClientMoves, TypeOK
  <2>2. created
    BY <2>1 DEF CountsInv, UncreatedYet
  <2>3. UNCHANGED <<ui, channel, sem>>
    BY <1>4, <2>2 DEF Exec, ClientOpen, Connect, SemOpen, semaphore
  <2> QED
    BY <2>1, <2>3 DEF Balanced, Readers, channel
<1> QED
  BY <1>1, <1>2, <1>3, <1>4 DEF Progress

\* The texts of a session and their readers.
LEMMA SessionBalanced ==
  ASSUME TypeOK, HoldsEnd, NEW p \in Programs, Balanced(p), Session(p)
  PROVE  Balanced(p)'
<1>1. PICK s \in Nat, w \in Nat, x \in Nat, o \in Nat :
        s = sem /\ w = woken[p] /\ x = texts[p] /\ o = owed[p]
  BY DEF TypeOK
<1>2. CASE Write(p)
  <2>1. /\ client[p] = "up" /\ client'[p] = "posting" /\ texts'[p] = x + 1
        /\ UNCHANGED <<ui, owed, woken, sem>>
    BY <1>1, <1>2 DEF Write, ClientMoves, TypeOK, semaphore
  <2>2. ui[p] \in {"menu", "await"}
    BY <1>2 DEF Write
  <2>3. PICK r \in Nat : r = Readers(p)
    BY <1>1 DEF Readers
  <2>4. x + o <= r
    BY <1>1, <2>1, <2>2, <2>3 DEF Balanced
  <2>5. Readers(p)' = r + 1 /\ owed'[p] = o
    BY <1>1, <2>1, <2>3 DEF Readers
  <2>6. texts'[p] + owed'[p] <= Readers(p)'
    BY <2>1, <2>4, <2>5
  <2> QED
    BY <2>1, <2>2, <2>6 DEF Balanced
<1>3. CASE Post(p)
  <2>1. /\ client[p] = "posting" /\ client'[p] = "up" /\ sem' = s + 1
        /\ UNCHANGED <<ui, channel>>
    BY <1>1, <1>3 DEF Post, ClientMoves, TypeOK
  <2> QED
    BY <1>1, <2>1 DEF Balanced, Readers, channel
<1>4. CASE Ask(p)
  <2>1. CASE client[p] # "off"
    <3>1. /\ ui[p] = "menu" /\ ui'[p] = "await" /\ owed'[p] = o + 1
          /\ UNCHANGED <<client, texts, woken, sem>>
      BY <1>1, <1>4, <2>1 DEF Ask, UIMoves, TypeOK, semaphore
    <3> QED
      BY <1>1, <2>1, <3>1 DEF Balanced, Readers
  <2>2. CASE client[p] = "off"
    <3>1. ui'[p] = "off"
      BY <1>4, <2>2 DEF Ask, UIMoves, TypeOK
    <3> QED
      BY <3>1 DEF Balanced
  <2> QED
    BY <2>1, <2>2
<1>5. CASE Relay(p)
  <2>1. PICK n \in 1..owed[p] : owed' = [owed EXCEPT ![p] = @ - n]
    BY <1>5 DEF Relay
  <2>2. n \in Nat /\ n >= 1 /\ n <= o /\ owed'[p] = o - n
    BY <1>1, <2>1 DEF TypeOK
  <2>3. /\ texts'[p] = x \/ texts'[p] = x + 1
        /\ UNCHANGED <<ui, client, woken, sem>>
    BY <1>1, <1>5 DEF Relay, TypeOK, process, semaphore
  <2>4. ui[p] \in {"menu", "await"} /\ client[p] # "off"
    BY <1>5 DEF Relay
  <2>5. x + o <= Readers(p) /\ Readers(p)' = Readers(p)
    BY <1>1, <2>3, <2>4 DEF Balanced, Readers
  <2>6. Readers(p) \in Nat
    BY <1>1 DEF Readers
  <2>7. texts'[p] + owed'[p] <= Readers(p)
    BY <2>2, <2>3, <2>5, <2>6
  <2> QED
    BY <2>3, <2>4, <2>5, <2>7 DEF Balanced
<1>6. CASE MainRead(p) \/ Take(p)
  <2>1. UNCHANGED <<client, owed, sem>>
    BY <1>6 DEF MainRead, Take, process, semaphore
  <2>2. CASE texts[p] > 0
    <3>1. Taken(p) /\ ui[p] \in {"menu", "await"}
      BY <1>6 DEF MainRead, Take, UIMoves
    <3>2. PICK n \in 1..texts[p] : texts' = [texts EXCEPT ![p] = @ - n]
      BY <2>2, <3>1 DEF Taken
    <3>3. n \in Nat /\ n >= 1 /\ n <= x /\ texts'[p] = x - n
      BY <1>1, <3>2 DEF TypeOK
    <3>4. CASE MainRead(p)
      <4>1. ui[p] = "await" /\ ui'[p] = "menu" /\ woken' = woken
        BY <2>2, <3>4 DEF MainRead, UIMoves, TypeOK
      <4> QED
        BY <1>1, <2>1, <3>3, <4>1 DEF Balanced, Readers
    <3>5. CASE Take(p)
      <4>1. w > 0 /\ woken'[p] = w - 1 /\ ui' = ui
        BY <1>1, <3>5 DEF Take, TypeOK, process
      <4> QED
        BY <1>1, <2>1, <3>1, <3>3, <4>1 DEF Balanced, Readers
    <3> QED
      BY <1>6, <3>4, <3>5
  <2>3. CASE ~(texts[p] > 0)
    <3>1. Taken(p) /\ ui[p] \in {"menu", "await"}
      BY <1>6 DEF MainRead, Take, UIMoves
    <3>2. ~\E n \in 1..texts[p] : TRUE
      BY <1>1, <2>3
    <3>3. writers[p] = {} /\ texts' = texts
      BY <3>1, <3>2 DEF Taken
    <3>4. client'[p] = "off"
      BY <2>1, <3>3 DEF HoldsEnd
    <3>5. ui'[p] \in {"menu", "await", "off"}
      BY <1>6, <3>1 DEF MainRead, Take, process, UIMoves, TypeOK
    <3> QED
      BY <3>4, <3>5 DEF Balanced
  <2> QED
    BY <2>2, <2>3
<1>7. CASE Wake(p)
  <2>1. /\ s > 0 /\ sem' = s - 1 /\ woken'[p] = w + 1
        /\ UNCHANGED <<ui, client, texts, owed>>
    BY <1>1, <1>7 DEF Wake, TypeOK, process
  <2> QED
    BY <1>1, <2>1 DEF Balanced, Readers
<1>8. CASE End(p)
  BY <1>8 DEF End, TypeOK, Balanced
<1>9. CASE ClientEnd(p)
  <2>1. client'[p] = "off" /\ UNCHANGED <<ui, channel>>
    BY <1>9 DEF ClientEnd, TypeOK
  <2> QED
    BY <2>1 DEF Balanced, channel
<1> QED
  BY <1>2, <1>3, <1>4, <1>5, <1>6, <1>7, <1>8, <1>9 DEF Session

LEMMA LoneStep == TypeOK /\ CountsInv /\ HoldsEnd /\ LoneInv /\ [Next]_vars => LoneInv'
<1> SUFFICES ASSUME TypeOK, CountsInv, HoldsEnd, LoneInv, [Next]_vars, ~shared'
             PROVE  Alone' /\ \A q \in Programs : Balanced(q)'
  BY DEF LoneInv
<1>1. CASE UNCHANGED vars
  BY <1>1 DEF vars, LoneInv, Alone, Runs, Balanced, Readers
<1>2. CASE Next
  <2>1. PICK p \in Programs : Start(p) \/ Progress(p) \/ Session(p)
    BY <1>2 DEF Next
  <2>2. ~shared
    BY <2>1 DEF Start, Progress, UIOpen, Fork, CloseEnds, ReadGreeting, Exec, ClientOpen, Connect,
       Session, Write, Post, Ask, Relay, MainRead, Wake, Take, End, ClientEnd, process
  <2>3. Alone /\ \A q \in Programs : Balanced(q)
    BY <2>2 DEF LoneInv
  <2>4. Alone' /\ \A q \in Programs : q # p => ~Runs(q)'
    BY <2>1, <2>3, AloneStep
  <2>5. Balanced(p)'
    BY <2>1, <2>3, ProgressBalanced, SessionBalanced
  <2>6. ASSUME NEW q \in Programs, q # p PROVE Balanced(q)'
    BY <2>4, <2>6 DEF Balanced, Runs
  <2> QED
    BY <2>4, <2>5, <2>6
<1> QED
  BY <1>1, <1>2

\* While no two programs run at once every text in the response pipe, and every
\* answer that is owed, has a reader, in any number of sessions one after the
\* other and with any number of message threads and of commands and messages (the
\* reads in chat_ui.c and the write and post in handle_server.c 262-265).
THEOREM TextsAwaitedAlways == Spec => []TextsAwaited
<1>1. Init => LoneInv
  BY DEF Init, LoneInv, Alone, Runs, Balanced
<1>2. LoneInv => TextsAwaited
  BY DEF LoneInv, TextsAwaited, Balanced
<1> QED
  BY <1>1, <1>2, LoneStep, CountsInvAlways, HoldsEndAlways, LifecycleTypeCorrect, PTL DEF Spec
=============================================================================
