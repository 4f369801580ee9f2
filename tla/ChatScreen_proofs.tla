-------------------------- MODULE ChatScreen_proofs --------------------------
(***************************************************************************)
(* Proofs about ChatScreen, for every set of message threads, size of the  *)
(* array and of the input line, and set of window heights and texts.       *)
(***************************************************************************)
EXTENDS ChatScreen, FiniteSetTheorems, TLAPS

-----------------------------------------------------------------------------
(* What a step of the program does to the history.                         *)

\* A message thread does one access, the main thread copies a response or
\* creates a thread, or the history stays as it is.
LEMMA HistorySteps ==
  ASSUME [Next]_vars
  PROVE  \/ UNCHANGED historyVars
         \/ Respond
         \/ \E t \in MsgThreads : StartThread(t) \/ ThreadStep(t) \/ CopyText(t)
<1>1. CASE MainThread
  BY <1>1 DEF MainThread, Resize, Login, Refused, ResizeHandler, Enter, EnterNothing, Logout,
              Clear, Backspace, KeyDown, Character, OtherKey, Key, Answer
<1>2. CASE \E t \in MsgThreads : MessageThread(t)
  BY <1>2 DEF MessageThread, CopyLine
<1>3. CASE UNCHANGED vars
  BY <1>3 DEF vars
<1> QED
  BY <1>1, <1>2, <1>3 DEF Next

\* Which threads are adding after a step of a thread.
LEMMA AddingAfter ==
  ASSUME HistoryTypeOK, NEW t \in MsgThreads
  PROVE  /\ StartThread(t) => Adding' = Adding
         /\ Take(t) => t \notin Adding /\ Adding' = Adding \cup {t}
         /\ CopyText(t) \/ CopyUsername(t) \/ CopyTimestamp(t) \/ Load(t)
              => t \in Adding /\ Adding' = Adding
         /\ Store(t) => t \in Adding /\ Adding' = Adding \ {t}
         /\ Mark(t) => Adding' = Adding
BY DEF HistoryTypeOK, Adding, Moves, StartThread, Take, CopyText, CopyUsername,
       CopyTimestamp, Load, Store, Mark

-----------------------------------------------------------------------------
(* The counts: num_messages never gets ahead of what was added, and what   *)
(* was taken up is added or being added.                                   *)

Counted ==
  /\ IsFiniteSet(Adding)
  /\ taken = added + Cardinality(Adding)

Loaded ==
  /\ num_messages <= added
  /\ \A t \in MsgThreads : pc[t] = "store" => number[t] <= added

Counts == HistoryTypeOK /\ Counted /\ Loaded

LEMMA CountsInit == Init => Counts
<1> SUFFICES ASSUME Init PROVE Counts
  OBVIOUS
<1> USE HistoryAssumption DEF Init, HistoryInit
<1>1. HistoryTypeOK
  <2>1. 0 \in Count
    BY DEF Count
  <2>2. messages \in [Elements -> Element]
    BY DEF Element
  <2> QED
    BY <2>1, <2>2 DEF HistoryTypeOK, Places
<1>2. Adding = {}
  BY DEF Adding
<1>3. Counted
  BY <1>2, FS_EmptySet DEF Counted
<1>4. Loaded
  BY DEF Loaded
<1> QED
  BY <1>1, <1>3, <1>4 DEF Counts

\* What a thread copies to an element leaves the array an array of elements.
LEMMA CopyType ==
  ASSUME HistoryTypeOK, NEW t \in MsgThreads,
         CopyText(t) \/ CopyUsername(t) \/ CopyTimestamp(t)
  PROVE  messages' \in [Elements -> Element]
<1>1. message[t] \in Nat
  BY HistoryAssumption DEF HistoryTypeOK, Count
<1>2. CASE num_messages \notin Elements
  BY <1>2 DEF HistoryTypeOK, CopyText, CopyUsername, CopyTimestamp
<1>3. CASE num_messages \in Elements
  <2>1. messages[num_messages] \in Element
    BY <1>3 DEF HistoryTypeOK
  <2>2. CASE CopyText(t)
    BY <1>1, <1>3, <2>1, <2>2 DEF HistoryTypeOK, CopyText, Element
  <2>3. CASE CopyUsername(t)
    BY <1>1, <1>3, <2>1, <2>3 DEF HistoryTypeOK, CopyUsername, Element
  <2>4. CASE CopyTimestamp(t)
    BY <1>1, <1>3, <2>1, <2>4 DEF HistoryTypeOK, CopyTimestamp, Element
  <2> QED
    BY <2>2, <2>3, <2>4
<1> QED
  BY <1>2, <1>3

LEMMA CountsStep == Counts /\ [Next]_vars => Counts'
<1> SUFFICES ASSUME Counts, [Next]_vars PROVE Counts'
  OBVIOUS
<1>0. /\ added \in Nat /\ taken \in Nat /\ num_messages \in Nat
      /\ Cardinality(Adding) \in Nat
      /\ added <= taken
      /\ MAX_MESSAGES \in Nat
  BY FS_CardinalityType, HistoryAssumption DEF Counts, Counted, HistoryTypeOK, Count
<1>1. CASE UNCHANGED historyVars
  BY <1>1 DEF historyVars, Counts, HistoryTypeOK, Counted, Loaded, Adding
<1>2. CASE Respond
  <2>1. UNCHANGED <<num_messages, pc, message, number, taken, added, crowded>>
    BY <1>2 DEF Respond
  <2>2. messages' \in [Elements -> Element]
    <3>1. CASE num_messages \notin Elements
      BY <1>2, <3>1 DEF Respond, Counts, HistoryTypeOK
    <3>2. CASE num_messages \in Elements
      <4>1. messages[num_messages] \in Element
        BY <3>2 DEF Counts, HistoryTypeOK
      <4> QED
        BY <1>2, <3>2, <4>1 DEF Respond, Counts, HistoryTypeOK, Element
    <3> QED
      BY <3>1, <3>2
  <2>3. answered' \in BOOLEAN
    BY <1>2 DEF Respond
  <2>4. Adding' = Adding
    BY <2>1 DEF Adding
  <2> QED
    BY <2>1, <2>2, <2>3, <2>4 DEF Counts, HistoryTypeOK, Counted, Loaded
<1>3. ASSUME NEW t \in MsgThreads, StartThread(t) \/ Mark(t)
      PROVE  Counts'
  <2>1. UNCHANGED <<messages, num_messages, message, number, taken, added, crowded, answered>>
    BY <1>3 DEF StartThread, Mark
  <2>2. Adding' = Adding
    BY <1>3, AddingAfter DEF Counts
  <2>3. pc' \in [MsgThreads -> Places]
    BY <1>3 DEF StartThread, Mark, Moves, Counts, HistoryTypeOK, Places
  <2>4. \A u \in MsgThreads : pc'[u] = "store" => pc[u] = "store"
    BY <1>3 DEF StartThread, Mark, Moves, Counts, HistoryTypeOK
  <2> QED
    BY <2>1, <2>2, <2>3, <2>4 DEF Counts, HistoryTypeOK, Counted, Loaded
<1>4. ASSUME NEW t \in MsgThreads, Take(t)
      PROVE  Counts'
  <2>1. /\ UNCHANGED <<messages, num_messages, number, added, answered>>
        /\ taken <= MAX_MESSAGES
        /\ taken' = taken + 1
        /\ message' = [message EXCEPT ![t] = taken + 1]
        /\ crowded' = (crowded \/ Adding # {})
    BY <1>4 DEF Take
  <2>2. Counted'
    BY <1>0, <1>4, <2>1, AddingAfter, FS_AddElement DEF Counts, Counted
  <2>3. pc' \in [MsgThreads -> Places] /\ \A u \in MsgThreads : pc'[u] = "store" => pc[u] = "store"
    BY <1>4 DEF Take, Moves, Counts, HistoryTypeOK, Places
  <2>4. HistoryTypeOK'
    <3>1. taken' \in Count /\ message' \in [MsgThreads -> Count]
      BY <1>0, <2>1 DEF Counts, HistoryTypeOK, Count
    <3>2. crowded' \in BOOLEAN
      BY <2>1 DEF Counts, HistoryTypeOK
    <3> QED
      BY <2>1, <2>3, <3>1, <3>2 DEF Counts, HistoryTypeOK
  <2> QED
    BY <2>1, <2>2, <2>3, <2>4 DEF Counts, Loaded
<1>5. ASSUME NEW t \in MsgThreads, CopyText(t) \/ CopyUsername(t) \/ CopyTimestamp(t)
      PROVE  Counts'
  <2>1. UNCHANGED <<num_messages, message, number, taken, added, crowded, answered>>
    BY <1>5 DEF CopyText, CopyUsername, CopyTimestamp, Copied
  <2>2. Adding' = Adding
    BY <1>5, AddingAfter DEF Counts
  <2>3. pc' \in [MsgThreads -> Places] /\ \A u \in MsgThreads : pc'[u] = "store" => pc[u] = "store"
    BY <1>5 DEF CopyText, CopyUsername, CopyTimestamp, Moves, Counts, HistoryTypeOK, Places
  <2>4. messages' \in [Elements -> Element]
    BY <1>5, CopyType DEF Counts
  <2> QED
    BY <2>1, <2>2, <2>3, <2>4 DEF Counts, HistoryTypeOK, Counted, Loaded
<1>6. ASSUME NEW t \in MsgThreads, Load(t)
      PROVE  Counts'
  <2>1. /\ UNCHANGED <<messages, num_messages, message, taken, added, crowded, answered>>
        /\ number' = [number EXCEPT ![t] = num_messages]
        /\ pc' = [pc EXCEPT ![t] = "store"]
    BY <1>6 DEF Load, Moves
  <2>2. Adding' = Adding
    BY <1>6, AddingAfter DEF Counts
  <2>3. HistoryTypeOK'
    BY <2>1 DEF Counts, HistoryTypeOK, Places
  <2>4. Loaded'
    BY <2>1 DEF Counts, HistoryTypeOK, Loaded
  <2> QED
    BY <2>1, <2>2, <2>3, <2>4 DEF Counts, Counted
<1>7. ASSUME NEW t \in MsgThreads, Store(t)
      PROVE  Counts'
  <2>1. /\ UNCHANGED <<messages, message, number, taken, crowded, answered>>
        /\ pc[t] = "store"
        /\ pc' = [pc EXCEPT ![t] = "mark"]
        /\ num_messages' = number[t] + 1
        /\ added' = added + 1
    BY <1>7 DEF Store, Moves
  <2>2. Counted' /\ added + 1 <= taken
    <3>1. /\ IsFiniteSet(Adding')
          /\ Cardinality(Adding') = Cardinality(Adding) - 1
      BY <1>7, AddingAfter, FS_RemoveElement DEF Counts, Counted
    <3>2. Cardinality(Adding') \in Nat
      BY <3>1, FS_CardinalityType
    <3> QED
      BY <1>0, <2>1, <3>1, <3>2 DEF Counts, Counted
  <2>3. number[t] \in Nat /\ number[t] <= added
    BY <1>0, <2>1 DEF Counts, Loaded, HistoryTypeOK, Count
  <2>4. HistoryTypeOK'
    BY <1>0, <2>1, <2>2, <2>3 DEF Counts, HistoryTypeOK, Count, Places
  <2>5. Loaded'
    <3>1. num_messages' <= added'
      BY <1>0, <2>1, <2>3
    <3>2. ASSUME NEW u \in MsgThreads, pc'[u] = "store" PROVE number'[u] <= added'
      <4>1. pc[u] = "store" /\ number[u] \in Nat
        BY <1>0, <2>1, <3>2 DEF Counts, HistoryTypeOK, Count
      <4> QED
        BY <1>0, <2>1, <4>1 DEF Counts, Loaded
    <3> QED
      BY <3>1, <3>2 DEF Loaded
  <2> QED
    BY <2>2, <2>4, <2>5 DEF Counts
<1> QED
  BY <1>1, <1>2, <1>3, <1>4, <1>5, <1>6, <1>7, HistorySteps DEF ThreadStep

LEMMA CountsAlways == Spec => []Counts
BY CountsInit, CountsStep, PTL DEF Spec

\* In any interleaving num_messages is at most what was added to the history:
\* an increment can be lost but never counts twice (chat_ui.c 505).
THEOREM NoMoreThanAddedAlways == Spec => []NoMoreThanAdded
<1>1. Counts => NoMoreThanAdded
  BY DEF Counts, Loaded, NoMoreThanAdded
<1> QED
  BY <1>1, CountsAlways, PTL

-----------------------------------------------------------------------------
(* The history as long as no two threads have added at once.  The thread   *)
(* that adds, if there is one, fills the element behind the last message   *)
(* with the next one.                                                      *)

Fills(t) ==
  /\ message[t] = added + 1
  /\ pc[t] = "store" => number[t] = added
  /\ added \in Elements =>
       /\ pc[t] # "text" =>
            messages[added].text = added + 1 \/ (answered /\ messages[added].text = Response)
       /\ pc[t] \in {"timestamp", "load", "store"} => messages[added].username = added + 1
       /\ pc[t] \in {"load", "store"} => messages[added].timestamp = added + 1

Entry(n) == messages[n - 1] = Whole(n) \/ (answered /\ messages[n - 1] = Spoilt(n))

Alone ==
  /\ \A t, u \in Adding : t = u
  /\ num_messages = added
  /\ \A t \in Adding : Fills(t)
  /\ \A n \in 1..added : n <= MAX_MESSAGES => Entry(n)

Sole == ~crowded => Alone

LEMMA SoleInit == Init => Sole
BY DEF Init, HistoryInit, Sole, Alone, Adding

\* Steps that leave the array as it is: a thread is created, begins or ends.
LEMMA SoleKept ==
  ASSUME Counts, Sole, NEW t \in MsgThreads, StartThread(t) \/ Mark(t) \/ Take(t) \/ Load(t)
  PROVE  Sole'
<1> SUFFICES ASSUME ~crowded' PROVE Alone'
  BY DEF Sole
<1>0. added \in Nat /\ pc \in [MsgThreads -> Places]
  BY DEF Counts, HistoryTypeOK, Count
<1>1. UNCHANGED <<messages, num_messages, added, answered>>
  BY DEF StartThread, Mark, Take, Load
<1>2. ~crowded
  BY DEF StartThread, Mark, Take, Load
<1>3. Alone
  BY <1>2 DEF Sole
<1>4. \A n \in 1..added : n <= MAX_MESSAGES => Entry(n)'
  BY <1>1, <1>3 DEF Alone, Entry, Whole, Spoilt
<1>5. CASE StartThread(t) \/ Mark(t)
  <2>1. Adding' = Adding
    BY <1>5, AddingAfter DEF Counts
  <2>2. \A u \in Adding : pc'[u] = pc[u] /\ message'[u] = message[u] /\ number'[u] = number[u]
    BY <1>0, <1>5 DEF StartThread, Mark, Moves, Adding
  <2> QED
    BY <1>1, <1>3, <1>4, <2>1, <2>2 DEF Alone, Fills
<1>6. CASE Take(t)
  <2>1. Adding = {} /\ Adding' = {t}
    BY <1>6, AddingAfter DEF Take, Counts
  <2>2. taken = added
    BY <1>0, <2>1, FS_EmptySet DEF Counts, Counted
  <2>3. message'[t] = added + 1 /\ pc'[t] = "text"
    BY <1>0, <1>6, <2>2 DEF Take, Moves, Counts, HistoryTypeOK
  <2> QED
    BY <1>1, <1>3, <1>4, <2>1, <2>3 DEF Alone, Fills
<1>7. CASE Load(t)
  <2>1. t \in Adding /\ Adding' = Adding /\ \A u \in Adding : u = t
    BY <1>3, <1>7, AddingAfter DEF Counts, Alone
  <2>2. pc[t] = "load" /\ pc'[t] = "store" /\ number'[t] = added /\ message'[t] = message[t]
    BY <1>0, <1>3, <1>7 DEF Load, Moves, Alone, Counts, HistoryTypeOK
  <2>3. Fills(t)'
    BY <1>1, <1>3, <2>1, <2>2 DEF Alone, Fills
  <2> QED
    BY <1>1, <1>3, <1>4, <2>1, <2>3 DEF Alone
<1> QED
  BY <1>5, <1>6, <1>7

\* A copy goes to the element behind the last message, if there is one.
LEMMA SoleCopied ==
  ASSUME Counts, Sole, NEW t \in MsgThreads,
         CopyText(t) \/ CopyUsername(t) \/ CopyTimestamp(t)
  PROVE  Sole'
<1> SUFFICES ASSUME ~crowded PROVE Alone'
  BY DEF Sole, CopyText, CopyUsername, CopyTimestamp, Copied
<1>0. /\ added \in Nat /\ MAX_MESSAGES \in Nat
      /\ pc \in [MsgThreads -> Places]
      /\ messages \in [Elements -> Element]
  BY HistoryAssumption DEF Counts, HistoryTypeOK, Count
<1>1. UNCHANGED <<num_messages, message, number, taken, added, crowded, answered>>
  BY DEF CopyText, CopyUsername, CopyTimestamp, Copied
<1>2. Alone
  BY DEF Sole
<1>3. t \in Adding /\ Adding' = Adding /\ \A u \in Adding : u = t
  BY <1>2, AddingAfter DEF Counts, Alone
<1>4. Fills(t) /\ num_messages = added
  BY <1>2, <1>3 DEF Alone
<1>5. \A n \in 1..added : n <= MAX_MESSAGES => messages'[n - 1] = messages[n - 1]
  BY <1>0, <1>4 DEF CopyText, CopyUsername, CopyTimestamp, Elements
<1>6. \A n \in 1..added : n <= MAX_MESSAGES => Entry(n)'
  BY <1>1, <1>2, <1>5 DEF Alone, Entry, Whole, Spoilt
<1>7. Fills(t)'
  <2>1. pc[t] \in Places /\ pc'[t] \in Places
    BY <1>0 DEF CopyText, CopyUsername, CopyTimestamp, Moves, Places
  <2>2. CASE added \notin Elements
    <3>1. pc'[t] # "store"
      BY <1>0 DEF CopyText, CopyUsername, CopyTimestamp, Moves
    <3> QED
      BY <1>1, <1>4, <2>2, <3>1 DEF Fills
  <2>3. CASE added \in Elements
    <3>1. CASE CopyText(t)
      <4>1. pc'[t] = "username" /\ messages'[added].text = added + 1
        BY <1>0, <1>4, <2>3, <3>1 DEF CopyText, Moves, Fills, Element
      <4> QED
        BY <1>1, <1>4, <4>1 DEF Fills
    <3>2. CASE CopyUsername(t)
      <4>1. /\ pc[t] = "username" /\ pc'[t] = "timestamp"
            /\ messages'[added].username = added + 1
            /\ messages'[added].text = messages[added].text
        BY <1>0, <1>4, <2>3, <3>2 DEF CopyUsername, Moves, Fills, Element
      <4> QED
        BY <1>1, <1>4, <2>3, <4>1 DEF Fills
    <3>3. CASE CopyTimestamp(t)
      <4>1. /\ pc[t] = "timestamp" /\ pc'[t] = "load"
            /\ messages'[added].timestamp = added + 1
            /\ messages'[added].text = messages[added].text
            /\ messages'[added].username = messages[added].username
        BY <1>0, <1>4, <2>3, <3>3 DEF CopyTimestamp, Moves, Fills, Element
      <4> QED
        BY <1>1, <1>4, <2>3, <4>1 DEF Fills
    <3> QED
      BY <3>1, <3>2, <3>3
  <2> QED
    BY <2>2, <2>3
<1> QED
  BY <1>1, <1>3, <1>4, <1>6, <1>7 DEF Alone

\* The increment adds the element that has been filled.
LEMMA SoleStored ==
  ASSUME Counts, Sole, NEW t \in MsgThreads, Store(t)
  PROVE  Sole'
<1> SUFFICES ASSUME ~crowded PROVE Alone'
  BY DEF Sole, Store
<1>0. /\ added \in Nat /\ MAX_MESSAGES \in Nat
      /\ messages \in [Elements -> Element]
  BY HistoryAssumption DEF Counts, HistoryTypeOK, Count
<1>1. /\ UNCHANGED <<messages, message, number, taken, crowded, answered>>
      /\ pc[t] = "store"
      /\ num_messages' = number[t] + 1
      /\ added' = added + 1
  BY DEF Store, Moves
<1>2. Alone
  BY DEF Sole
<1>3. t \in Adding /\ Adding' = {}
  BY <1>2, AddingAfter DEF Counts, Alone
<1>4. Fills(t)
  BY <1>2, <1>3 DEF Alone
<1>5. num_messages' = added'
  BY <1>1, <1>4 DEF Fills
<1>6. added + 1 <= MAX_MESSAGES => Entry(added + 1)
  <2> SUFFICES ASSUME added + 1 <= MAX_MESSAGES PROVE Entry(added + 1)
    OBVIOUS
  <2>1. added \in Elements
    BY <1>0 DEF Elements
  <2>2. messages[added] \in Element
    BY <1>0, <2>1
  <2>3. /\ messages[added].text = added + 1 \/ (answered /\ messages[added].text = Response)
        /\ messages[added].username = added + 1
        /\ messages[added].timestamp = added + 1
    BY <1>1, <1>4, <2>1 DEF Fills
  <2>4. messages[added] = Whole(added + 1) \/ (answered /\ messages[added] = Spoilt(added + 1))
    BY <2>2, <2>3 DEF Element, Whole, Spoilt
  <2>5. (added + 1) - 1 = added
    BY <1>0
  <2> QED
    BY <2>4, <2>5 DEF Entry
<1>7. \A n \in 1..added' : n <= MAX_MESSAGES => Entry(n)'
  <2> SUFFICES ASSUME NEW n \in 1..added', n <= MAX_MESSAGES PROVE Entry(n)'
    OBVIOUS
  <2>1. n \in 1..added \/ n = added + 1
    BY <1>0, <1>1
  <2>2. Entry(n)
    BY <1>2, <1>6, <2>1 DEF Alone
  <2> QED
    BY <1>1, <2>2 DEF Entry, Whole, Spoilt
<1> QED
  BY <1>3, <1>5, <1>7 DEF Alone

\* A response spoils the text of a message that is being added, and no other.
LEMMA SoleAnswered ==
  ASSUME Counts, Sole, Respond
  PROVE  Sole'
<1> SUFFICES ASSUME ~crowded PROVE Alone'
  BY DEF Sole, Respond
<1>0. /\ added \in Nat /\ MAX_MESSAGES \in Nat
      /\ messages \in [Elements -> Element]
  BY HistoryAssumption DEF Counts, HistoryTypeOK, Count
<1>1. /\ UNCHANGED <<num_messages, pc, message, number, taken, added, crowded>>
      /\ answered => answered'
      /\ Adding # {} => answered'
  BY DEF Respond
<1>2. Alone
  BY DEF Sole
<1>3. Adding' = Adding
  BY <1>1 DEF Adding
<1>4. \A n \in 1..added : n <= MAX_MESSAGES => messages'[n - 1] = messages[n - 1]
  BY <1>0, <1>2 DEF Respond, Elements, Alone
<1>5. \A n \in 1..added : n <= MAX_MESSAGES => Entry(n)'
  BY <1>1, <1>2, <1>4 DEF Alone, Entry, Whole, Spoilt
<1>6. ASSUME NEW t \in Adding PROVE Fills(t)'
  <2>1. Fills(t) /\ answered' /\ num_messages = added
    BY <1>1, <1>2, <1>6 DEF Alone
  <2>2. CASE added \in Elements
    <3>1. /\ messages'[added].text = Response
          /\ messages'[added].username = messages[added].username
          /\ messages'[added].timestamp = messages[added].timestamp
      BY <1>0, <2>1, <2>2 DEF Respond, Element
    <3> QED
      BY <1>1, <2>1, <2>2, <3>1 DEF Fills
  <2>3. CASE added \notin Elements
    BY <1>1, <2>1, <2>3 DEF Fills
  <2> QED
    BY <2>2, <2>3
<1> QED
  BY <1>1, <1>2, <1>3, <1>5, <1>6 DEF Alone

LEMMA SoleStep == Counts /\ Sole /\ [Next]_vars => Sole'
<1> SUFFICES ASSUME Counts, Sole, [Next]_vars PROVE Sole'
  OBVIOUS
<1>1. CASE UNCHANGED historyVars
  BY <1>1 DEF historyVars, Sole, Alone, Adding, Fills, Entry, Whole, Spoilt
<1>2. CASE Respond
  BY <1>2, SoleAnswered
<1>3. ASSUME NEW t \in MsgThreads, StartThread(t) \/ ThreadStep(t) \/ CopyText(t)
      PROVE  Sole'
  BY <1>3, SoleKept, SoleCopied, SoleStored DEF ThreadStep
<1> QED
  BY <1>1, <1>2, <1>3, HistorySteps

LEMMA SoleAlways == Spec => []Sole
BY SoleInit, SoleStep, CountsAlways, PTL DEF Spec

\* If no two threads ever added at once, the history holds every message whole
\* and in order, but for texts a response has overwritten (chat_ui.c 491-521).
THEOREM OneAtATimeAlways == Spec => []OneAtATime
<1>1. Counts /\ Sole => OneAtATime
  <2> SUFFICES ASSUME Counts, Sole, ~crowded
               PROVE  /\ num_messages = added
                      /\ \A n \in DOMAIN History :
                           History[n] = Whole(n) \/ (answered /\ History[n] = Spoilt(n))
    BY DEF OneAtATime
  <2> QED
    BY DEF Sole, Alone, Entry, History
<1> QED
  BY <1>1, CountsAlways, SoleAlways, PTL

-----------------------------------------------------------------------------
(* The main thread's own state.                                            *)

LEMMA ScreenInit == Init => TypeOK
<1> SUFFICES ASSUME Init PROVE TypeOK
  OBVIOUS
<1>1. HistoryTypeOK
  BY CountsInit DEF Counts
<1>2. 0 \in 0..(MAX_MESSAGE_LENGTH - 1)
  BY ScreenAssumption
<1>3. place = "menu" /\ window \in Windows /\ max_row = window
  BY DEF Init
<1>4. ignored = FALSE /\ scroll_offset = 0 /\ input_length = 0 /\ used = 0
  BY DEF Init
<1> QED
  BY <1>1, <1>2, <1>3, <1>4 DEF TypeOK

\* The line and the scrolling keep their types with every key.
LEMMA ScreenStep == Counts' /\ TypeOK /\ [Next]_vars => TypeOK'
<1> SUFFICES ASSUME Counts', TypeOK, [Next]_vars PROVE TypeOK'
  OBVIOUS
<1> USE DEF TypeOK
<1>0. /\ HistoryTypeOK'
      /\ MAX_MESSAGE_LENGTH \in Nat \ {0}
      /\ \A n \in TextLengths : n \in 0..(MAX_MESSAGE_LENGTH - 1)
      /\ Windows \subseteq Nat
  BY ScreenAssumption DEF Counts
<1>1. CASE Resize \/ Login \/ ResizeHandler \/ Enter \/ Logout
  BY <1>0, <1>1 DEF Resize, Login, ResizeHandler, Enter, Logout
<1>8. CASE Refused \/ EnterNothing \/ Clear
  <2>1. /\ UNCHANGED <<window, ignored, max_row, scroll_offset>>
        /\ place' = "loop"
        /\ input_length' = 0 /\ used' = 0
    BY <1>8 DEF Refused, EnterNothing, Clear, Key
  <2>2. 0 \in 0..(MAX_MESSAGE_LENGTH - 1)
    BY <1>0
  <2> QED
    BY <1>0, <2>1, <2>2
<1>2. CASE Backspace
  BY <1>0, <1>2 DEF Backspace, Key, Smaller
<1>3. CASE KeyDown \/ OtherKey
  BY <1>0, <1>3 DEF KeyDown, OtherKey, Key
<1>4. CASE Character
  <2>1. /\ UNCHANGED <<window, ignored, max_row, scroll_offset>>
        /\ place' = "loop"
        /\ input_length' \in 0..(MAX_MESSAGE_LENGTH - 1)
    BY <1>0, <1>4 DEF Character, Key
  <2>2. used' \in 0..(MAX_MESSAGE_LENGTH - 1)
    BY <1>0, <1>4 DEF Character
  <2> QED
    BY <1>0, <2>1, <2>2
<1>5. ASSUME NEW n \in TextLengths, Answer(n) PROVE TypeOK'
  BY <1>0, <1>5 DEF Answer, Overwrites
<1>6. ASSUME NEW t \in MsgThreads, MessageThread(t) PROVE TypeOK'
  BY <1>0, <1>6 DEF MessageThread, screenVars, CopyLine, Overwrites
<1>7. CASE UNCHANGED vars
  BY <1>0, <1>7 DEF vars, screenVars
<1> QED
  BY <1>1, <1>2, <1>3, <1>4, <1>5, <1>6, <1>7, <1>8 DEF Next, MainThread

\* Every variable keeps its type (the whole of ChatScreen and ChatHistory).
THEOREM ScreenTypeCorrect == Spec => []TypeOK
BY ScreenInit, ScreenStep, CountsAlways, PTL DEF Spec

-----------------------------------------------------------------------------
(* The input line.                                                         *)

\* The input line ends where the next character goes, as long as fewer
\* messages than the array has elements were added (chat_ui.c 494, 561-581).
THEOREM LineEndsAlways == Spec => []LineEnds
<1>1. Init => LineEnds
  BY DEF Init, LineEnds
<1>2. ASSUME Counts, TypeOK, LineEnds, [Next]_vars
      PROVE  LineEnds'
  <2>0. /\ added \in Nat /\ num_messages \in Nat /\ MAX_MESSAGES \in Nat
        /\ num_messages <= added
        /\ MAX_MESSAGE_LENGTH \in Nat
        /\ used \in Nat /\ input_length \in Nat
    BY <1>2, HistoryAssumption, ScreenAssumption
       DEF Counts, HistoryTypeOK, Count, Loaded, TypeOK
  <2>1. added' \in Nat /\ added <= added'
    <3>1. CASE UNCHANGED historyVars
      BY <2>0, <3>1 DEF historyVars
    <3>2. CASE Respond
      BY <2>0, <3>2 DEF Respond
    <3>3. ASSUME NEW t \in MsgThreads, StartThread(t) \/ ThreadStep(t) \/ CopyText(t)
          PROVE  added' \in Nat /\ added <= added'
      BY <2>0, <3>3 DEF StartThread, ThreadStep, Take, CopyText, CopyUsername,
                        CopyTimestamp, Copied, Load, Store, Mark
    <3> QED
      BY <1>2, <3>1, <3>2, <3>3, HistorySteps
  <2> SUFFICES ASSUME added' < MAX_MESSAGES PROVE used' = input_length'
    BY DEF LineEnds
  <2>2. used = input_length /\ added < MAX_MESSAGES /\ num_messages # MAX_MESSAGES
    BY <1>2, <2>0, <2>1 DEF LineEnds
  <2>3. CASE MainThread
    BY <2>0, <2>2, <2>3 DEF MainThread, Resize, Login, Refused, ResizeHandler, Enter, EnterNothing,
         Logout, Clear, Backspace, Smaller, KeyDown, Character, OtherKey, Key, Answer, Overwrites
  <2>4. ASSUME NEW t \in MsgThreads, MessageThread(t) PROVE used' = input_length'
    BY <2>2, <2>4 DEF MessageThread, screenVars, CopyLine, Overwrites
  <2>5. CASE UNCHANGED vars
    BY <2>2, <2>5 DEF vars, screenVars
  <2> QED
    BY <1>2, <2>3, <2>4, <2>5 DEF Next
<1> QED
  BY <1>1, <1>2, CountsAlways, ScreenTypeCorrect, PTL DEF Spec

-----------------------------------------------------------------------------
(* Scrolling.                                                              *)

\* Whoever is at a key has just been told the height of the window, which no
\* longer changes once run has been called.
Measured ==
  /\ place # "menu" => ignored
  /\ place = "key" => max_row = window
  /\ scroll_offset > 0 => ignored /\ max_row = window

LEMMA MeasuredInit == Init => Measured
BY DEF Init, Measured

LEMMA MeasuredStep == TypeOK /\ Measured /\ [Next]_vars => Measured'
<1> SUFFICES ASSUME TypeOK, Measured, [Next]_vars PROVE Measured'
  OBVIOUS
<1> USE DEF Measured
<1>1. CASE MainThread
  BY <1>1 DEF MainThread, Resize, Login, Refused, ResizeHandler, Enter, EnterNothing,
       Logout, Clear, Backspace, KeyDown, Character, OtherKey, Key, Answer
<1>2. CASE \E t \in MsgThreads : MessageThread(t)
  BY <1>2 DEF MessageThread, screenVars, CopyLine
<1>3. CASE UNCHANGED vars
  BY <1>3 DEF vars, screenVars
<1> QED
  BY <1>1, <1>2, <1>3 DEF Next

\* The history does not get shorter unless two threads have added at once.
LEMMA HistoryGrows ==
  ASSUME Counts, Sole, [Next]_vars, ~crowded'
  PROVE  ~crowded /\ num_messages' \in Nat /\ num_messages <= num_messages'
<1>0. num_messages \in Nat /\ added \in Nat /\ crowded \in BOOLEAN
  BY DEF Counts, HistoryTypeOK, Count
<1>1. CASE UNCHANGED historyVars
  BY <1>0, <1>1 DEF historyVars
<1>2. CASE Respond
  BY <1>0, <1>2 DEF Respond
<1>3. ASSUME NEW t \in MsgThreads, StartThread(t) \/ ThreadStep(t) \/ CopyText(t), ~Store(t)
      PROVE  ~crowded /\ num_messages' \in Nat /\ num_messages <= num_messages'
  <2>1. ~crowded
    BY <1>3, Zenon DEF StartThread, ThreadStep, Take, CopyText, CopyUsername, CopyTimestamp,
                       Copied, Load, Mark
  <2>2. num_messages' = num_messages
    BY <1>3 DEF StartThread, ThreadStep, Take, CopyText, CopyUsername, CopyTimestamp,
                Copied, Load, Mark
  <2> QED
    BY <1>0, <2>1, <2>2
<1>4. ASSUME NEW t \in MsgThreads, Store(t)
      PROVE  ~crowded /\ num_messages' \in Nat /\ num_messages <= num_messages'
  <2>1. ~crowded /\ pc[t] = "store" /\ num_messages' = number[t] + 1
    BY <1>4 DEF Store, Moves
  <2>2. Alone /\ t \in Adding
    BY <1>4, <2>1, AddingAfter DEF Sole, Counts
  <2>3. number[t] = added /\ num_messages = added
    BY <2>1, <2>2 DEF Alone, Fills
  <2> QED
    BY <1>0, <2>1, <2>3
<1> QED
  BY <1>1, <1>2, <1>3, <1>4, HistorySteps

\* Scrolling leaves no empty row below the newest message, unless two threads
\* have added at once (chat_ui.c 570-574, 505).
THEOREM NoEmptyRowsAlways == Spec => []NoEmptyRows
<1>1. Init => NoEmptyRows
  BY DEF Init, NoEmptyRows
<1>2. ASSUME Counts, Sole, TypeOK, Measured, NoEmptyRows, [Next]_vars
      PROVE  NoEmptyRows'
  <2> SUFFICES ASSUME ~crowded', scroll_offset' > 0
               PROVE  scroll_offset' + RowCount' <= num_messages'
    BY DEF NoEmptyRows
  <2>1. ~crowded /\ num_messages' \in Nat /\ num_messages <= num_messages'
    BY <1>2, HistoryGrows
  <2>2. /\ num_messages \in Nat /\ scroll_offset \in Nat
        /\ max_row \in Int /\ window \in Int
    BY <1>2, ScreenAssumption DEF TypeOK, HistoryTypeOK, Count
  <2>3. CASE KeyDown
    BY <2>1, <2>2, <2>3 DEF KeyDown, Key, RowCount
  <2>4. CASE ~KeyDown
    <3>1. UNCHANGED scroll_offset
      BY <1>2, <2>4 DEF Next, MainThread, Resize, Login, Refused, ResizeHandler, Enter,
           EnterNothing, Logout, Clear, Backspace, Character, OtherKey, Key, Answer,
           MessageThread, CopyLine, vars, screenVars
    <3>2. max_row' = max_row \/ max_row' = window
      BY <1>2, <2>4 DEF Next, MainThread, Resize, Login, Refused, ResizeHandler, Enter,
           EnterNothing, Logout, Clear, Backspace, Character, OtherKey, Key, Answer,
           MessageThread, CopyLine, vars, screenVars
    <3>3. max_row' = max_row
      BY <1>2, <3>1, <3>2 DEF Measured
    <3> QED
      BY <1>2, <2>1, <2>2, <3>1, <3>3 DEF NoEmptyRows, RowCount
  <2> QED
    BY <2>3, <2>4
<1> QED
  BY <1>1, <1>2, MeasuredInit, MeasuredStep, CountsAlways, SoleAlways, ScreenTypeCorrect, PTL
     DEF Spec
=============================================================================
