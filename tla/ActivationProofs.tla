-------------------------- MODULE ActivationProofs --------------------------
(***************************************************************************)
(* An activation shared by any number of threads keeps what ActivationSpec  *)
(* promises, whatever the providers deliver and in whatever order calls of  *)
(* FindVariable interleave: its table is never read and written at once,    *)
(* and a thread waits for a lock it holds only in a lookup its provider     *)
(* makes of a provided variable.  Nothing is assumed of what providers look *)
(* up.                                                                      *)
(*                                                                         *)
(* The invariant says what a call in progress knows of the entry it is      *)
(* about: an entry that is read without the lock has no provider, and one   *)
(* that is being provided has no value, because only the holder of the lock *)
(* gets there.                                                              *)
(***************************************************************************)
EXTENDS Activation, SequenceTheorems, TLAPS

PastLock == {"locked", "provider", "store"}

\* Only a name that may have a provider has one, and an entry without has a
\* value.
EntriesOK == \A n \in Names :
  /\ values[n].provider => values[n].bound /\ n \in Lazies
  /\ values[n].bound /\ ~values[n].provider => values[n].value # NoValue

\* What a call f made by thread t knows.
FrameOK(t, f) ==
  /\ f.at = "read" => values[f.name].bound /\ ~values[f.name].provider
  /\ f.at \in {"wait"} \union PastLock => values[f.name].provider
  /\ f.at \in {"provider", "store"} => values[f.name].value = NoValue
  /\ f.at \in PastLock => mutex = t

FramesOK == \A t \in Threads : \A i \in DOMAIN frames[t] : FrameOK(t, frames[t][i])

\* A call made by a provider, which holds the lock, never gets past the lock,
\* so it reaches no provider and makes no call itself.
Nested(s) ==
  /\ s[1].at = "provider" /\ s[2].at \notin PastLock
  /\ s[2].name \in Needs[s[1].name]

NestedOK == \A t \in Threads :
  /\ Len(frames[t]) <= 2
  /\ Len(frames[t]) = 2 => Nested(frames[t])

\* The lock is held for the outermost call of a thread.
HolderOK == mutex # NoOne => frames[mutex] # <<>> /\ frames[mutex][1].at \in PastLock

IInv == TypeOK /\ EntriesOK /\ FramesOK /\ NestedOK /\ HolderOK

-----------------------------------------------------------------------------
\* A thread's calls without the innermost.
LEMMA FrontOfCalls ==
  ASSUME NEW s \in Seq(Frame), s # <<>>
  PROVE  /\ Len(s) \in Nat \ {0} /\ s[Len(s)] \in Frame
         /\ Front(s) \in Seq(Frame) /\ Len(Front(s)) = Len(s) - 1
         /\ \A i \in 1 .. Len(s) - 1 : Front(s)[i] = s[i]
<1> DEFINE n == Len(s) - 1
<1>1. Len(s) \in Nat \ {0} /\ s[Len(s)] \in Frame
  OBVIOUS
<1>2. n \in Nat /\ \A i \in 1 .. n : s[i] \in Frame
  BY <1>1
<1> HIDE DEF n
<1>3. /\ SubSeq(s, 1, n) \in Seq(Frame)
      /\ Len(SubSeq(s, 1, n)) = n
      /\ \A i \in 1 .. n : SubSeq(s, 1, n)[i] = s[i]
  <2>1. /\ SubSeq(s, 1, n) \in Seq(Frame)
        /\ Len(SubSeq(s, 1, n)) = IF 1 <= n THEN n - 1 + 1 ELSE 0
        /\ \A i \in 1 .. n - 1 + 1 : SubSeq(s, 1, n)[i] = s[1 + i - 1]
    BY <1>2, SubSeqProperties
  <2>2. n - 1 + 1 = n /\ \A i \in 1 .. n : 1 + i - 1 = i
    BY <1>2
  <2>3. Len(SubSeq(s, 1, n)) = n
    BY <2>1, <1>2
  <2>4. ASSUME NEW i \in 1 .. n PROVE SubSeq(s, 1, n)[i] = s[i]
    BY <2>1, <2>2
  <2> QED BY <2>1, <2>3, <2>4
<1>4. Front(s) = SubSeq(s, 1, n)
  BY DEF Front, n
<1> QED BY <1>1, <1>3, <1>4 DEF n

\* A thread's calls s after the innermost has gone on to a place, and after it
\* has gone on as f and made the call g.
Gone(s, place)  == Append(Front(s), [Last(s) EXCEPT !.at = place])
Called(s, f, g) == Front(s) \o <<f, g>>

\* Only the place of the innermost call changes.
LEMMA GoneFrames ==
  ASSUME NEW s \in Seq(Frame), s # <<>>, NEW place \in Places
  PROVE  /\ Gone(s, place) \in Seq(Frame) /\ Len(Gone(s, place)) = Len(s)
         /\ \A i \in DOMAIN s : i # Len(s) => Gone(s, place)[i] = s[i]
         /\ Gone(s, place)[Len(s)] = [s[Len(s)] EXCEPT !.at = place]
<1> DEFINE g == [s[Len(s)] EXCEPT !.at = place]
<1> DEFINE r == Front(s)
<1>1. g \in Frame
  BY FrontOfCalls DEF Frame
<1>2. /\ Len(s) \in Nat \ {0} /\ r \in Seq(Frame) /\ Len(r) + 1 = Len(s)
      /\ DOMAIN s = 1 .. Len(s)
      /\ \A i \in DOMAIN s : i # Len(s) => i \in 1 .. Len(r)
      /\ \A i \in 1 .. Len(r) : r[i] = s[i]
  BY FrontOfCalls
<1>3. Gone(s, place) = Append(r, g)
  BY DEF Gone, Last
<1> HIDE DEF g, r
<1>4. /\ Append(r, g) \in Seq(Frame) /\ Len(Append(r, g)) = Len(r) + 1
      /\ \A i \in 1 .. Len(r) : Append(r, g)[i] = r[i]
      /\ Append(r, g)[Len(r) + 1] = g
  BY <1>1, <1>2, AppendProperties
<1> QED BY <1>2, <1>3, <1>4 DEF g

\* After its innermost call has returned.
LEMMA PopFrames ==
  ASSUME NEW s \in Seq(Frame), s # <<>>
  PROVE  /\ Front(s) \in Seq(Frame) /\ Len(Front(s)) = Len(s) - 1
         /\ \A i \in DOMAIN Front(s) : i \in DOMAIN s /\ Front(s)[i] = s[i]
BY FrontOfCalls

\* A thread has made no other call when its provider makes one.
LEMMA CalledFrames ==
  ASSUME NEW s \in Seq(Frame), Len(s) = 1, NEW f \in Frame, NEW g \in Frame
  PROVE  Called(s, f, g) = <<f, g>>
<1>1. s # <<>>
  OBVIOUS
<1>2. Front(s) \in Seq(Frame) /\ Len(Front(s)) = 0
  BY <1>1, FrontOfCalls
<1>3. Front(s) = <<>>
  BY <1>2
<1>4. <<f, g>> \in Seq(Frame)
  OBVIOUS
<1> QED BY <1>3, <1>4, ConcatEmptySeq, Zenon DEF Called

-----------------------------------------------------------------------------
\* Only thread t's calls change, to s.
Changes(t, s) ==
  /\ frames'[t] = s /\ s \in Seq(Frame)
  /\ \A u \in Threads : u # t => frames'[u] = frames[u]
  /\ frames' \in [Threads -> Seq(Frame)]

\* What a step of a thread's innermost call to another place changes.
LEMMA GotoChanges ==
  ASSUME TypeOK, NEW t \in Threads, frames[t] # <<>>, NEW place \in Places, Goto(t, place)
  PROVE  /\ Changes(t, frames'[t])
         /\ Len(frames'[t]) = Len(frames[t])
         /\ \A i \in DOMAIN frames[t] : i # Len(frames[t]) => frames'[t][i] = frames[t][i]
         /\ frames'[t][Len(frames[t])] = [Top(t) EXCEPT !.at = place]
<1>1. frames[t] \in Seq(Frame) /\ frames'[t] = Gone(frames[t], place)
  BY DEF TypeOK, Goto, Top, Gone
<1>2. /\ Gone(frames[t], place) \in Seq(Frame) /\ Len(Gone(frames[t], place)) = Len(frames[t])
      /\ \A i \in DOMAIN frames[t] : i # Len(frames[t]) => Gone(frames[t], place)[i] = frames[t][i]
      /\ Gone(frames[t], place)[Len(frames[t])] = [frames[t][Len(frames[t])] EXCEPT !.at = place]
  BY <1>1, GoneFrames
<1>3. /\ frames' \in [Threads -> Seq(Frame)]
      /\ \A u \in Threads : u # t => frames'[u] = frames[u]
  <2>1. Append(Front(frames[t]), [Top(t) EXCEPT !.at = place]) \in Seq(Frame)
    BY <1>1, <1>2 DEF Gone, Top
  <2> QED BY <2>1 DEF TypeOK, Goto
<1> QED BY <1>1, <1>2, <1>3 DEF Changes, Top, Last

\* What the return of a thread's innermost call changes.
LEMMA ReturnChanges ==
  ASSUME TypeOK, NEW t \in Threads, frames[t] # <<>>, NEW r, Return(t, r)
  PROVE  /\ Changes(t, frames'[t])
         /\ Len(frames'[t]) = Len(frames[t]) - 1
         /\ \A i \in DOMAIN frames'[t] : i \in DOMAIN frames[t] /\ frames'[t][i] = frames[t][i]
<1>1. frames[t] \in Seq(Frame) /\ frames'[t] = Front(frames[t])
  BY DEF TypeOK, Return
<1>2. /\ frames'[t] \in Seq(Frame) /\ Len(frames'[t]) = Len(frames[t]) - 1
      /\ \A i \in DOMAIN frames'[t] : i \in DOMAIN frames[t] /\ frames'[t][i] = frames[t][i]
  BY <1>1, PopFrames
<1> QED BY <1>1, <1>2 DEF Changes, TypeOK, Return
-----------------------------------------------------------------------------
\* What is known of the call a thread is in: it is the only one of the thread
\* when it is past the lock, because a call inside a provider never gets there.
LEMMA TopCall ==
  ASSUME ActivationAssumption, IInv, NEW t \in Threads, frames[t] # <<>>
  PROVE  /\ Len(frames[t]) \in 1 .. 2 /\ DOMAIN frames[t] = 1 .. Len(frames[t])
         /\ Top(t) = frames[t][Len(frames[t])] /\ Top(t) \in Frame /\ FrameOK(t, Top(t))
         /\ Top(t).at \in PastLock => Len(frames[t]) = 1
         /\ mutex = t => frames[t][1].at \in PastLock
         /\ Len(frames[t]) = 2 => mutex = t
<1>1. frames[t] \in Seq(Frame) /\ Len(frames[t]) <= 2
  BY DEF IInv, TypeOK, NestedOK
<1>2. Len(frames[t]) \in 1 .. 2 /\ DOMAIN frames[t] = 1 .. Len(frames[t])
  <2>1. Len(frames[t]) \in Nat \ {0}
    BY <1>1, FrontOfCalls
  <2>2. DOMAIN frames[t] = 1 .. Len(frames[t])
    BY <1>1
  <2>3. \A k \in Nat \ {0} : k <= 2 => k \in 1 .. 2
    OBVIOUS
  <2> QED BY <1>1, <2>1, <2>2, <2>3, Zenon
<1>3. Top(t) = frames[t][Len(frames[t])]
  BY DEF Top, Last
<1>4. Top(t) \in Frame
  BY <1>1, <1>3, FrontOfCalls
<1>5. FrameOK(t, Top(t))
  BY <1>2, <1>3 DEF IInv, FramesOK
<1>6. ASSUME Top(t).at \in PastLock, Len(frames[t]) = 2 PROVE FALSE
  BY <1>3, <1>6 DEF IInv, NestedOK, Nested
<1>7. mutex = t => frames[t][1].at \in PastLock
  BY DEF IInv, HolderOK, ActivationAssumption
<1>8. Len(frames[t]) = 2 => mutex = t
  <2> SUFFICES ASSUME Len(frames[t]) = 2 PROVE mutex = t
    OBVIOUS
  <2>1. frames[t][1].at = "provider" /\ 1 \in DOMAIN frames[t]
    BY <1>2 DEF IInv, NestedOK, Nested
  <2> QED BY <2>1 DEF IInv, FramesOK, FrameOK, PastLock
<1> QED BY <1>2, <1>3, <1>4, <1>5, <1>6, <1>7, <1>8

\* A call goes on, and knows at its new place what it should.
LEMMA GotoKeeps ==
  ASSUME ActivationAssumption, IInv, NEW t \in Threads, frames[t] # <<>>,
         NEW place \in Places, Goto(t, place), UNCHANGED <<values, mutex>>,
         FrameOK(t, [Top(t) EXCEPT !.at = place]),
         mutex = t /\ Len(frames[t]) = 1 => place \in PastLock,
         Len(frames[t]) = 2 => place \notin PastLock
  PROVE  FramesOK' /\ NestedOK' /\ HolderOK' /\ frames' \in [Threads -> Seq(Frame)]
<1>1. TypeOK
  BY DEF IInv
<1>2. /\ Len(frames[t]) \in 1 .. 2 /\ DOMAIN frames[t] = 1 .. Len(frames[t])
      /\ Top(t) = frames[t][Len(frames[t])] /\ Top(t) \in Frame
      /\ mutex = t => frames[t][1].at \in PastLock
  BY TopCall
<1>3. /\ frames'[t] \in Seq(Frame)
      /\ \A u \in Threads : u # t => frames'[u] = frames[u]
      /\ frames' \in [Threads -> Seq(Frame)]
      /\ Len(frames'[t]) = Len(frames[t])
      /\ \A i \in DOMAIN frames[t] : i # Len(frames[t]) => frames'[t][i] = frames[t][i]
      /\ frames'[t][Len(frames[t])] = [Top(t) EXCEPT !.at = place]
  BY <1>1, GotoChanges DEF Changes
<1>4. DOMAIN frames'[t] = DOMAIN frames[t]
  BY <1>2, <1>3
<1>5. ASSUME NEW u \in Threads, NEW i \in DOMAIN frames'[u]
      PROVE  FrameOK(u, frames[u][i])'
  <2>1. CASE u # t
    <3>1. FrameOK(u, frames[u][i]) /\ frames'[u][i] = frames[u][i]
      BY <1>3, <2>1 DEF IInv, FramesOK
    <3> QED BY <3>1 DEF FrameOK
  <2>2. CASE u = t /\ i # Len(frames[t])
    <3>1. FrameOK(u, frames[u][i]) /\ frames'[u][i] = frames[u][i]
      BY <1>3, <1>4, <2>2 DEF IInv, FramesOK
    <3> QED BY <3>1 DEF FrameOK
  <2>3. CASE u = t /\ i = Len(frames[t])
    BY <1>3, <2>3 DEF FrameOK
  <2> QED BY <2>1, <2>2, <2>3
<1>6. FramesOK'
  BY <1>5 DEF FramesOK
<1>7. NestedOK'
  <2> SUFFICES ASSUME NEW u \in Threads
               PROVE  /\ Len(frames'[u]) <= 2
                      /\ Len(frames'[u]) = 2 => Nested(frames'[u])
    BY DEF NestedOK
  <2>1. CASE u # t
    BY <1>3, <2>1 DEF IInv, NestedOK
  <2>2. CASE u = t /\ Len(frames[t]) = 2
    <3>1. frames'[t][1] = frames[t][1] /\ frames'[t][2] = [Top(t) EXCEPT !.at = place]
      BY <1>2, <1>3, <2>2
    <3>2. frames'[t][2].name = frames[t][2].name /\ frames'[t][2].at = place
      BY <1>2, <2>2, <3>1 DEF Frame
    <3> QED BY <1>3, <2>2, <3>1, <3>2 DEF IInv, NestedOK, Nested
  <2>3. CASE u = t /\ Len(frames[t]) = 1
    <3>1. Len(frames'[t]) = 1
      BY <1>3, <2>3
    <3> QED BY <2>3, <3>1
  <2> QED BY <1>2, <2>1, <2>2, <2>3
<1>8. HolderOK'
  <2>1. CASE mutex = t
    <3>1. frames'[t] # <<>>
      BY <1>2, <1>3
    <3>2. frames'[t][1].at \in PastLock
      <4>1. CASE Len(frames[t]) = 1
        <5>1. frames'[t][1] = [Top(t) EXCEPT !.at = place] /\ place \in PastLock
          BY <1>3, <2>1, <4>1
        <5> QED BY <1>2, <5>1 DEF Frame
      <4>2. CASE Len(frames[t]) = 2
        <5>1. 1 \in DOMAIN frames[t] /\ 1 # Len(frames[t])
          BY <1>2, <4>2
        <5> QED BY <1>2, <1>3, <2>1, <5>1
      <4> QED BY <1>2, <4>1, <4>2
    <3> QED BY <2>1, <3>1, <3>2 DEF HolderOK
  <2>2. CASE mutex # t
    BY <1>3, <2>2 DEF HolderOK, IInv, TypeOK
  <2> QED BY <2>1, <2>2
<1> QED BY <1>3, <1>6, <1>7, <1>8

\* A call that is not about the lock returns.
LEMMA ReturnKeeps ==
  ASSUME ActivationAssumption, IInv, NEW t \in Threads, frames[t] # <<>>, NEW r,
         Return(t, r), UNCHANGED <<values, mutex>>, Top(t).at \notin PastLock
  PROVE  FramesOK' /\ NestedOK' /\ HolderOK' /\ frames' \in [Threads -> Seq(Frame)]
<1>1. TypeOK
  BY DEF IInv
<1>2. /\ Len(frames[t]) \in 1 .. 2 /\ DOMAIN frames[t] = 1 .. Len(frames[t])
      /\ Top(t) = frames[t][Len(frames[t])]
      /\ mutex = t => frames[t][1].at \in PastLock
  BY TopCall
<1>3. /\ frames'[t] \in Seq(Frame)
      /\ \A u \in Threads : u # t => frames'[u] = frames[u]
      /\ frames' \in [Threads -> Seq(Frame)]
      /\ Len(frames'[t]) = Len(frames[t]) - 1
      /\ \A i \in DOMAIN frames'[t] : i \in DOMAIN frames[t] /\ frames'[t][i] = frames[t][i]
  BY <1>1, ReturnChanges DEF Changes
<1>4. FramesOK'
  <2> SUFFICES ASSUME NEW u \in Threads, NEW i \in DOMAIN frames'[u]
               PROVE  FrameOK(u, frames[u][i])'
    BY DEF FramesOK
  <2>1. FrameOK(u, frames[u][i]) /\ frames'[u][i] = frames[u][i]
    BY <1>3 DEF IInv, FramesOK
  <2> QED BY <2>1 DEF FrameOK
<1>5. NestedOK'
  BY <1>2, <1>3 DEF IInv, NestedOK
<1>6. HolderOK'
  <2>1. CASE mutex = t
    <3>1. Len(frames[t]) = 2
      BY <1>2, <2>1
    <3>2. Len(frames'[t]) = 1 /\ frames'[t] \in Seq(Frame)
      BY <1>3, <3>1
    <3>3. 1 \in DOMAIN frames'[t] /\ frames'[t] # <<>>
      BY <3>2
    <3> QED BY <1>2, <1>3, <2>1, <3>3 DEF HolderOK
  <2>2. CASE mutex # t
    BY <1>3, <2>2 DEF HolderOK, IInv, TypeOK
  <2> QED BY <2>1, <2>2
<1> QED BY <1>3, <1>4, <1>5, <1>6

\* The holder of the lock returns and releases it: no other call is past the
\* lock, and no call in progress reads the value that was stored, if one was.
LEMMA ReleaseKeeps ==
  ASSUME ActivationAssumption, IInv, NEW t \in Threads, frames[t] # <<>>, NEW r,
         Return(t, r), Top(t).at \in PastLock, mutex' = NoOne,
         \A n \in Names : /\ values'[n].bound = values[n].bound
                          /\ values'[n].provider = values[n].provider
  PROVE  FramesOK' /\ NestedOK' /\ HolderOK' /\ frames' \in [Threads -> Seq(Frame)]
<1>1. TypeOK
  BY DEF IInv
<1>2. Len(frames[t]) = 1 /\ mutex = t /\ NoOne \notin Threads
  BY TopCall DEF FrameOK, ActivationAssumption
<1>3. /\ frames'[t] \in Seq(Frame)
      /\ \A u \in Threads : u # t => frames'[u] = frames[u]
      /\ frames' \in [Threads -> Seq(Frame)]
      /\ Len(frames'[t]) = Len(frames[t]) - 1
  BY <1>1, ReturnChanges DEF Changes
<1>4. FramesOK'
  <2> SUFFICES ASSUME NEW u \in Threads, NEW i \in DOMAIN frames'[u]
               PROVE  FrameOK(u, frames[u][i])'
    BY DEF FramesOK
  <2>1. u # t
    <3>1. Len(frames'[t]) = 0
      BY <1>2, <1>3
    <3> QED BY <1>3, <3>1
  <2>2. FrameOK(u, frames[u][i]) /\ frames'[u][i] = frames[u][i]
    BY <1>3, <2>1 DEF IInv, FramesOK
  <2>3. frames[u][i] \in Frame
    BY <1>3, <2>1 DEF IInv, TypeOK
  <2>4. frames[u][i].at \notin PastLock /\ frames[u][i].name \in Names
    BY <1>2, <2>1, <2>2, <2>3 DEF FrameOK, Frame
  <2> QED BY <1>2, <2>2, <2>4 DEF FrameOK, PastLock
<1>5. NestedOK'
  <2> SUFFICES ASSUME NEW u \in Threads
               PROVE  /\ Len(frames'[u]) <= 2
                      /\ Len(frames'[u]) = 2 => Nested(frames'[u])
    BY DEF NestedOK
  <2>1. CASE u = t
    <3>1. Len(frames'[t]) = 0
      BY <1>2, <1>3
    <3> QED BY <2>1, <3>1
  <2>2. CASE u # t
    BY <1>3, <2>2 DEF IInv, NestedOK
  <2> QED BY <2>1, <2>2
<1>6. HolderOK'
  BY DEF HolderOK
<1> QED BY <1>3, <1>4, <1>5, <1>6

-----------------------------------------------------------------------------
Answers == [status : {"none"}] \union [name : Names, status : {"not_found", "error"}]
                               \union [name : Names, status : {"found"}, value : Vals]

\* What a call may return is one of the answers.
LEMMA ReturnAnswers ==
  ASSUME TypeOK, NEW t \in Threads, NEW r \in Answers, Return(t, r)
  PROVE  answer' \in [Threads -> Answers]
BY DEF TypeOK, Return, Answers

\* The answers about a name.
LEMMA AnswersOf ==
  ASSUME NEW n \in Names
  PROVE  /\ SPEC!NotFound(n) \in Answers /\ SPEC!Failed(n) \in Answers
         /\ \A v \in Vals : SPEC!Found(n, v) \in Answers
BY DEF Answers, SPEC!NotFound, SPEC!Failed, SPEC!Found

\* Binding a name, while no call is in progress, keeps the invariant.
LEMMA AssignKeeps ==
  ASSUME ActivationAssumption, IInv, NEW n \in Names, NEW entry \in Entry, Assign(n, entry),
         entry.provider => entry.bound /\ n \in Lazies,
         entry.bound /\ ~entry.provider => entry.value # NoValue
  PROVE  IInv'
<1>1. TypeOK'
  BY DEF IInv, TypeOK, Assign, ActivationAssumption
<1>2. EntriesOK'
  BY DEF IInv, EntriesOK, TypeOK, Assign
<1>3. \A t \in Threads : frames'[t] = <<>>
  BY DEF Assign, Quiescent
<1>4. FramesOK' /\ NestedOK'
  BY <1>3 DEF FramesOK, NestedOK
<1>5. HolderOK'
  BY DEF IInv, HolderOK, TypeOK, Assign, Quiescent
<1> QED BY <1>1, <1>2, <1>4, <1>5 DEF IInv

\* So does a new lookup, which knows nothing of its entry yet;
LEMMA FindVariableKeeps ==
  ASSUME ActivationAssumption, IInv, NEW t \in Threads, FindVariable(t)
  PROVE  IInv'
<1>1. PICK n \in Names : frames' = [frames EXCEPT ![t] = <<At(n, "look")>>]
  BY DEF FindVariable
<1>2. At(n, "look") \in Frame
  BY DEF At, Frame, Places
<1>3. <<At(n, "look")>> \in Seq(Frame) /\ Len(<<At(n, "look")>>) = 1
      /\ <<At(n, "look")>>[1] = At(n, "look")
  BY <1>2
<1>4. /\ frames' \in [Threads -> Seq(Frame)] /\ frames'[t] = <<At(n, "look")>>
      /\ \A u \in Threads : u # t => frames'[u] = frames[u]
  BY <1>1, <1>3 DEF IInv, TypeOK
<1>5. UNCHANGED <<values, mutex>>
  BY DEF FindVariable
<1>6. TypeOK'
  BY <1>4, <1>5 DEF IInv, TypeOK, FindVariable, ActivationAssumption
<1>7. EntriesOK'
  BY <1>5 DEF IInv, EntriesOK
<1>8. FramesOK'
  <2> SUFFICES ASSUME NEW u \in Threads, NEW i \in DOMAIN frames'[u]
               PROVE  FrameOK(u, frames[u][i])'
    BY DEF FramesOK
  <2>1. CASE u = t
    <3>1. i = 1
      BY <1>4, <2>1
    <3>2. frames'[u][i].at = "look"
      BY <1>4, <2>1, <3>1 DEF At
    <3> QED BY <3>2 DEF FrameOK, PastLock
  <2>2. CASE u # t
    <3>1. FrameOK(u, frames[u][i]) /\ frames'[u][i] = frames[u][i]
      BY <1>4, <2>2 DEF IInv, FramesOK
    <3> QED BY <1>5, <3>1 DEF FrameOK
  <2> QED BY <2>1, <2>2
<1>9. NestedOK'
  <2>1. Len(frames'[t]) = 1
    BY <1>3, <1>4
  <2>2. ~(Len(frames'[t]) = 2) /\ Len(frames'[t]) <= 2
    BY <2>1
  <2> QED BY <1>4, <2>2, Zenon DEF IInv, NestedOK
<1>10. HolderOK'
  <2>1. mutex # t
    BY DEF IInv, HolderOK, FindVariable, ActivationAssumption
  <2> QED BY <1>4, <1>5, <2>1 DEF IInv, HolderOK, TypeOK
<1> QED BY <1>6, <1>7, <1>8, <1>9, <1>10 DEF IInv

\* the unlocked look at the entry: it has a provider, and the call waits for
\* the lock, or has none, and the call reads the value;
LEMMA LookAtEntryKeeps ==
  ASSUME ActivationAssumption, IInv, NEW t \in Threads, LookAtEntry(t)
  PROVE  IInv'
<1> DEFINE n == Top(t).name
<1>1. /\ frames[t] # <<>> /\ Top(t).at = "look"
      /\ UNCHANGED <<values, mutex, assigns, lookups>>
  BY DEF LookAtEntry
<1>2. /\ Top(t) \in Frame /\ n \in Names /\ values[n] \in Entry
      /\ mutex = t => frames[t][1].at \in PastLock
      /\ Len(frames[t]) = 1 => Top(t) = frames[t][1]
  BY <1>1, TopCall DEF Frame, IInv, TypeOK
<1>3. mutex = t => Len(frames[t]) # 1
  BY <1>1, <1>2 DEF PastLock
<1>4. EntriesOK'
  BY <1>1 DEF IInv, EntriesOK
<1>5. CASE values[n].bound /\ Goto(t, FoundAt(values[n])) /\ UNCHANGED answer
  <2> DEFINE f == [Top(t) EXCEPT !.at = FoundAt(values[n])]
  <2>1. FoundAt(values[n]) \in Places
    BY DEF FoundAt, Places
  <2>2. f.at = FoundAt(values[n]) /\ f.name = n
    BY <1>2 DEF Frame
  <2>3. FoundAt(values[n]) \notin PastLock
    BY DEF FoundAt, PastLock
  <2>5. FrameOK(t, f)
    BY <1>5, <2>2, <2>3 DEF FrameOK, FoundAt
  <2>6. FramesOK' /\ NestedOK' /\ HolderOK' /\ frames' \in [Threads -> Seq(Frame)]
    BY <1>1, <1>3, <1>5, <2>1, <2>3, <2>5, GotoKeeps
  <2>7. TypeOK'
    BY <1>1, <1>5, <2>6 DEF IInv, TypeOK
  <2> QED BY <1>4, <2>6, <2>7 DEF IInv
<1>6. CASE Return(t, SPEC!NotFound(n))
  <2>1. FramesOK' /\ NestedOK' /\ HolderOK' /\ frames' \in [Threads -> Seq(Frame)]
    BY <1>1, <1>6, ReturnKeeps DEF PastLock
  <2>2. answer' \in [Threads -> Answers]
    BY <1>2, <1>6, ReturnAnswers, AnswersOf DEF IInv
  <2>3. TypeOK'
    BY <1>1, <2>1, <2>2 DEF IInv, TypeOK, Answers
  <2> QED BY <1>4, <2>1, <2>3 DEF IInv
<1> QED BY <1>5, <1>6 DEF LookAtEntry

\* the unlocked read of the value;
LEMMA ReadValueKeeps ==
  ASSUME ActivationAssumption, IInv, NEW t \in Threads, ReadValue(t)
  PROVE  IInv'
<1> DEFINE n == Top(t).name
<1> DEFINE r == IF values[n].value # NoValue THEN SPEC!Found(n, values[n].value)
                                             ELSE SPEC!NotFound(n)
<1>1. /\ frames[t] # <<>> /\ Top(t).at = "read" /\ Return(t, r)
      /\ UNCHANGED <<values, mutex, assigns, lookups>>
  BY DEF ReadValue
<1>2. n \in Names /\ values[n] \in Entry
  BY <1>1, TopCall DEF Frame, IInv, TypeOK
<1>3. r \in Answers
  BY <1>2, AnswersOf DEF Entry
<1> HIDE DEF r
<1>4. FramesOK' /\ NestedOK' /\ HolderOK' /\ frames' \in [Threads -> Seq(Frame)]
  BY <1>1, ReturnKeeps DEF PastLock
<1>5. answer' \in [Threads -> Answers]
  BY <1>1, <1>3, ReturnAnswers DEF IInv
<1>6. TypeOK'
  BY <1>1, <1>4, <1>5 DEF IInv, TypeOK, Answers
<1>7. EntriesOK'
  BY <1>1 DEF IInv, EntriesOK
<1> QED BY <1>4, <1>6, <1>7 DEF IInv

\* Nobody was past the lock, so nobody else is now.
LEMMA LockKeeps ==
  ASSUME ActivationAssumption, IInv, NEW t \in Threads, Lock(t)
  PROVE  IInv'
<1> DEFINE f == [Top(t) EXCEPT !.at = "locked"]
<1>1. /\ frames[t] # <<>> /\ Top(t).at = "wait" /\ mutex = NoOne /\ mutex' = t
      /\ Goto(t, "locked") /\ UNCHANGED <<values, answer, assigns, lookups>>
  BY DEF Lock
<1>2. /\ Top(t) \in Frame /\ FrameOK(t, Top(t)) /\ Len(frames[t]) = 1 /\ TypeOK
  BY <1>1, TopCall DEF IInv, ActivationAssumption
<1>3. /\ frames'[t] \in Seq(Frame) /\ frames' \in [Threads -> Seq(Frame)]
      /\ \A u \in Threads : u # t => frames'[u] = frames[u]
      /\ Len(frames'[t]) = Len(frames[t])
      /\ frames'[t][Len(frames[t])] = f
  BY <1>1, <1>2, GotoChanges DEF Changes, Places
<1>4. Len(frames'[t]) = 1 /\ frames'[t][1] = f
  BY <1>2, <1>3
<1>5. f.at = "locked" /\ f.name = Top(t).name /\ values[f.name].provider
  BY <1>1, <1>2 DEF Frame, FrameOK
<1>6. TypeOK'
  BY <1>1, <1>3 DEF IInv, TypeOK
<1>7. EntriesOK'
  BY <1>1 DEF IInv, EntriesOK
<1>8. FramesOK'
  <2> SUFFICES ASSUME NEW u \in Threads, NEW i \in DOMAIN frames'[u]
               PROVE  FrameOK(u, frames[u][i])'
    BY DEF FramesOK
  <2>1. CASE u = t
    <3>1. i = 1
      BY <1>3, <1>4, <2>1
    <3> QED BY <1>1, <1>4, <1>5, <2>1, <3>1 DEF FrameOK, PastLock
  <2>2. CASE u # t
    <3>1. FrameOK(u, frames[u][i]) /\ frames'[u][i] = frames[u][i]
      BY <1>3, <2>2 DEF IInv, FramesOK
    <3>2. frames[u][i].at \notin PastLock
      BY <1>1, <3>1 DEF FrameOK, ActivationAssumption
    <3> QED BY <1>1, <2>2, <3>1, <3>2 DEF FrameOK, PastLock
  <2> QED BY <2>1, <2>2
<1>9. NestedOK'
  <2>1. ~(Len(frames'[t]) = 2) /\ Len(frames'[t]) <= 2
    BY <1>4
  <2> QED BY <1>3, <2>1, Zenon DEF IInv, NestedOK
<1>10. HolderOK'
  <2>1. frames'[t] # <<>>
    <3>1. Len(frames'[t]) = 1
      BY <1>4
    <3> QED BY <3>1
  <2> QED BY <1>1, <1>4, <1>5, <2>1 DEF HolderOK, PastLock
<1> QED BY <1>6, <1>7, <1>8, <1>9, <1>10 DEF IInv

\* The holder of the lock returns r and leaves the values of the other entries
\* alone.
LEMMA ReleaseReturns ==
  ASSUME ActivationAssumption, IInv, NEW t \in Threads, frames[t] # <<>>,
         NEW r \in Answers, Return(t, r), Top(t).at \in PastLock, mutex' = NoOne,
         UNCHANGED <<values, assigns, lookups>>
  PROVE  IInv'
<1>1. FramesOK' /\ NestedOK' /\ HolderOK' /\ frames' \in [Threads -> Seq(Frame)]
  BY ReleaseKeeps
<1>2. answer' \in [Threads -> Answers]
  BY ReturnAnswers DEF IInv
<1>3. TypeOK'
  BY <1>1, <1>2 DEF IInv, TypeOK, Answers
<1>4. EntriesOK'
  BY DEF IInv, EntriesOK
<1> QED BY <1>1, <1>3, <1>4 DEF IInv

\* the second look under the lock, which finds a value or calls the provider;
LEMMA ProvideValueKeeps ==
  ASSUME ActivationAssumption, IInv, NEW t \in Threads, ProvideValue(t)
  PROVE  IInv'
<1> DEFINE n == Top(t).name
<1>1. /\ frames[t] # <<>> /\ Top(t).at = "locked"
      /\ UNCHANGED <<values, assigns, lookups>>
  BY DEF ProvideValue
<1>2. /\ Top(t) \in Frame /\ n \in Names /\ values[n] \in Entry /\ FrameOK(t, Top(t))
  BY <1>1, TopCall DEF Frame, IInv, TypeOK
<1>3. CASE /\ values[n].value # NoValue /\ mutex' = NoOne
           /\ Return(t, SPEC!Found(n, values[n].value))
  <2>1. SPEC!Found(n, values[n].value) \in Answers
    BY <1>2, <1>3, AnswersOf DEF Entry
  <2> QED BY <1>1, <1>3, <2>1, ReleaseReturns DEF PastLock
<1>4. CASE values[n].value = NoValue /\ Goto(t, "provider") /\ UNCHANGED <<mutex, answer>>
  <2>1. FrameOK(t, [Top(t) EXCEPT !.at = "provider"])
    BY <1>1, <1>2, <1>4 DEF FrameOK, PastLock, Frame
  <2>5. Len(frames[t]) = 1 /\ ~(Len(frames[t]) = 2) /\ "provider" \in PastLock \intersect Places
    <3>1. Len(frames[t]) = 1
      BY <1>1, TopCall DEF PastLock
    <3> QED BY <3>1 DEF PastLock, Places
  <2>2. FramesOK' /\ NestedOK' /\ HolderOK' /\ frames' \in [Threads -> Seq(Frame)]
    BY <1>1, <1>4, <2>1, <2>5, GotoKeeps
  <2>3. TypeOK'
    BY <1>1, <1>4, <2>2 DEF IInv, TypeOK
  <2>4. EntriesOK'
    BY <1>1 DEF IInv, EntriesOK
  <2> QED BY <2>2, <2>3, <2>4 DEF IInv
<1> QED BY <1>3, <1>4 DEF ProvideValue, Memoised

\* the provider's delivery of a value;
LEMMA ProviderDeliversKeeps ==
  ASSUME ActivationAssumption, IInv, NEW t \in Threads, ProviderDelivers(t)
  PROVE  IInv'
<1>1. /\ frames[t] # <<>> /\ Top(t).at = "provider" /\ Goto(t, "store")
      /\ UNCHANGED <<values, mutex, answer, assigns, lookups>>
  BY DEF ProviderDelivers
<1>2. Top(t) \in Frame /\ FrameOK(t, Top(t))
  BY <1>1, TopCall
<1>3. FrameOK(t, [Top(t) EXCEPT !.at = "store"])
  BY <1>1, <1>2 DEF FrameOK, PastLock, Frame
<1>7. Len(frames[t]) = 1 /\ ~(Len(frames[t]) = 2) /\ "store" \in PastLock \intersect Places
  <2>1. Len(frames[t]) = 1
    BY <1>1, TopCall DEF PastLock
  <2> QED BY <2>1 DEF PastLock, Places
<1>4. FramesOK' /\ NestedOK' /\ HolderOK' /\ frames' \in [Threads -> Seq(Frame)]
  BY <1>1, <1>3, <1>7, GotoKeeps
<1>5. TypeOK'
  BY <1>1, <1>4 DEF IInv, TypeOK
<1>6. EntriesOK'
  BY <1>1 DEF IInv, EntriesOK
<1> QED BY <1>4, <1>5, <1>6 DEF IInv

\* its failure, which memoises nothing;
LEMMA ProviderFailsKeeps ==
  ASSUME ActivationAssumption, IInv, NEW t \in Threads, ProviderFails(t)
  PROVE  IInv'
<1> DEFINE n == Top(t).name
<1>1. /\ frames[t] # <<>> /\ Top(t).at = "provider" /\ mutex' = NoOne
      /\ UNCHANGED <<values, assigns, lookups>>
  BY DEF ProviderFails
<1>2. PICK r \in {SPEC!NotFound(n), SPEC!Failed(n)} : Return(t, r)
  BY DEF ProviderFails
<1>3. n \in Names
  BY <1>1, TopCall DEF Frame
<1>4. r \in Answers
  BY <1>3, AnswersOf
<1> QED BY <1>1, <1>2, <1>4, ReleaseReturns DEF PastLock

\* the store of the value, and the release of the lock.
LEMMA StoreValueKeeps ==
  ASSUME ActivationAssumption, IInv, NEW t \in Threads, StoreValue(t)
  PROVE  IInv'
<1> DEFINE n == Top(t).name
<1>1. /\ frames[t] # <<>> /\ Top(t).at = "store" /\ mutex' = NoOne
      /\ UNCHANGED <<assigns, lookups>>
  BY DEF StoreValue, Released
<1>2. PICK v \in Vals : /\ values' = [values EXCEPT ![n].value = v]
                        /\ Return(t, SPEC!Found(n, v))
  BY DEF StoreValue
<1>3. n \in Names /\ values[n] \in Entry /\ FrameOK(t, Top(t))
  BY <1>1, TopCall DEF Frame, IInv, TypeOK
<1>4. /\ values' \in [Names -> Entry] /\ values[n].provider /\ values'[n].provider
      /\ \A m \in Names : /\ values'[m].bound = values[m].bound
                          /\ values'[m].provider = values[m].provider
                          /\ m # n => values'[m] = values[m]
  BY <1>1, <1>2, <1>3 DEF IInv, TypeOK, Entry, FrameOK, PastLock
<1>5. FramesOK' /\ NestedOK' /\ HolderOK' /\ frames' \in [Threads -> Seq(Frame)]
  BY <1>1, <1>2, <1>4, ReleaseKeeps DEF PastLock
<1>6. answer' \in [Threads -> Answers]
  BY <1>2, <1>3, AnswersOf, ReturnAnswers DEF IInv
<1>7. TypeOK'
  BY <1>1, <1>4, <1>5, <1>6 DEF IInv, TypeOK, Answers
<1>8. EntriesOK'
  BY <1>3, <1>4 DEF IInv, EntriesOK
<1> QED BY <1>5, <1>7, <1>8 DEF IInv

\* A provider's own lookup knows nothing of its entry yet.
LEMMA ProviderFindsKeeps ==
  ASSUME ActivationAssumption, IInv, NEW t \in Threads, ProviderFinds(t)
  PROVE  IInv'
<1>1. /\ frames[t] # <<>> /\ Top(t).at = "provider"
      /\ UNCHANGED <<values, mutex, answer, assigns, lookups>>
  BY DEF ProviderFinds
<1>2. PICK n \in Needs[Top(t).name] \ Top(t).asked :
        frames' = [frames EXCEPT ![t] =
          Front(@) \o <<[Top(t) EXCEPT !.asked = @ \union {n}], At(n, "look")>>]
  BY DEF ProviderFinds
<1> DEFINE f == [Top(t) EXCEPT !.asked = @ \union {n}]
<1>3. /\ Top(t) \in Frame /\ FrameOK(t, Top(t)) /\ Len(frames[t]) = 1
      /\ DOMAIN frames[t] = 1 .. Len(frames[t])
  BY <1>1, TopCall DEF PastLock
<1>4. n \in Names
  BY <1>3 DEF Frame, ActivationAssumption
<1>5. f \in Frame /\ f.at = "provider" /\ f.name = Top(t).name
  BY <1>1, <1>3, <1>4 DEF Frame
<1>6. At(n, "look") \in Frame
  BY <1>4 DEF At, Frame, Places
<1>7. frames' = [frames EXCEPT ![t] = Called(frames[t], f, At(n, "look"))]
  BY <1>2 DEF Called, IInv, TypeOK
<1>8. frames[t] \in Seq(Frame) /\ TypeOK
  BY DEF IInv, TypeOK
<1> DEFINE g == At(n, "look")
<1>9. g \in Frame /\ g.name = n /\ g.at = "look"
  BY <1>6 DEF At
<1> HIDE DEF f, g
<1>10. Called(frames[t], f, g) = <<f, g>>
  BY <1>3, <1>5, <1>8, <1>9, CalledFrames
<1>11. /\ frames' \in [Threads -> Seq(Frame)]
       /\ \A u \in Threads : u # t => frames'[u] = frames[u]
       /\ frames'[t] = <<f, g>>
  <2>1. frames' = [frames EXCEPT ![t] = <<f, g>>]
    BY <1>7, <1>10 DEF g
  <2>2. <<f, g>> \in Seq(Frame)
    BY <1>5, <1>9
  <2> QED BY <1>8, <2>1, <2>2 DEF TypeOK
<1>12. /\ frames'[t] # <<>> /\ DOMAIN frames'[t] = 1 .. 2 /\ Len(frames'[t]) = 2
       /\ frames'[t][1] = f /\ frames'[t][2] = g
  BY <1>11
<1>13. TypeOK'
  BY <1>1, <1>11 DEF IInv, TypeOK
<1>14. EntriesOK'
  BY <1>1 DEF IInv, EntriesOK
<1>15. FramesOK'
  <2> SUFFICES ASSUME NEW u \in Threads, NEW i \in DOMAIN frames'[u]
               PROVE  FrameOK(u, frames[u][i])'
    BY DEF FramesOK
  <2>1. CASE u = t
    <3>1. i \in 1 .. 2
      BY <1>11, <1>12, <2>1
    <3>2. CASE i = 1
      BY <1>1, <1>3, <1>5, <1>12, <2>1, <3>2 DEF FrameOK, PastLock
    <3>3. CASE i = 2
      BY <1>9, <1>12, <2>1, <3>3 DEF FrameOK, PastLock
    <3> QED BY <3>1, <3>2, <3>3
  <2>2. CASE u # t
    <3>1. FrameOK(u, frames[u][i]) /\ frames'[u][i] = frames[u][i]
      BY <1>11, <2>2 DEF IInv, FramesOK
    <3> QED BY <1>1, <3>1 DEF FrameOK
  <2> QED BY <2>1, <2>2
<1>16. NestedOK'
  <2> SUFFICES ASSUME NEW u \in Threads
               PROVE  /\ Len(frames'[u]) <= 2
                      /\ Len(frames'[u]) = 2 => Nested(frames'[u])
    BY DEF NestedOK
  <2>1. CASE u = t
    <3>1. Len(frames'[t]) = 2
      BY <1>12, Zenon
    <3>2. frames'[t][1].at = "provider" /\ frames'[t][2].name = n
      BY <1>5, <1>9, <1>12
    <3>3. frames'[t][2].at = "look" /\ frames'[t][1].name = Top(t).name
      BY <1>5, <1>9, <1>12
    <3>4. Nested(frames'[t])
      BY <1>2, <3>2, <3>3 DEF Nested, PastLock
    <3> QED BY <2>1, <3>1, <3>4
  <2>2. CASE u # t
    BY <1>11, <2>2 DEF IInv, NestedOK
  <2> QED BY <2>1, <2>2
<1>17. HolderOK'
  <2>1. CASE mutex = t
    BY <1>1, <1>5, <1>12, <2>1 DEF HolderOK, PastLock
  <2>2. CASE mutex # t
    BY <1>1, <1>11, <2>2 DEF HolderOK, IInv, TypeOK
  <2> QED BY <2>1, <2>2
<1> QED BY <1>13, <1>14, <1>15, <1>16, <1>17 DEF IInv

-----------------------------------------------------------------------------
\* The invariant holds in every state: at the start no call is in progress, and
\* each operation of the activation and each step inside FindVariable keeps it.
THEOREM Invariance == Spec => []IInv
<1>1. ActivationAssumption
  BY ActivationAssumption
<1>2. Init => IInv
  BY <1>1 DEF Init, IInv, TypeOK, EntriesOK, FramesOK, NestedOK, HolderOK, Entry, NoEntry,
              ActivationAssumption
<1>3. IInv /\ [Next]_vars => IInv'
  <2> SUFFICES ASSUME IInv, [Next]_vars PROVE IInv'
    OBVIOUS
  <2>1. CASE UNCHANGED vars
    BY <2>1 DEF vars, IInv, TypeOK, EntriesOK, FramesOK, FrameOK, NestedOK, HolderOK
  <2>2. ASSUME NEW n \in Names, InsertOrAssignValue(n) PROVE IInv'
    <3>1. PICK v \in Vals : Assign(n, [bound |-> TRUE, provider |-> FALSE, value |-> v])
      BY <2>2 DEF InsertOrAssignValue
    <3>2. [bound |-> TRUE, provider |-> FALSE, value |-> v] \in Entry /\ v # NoValue
      BY <1>1 DEF Entry, ActivationAssumption
    <3> QED BY <1>1, <3>1, <3>2, AssignKeeps
  <2>3. ASSUME NEW n \in Names, InsertOrAssignValueProvider(n) PROVE IInv'
    <3>1. /\ n \in Lazies
          /\ Assign(n, [bound |-> TRUE, provider |-> TRUE, value |-> NoValue])
      BY <2>3 DEF InsertOrAssignValueProvider
    <3>2. [bound |-> TRUE, provider |-> TRUE, value |-> NoValue] \in Entry
      BY DEF Entry
    <3> QED BY <1>1, <3>1, <3>2, AssignKeeps
  <2>4. ASSUME NEW t \in Threads, FindVariable(t) \/ LookupStep(t) PROVE IInv'
    BY <1>1, <2>4, FindVariableKeeps, LookAtEntryKeeps, ReadValueKeeps, LockKeeps,
       ProvideValueKeeps, ProviderFindsKeeps, ProviderDeliversKeeps, ProviderFailsKeeps,
       StoreValueKeeps DEF LookupStep
  <2> QED BY <2>1, <2>2, <2>3, <2>4 DEF Next, Terminated
<1> QED BY <1>2, <1>3, PTL DEF Spec

\* ProvideValue's store to an entry never coincides with FindVariable's unlocked
\* read of its value, for any number of threads: the reader's entry has no
\* provider and the writer's has one.
THEOREM NoRaceHolds == Spec => []NoRace
<1>1. IInv => NoRace
  <2> SUFFICES ASSUME IInv, NEW t \in Threads, NEW u \in Threads,
                      NEW i \in DOMAIN frames[t], NEW j \in DOMAIN frames[u],
                      "value" \in ReadsUnlocked(frames[t][i].at),
                      frames[u][j].at = "store", frames[t][i].name = frames[u][j].name
               PROVE  FALSE
    BY DEF NoRace
  <2>1. frames[t][i].at = "read"
    BY DEF ReadsUnlocked
  <2>2. FrameOK(t, frames[t][i]) /\ FrameOK(u, frames[u][j])
    BY DEF IInv, FramesOK
  <2> QED BY <2>1, <2>2 DEF FrameOK, PastLock
<1> QED BY <1>1, Invariance, PTL

\* Exactly one call at a time is past the lock, its thread is still inside it,
\* and a thread waits for its own lock only right above its provider's call, in
\* a lookup of a variable that has a provider itself (ProvideValue, whose lock
\* is not reentrant).  The theorem holds whatever the providers look up.
THEOREM DeadlockOnlyByReentryHolds == Spec => []DeadlockOnlyByReentry
<1>1. IInv => DeadlockOnlyByReentry
  <2> SUFFICES ASSUME IInv PROVE DeadlockOnlyByReentry
    OBVIOUS
  <2>1. ASSUME NEW t \in Threads, NEW i \in DOMAIN frames[t],
               frames[t][i].at \in {"locked", "provider", "store"}
        PROVE  mutex = t
    BY <2>1 DEF IInv, FramesOK, FrameOK, PastLock
  <2>2. ASSUME NEW t \in Threads, NEW i \in DOMAIN frames[t],
               frames[t][i].at = "wait", mutex = t
        PROVE  /\ i > 1 /\ frames[t][i - 1].at = "provider"
               /\ frames[t][i].name \in Needs[frames[t][i - 1].name]
               /\ values[frames[t][i].name].provider
    <3>1. frames[t] # <<>> /\ i \in 1 .. Len(frames[t]) /\ Len(frames[t]) \in 1 .. 2
      <4>1. frames[t] \in Seq(Frame)
        BY DEF IInv, TypeOK
      <4>2. frames[t] # <<>>
        BY <2>2, <4>1
      <4> QED BY <4>2, TopCall, ActivationAssumption
    <3>2. frames[t][1].at \in PastLock
      BY <2>2, <3>1, TopCall, ActivationAssumption
    <3>3. i # 1
      BY <2>2, <3>2 DEF PastLock
    <3>4. i = 2 /\ Len(frames[t]) = 2
      BY <3>1, <3>3
    <3>5. Nested(frames[t])
      BY <3>4 DEF IInv, NestedOK
    <3>6. values[frames[t][i].name].provider
      BY <2>2 DEF IInv, FramesOK, FrameOK
    <3> QED BY <3>4, <3>5, <3>6 DEF Nested
  <2>3. mutex # NoOne => frames[mutex] # <<>>
    BY DEF IInv, HolderOK
  <2> QED BY <2>1, <2>2, <2>3 DEF DeadlockOnlyByReentry
<1> QED BY <1>1, Invariance, PTL

-----------------------------------------------------------------------------
\* What a name is bound to in the abstract activation.
binding == [n \in Names |-> BindingOf(values[n])]

\* Binding a name is one step of the abstract activation.
LEMMA AssignImplements ==
  ASSUME IInv, NEW n \in Names, NEW entry \in Entry, Assign(n, entry),
         entry.bound, ~entry.provider => entry.value # NoValue
  PROVE  SPEC!Next
<1> DEFINE b == BindingOf(entry)
<1>1. b \in SPEC!Bindings /\ b # SPEC!Unbound
  <2>1. CASE entry.value # NoValue
    <3>1. entry.value \in Vals /\ b = [as |-> "value", value |-> entry.value]
      BY <2>1 DEF Entry, BindingOf
    <3>2. b.as = "value" /\ SPEC!Unbound.as = "unbound"
      BY <3>1 DEF SPEC!Unbound
    <3> QED BY <3>1, <3>2 DEF SPEC!Bindings, SPEC!Bound
  <2>2. CASE entry.value = NoValue
    <3>1. b = [as |-> "provider"]
      BY <2>2 DEF BindingOf
    <3>2. b.as = "provider" /\ SPEC!Unbound.as = "unbound"
      BY <3>1 DEF SPEC!Unbound
    <3> QED BY <3>1, <3>2 DEF SPEC!Bindings, SPEC!Provided
  <2> QED BY <2>1, <2>2
<1> HIDE DEF b
<1>2. binding' = [binding EXCEPT ![n] = b]
  <2>1. values' = [values EXCEPT ![n] = entry] /\ values \in [Names -> Entry]
    BY DEF Assign, IInv, TypeOK
  <2> QED BY <2>1 DEF binding, b
<1>3. answer' = answer
  BY DEF Assign
<1>4. SPEC!Assign(n)
  BY <1>1, <1>2, <1>3 DEF SPEC!Assign, binding
<1> QED BY <1>4 DEF SPEC!Next

\* A step that changes no entry and no answer is none of the abstract one.
LEMMA Stutters ==
  ASSUME UNCHANGED <<values, answer>>
  PROVE  UNCHANGED SPEC!vars
BY DEF SPEC!vars

\* What the entry of the innermost call is in the abstract activation.
LEMMA BindingCases ==
  ASSUME NEW n \in Names
  PROVE  /\ ~values[n].bound => binding[n] = SPEC!Unbound
         /\ values[n].bound /\ values[n].value # NoValue =>
              binding[n].as = "value" /\ binding[n].value = values[n].value
         /\ values[n].bound /\ values[n].value = NoValue => binding[n] = SPEC!Provided
<1>1. binding[n] = BindingOf(values[n])
  BY DEF binding
<1>2. CASE ~values[n].bound
  BY <1>1, <1>2 DEF BindingOf, SPEC!Unbound
<1>3. CASE values[n].bound /\ values[n].value # NoValue
  <2>1. binding[n] = [as |-> "value", value |-> values[n].value]
    BY <1>1, <1>3 DEF BindingOf
  <2> QED BY <1>3, <2>1
<1>4. CASE values[n].bound /\ values[n].value = NoValue
  BY <1>1, <1>4 DEF BindingOf, SPEC!Provided
<1> QED BY <1>2, <1>3, <1>4

\* The return of a call with an answer that its entry has: of the outermost, it
\* is the abstract lookup; of one that a provider made, it shows nothing.
LEMMA LookAtEntryImplements ==
  ASSUME ActivationAssumption, IInv, NEW t \in Threads, LookAtEntry(t)
  PROVE  SPEC!Next \/ UNCHANGED SPEC!vars
<1> DEFINE n == Top(t).name
<1>1. frames[t] # <<>> /\ UNCHANGED values
  BY DEF LookAtEntry
<1>2. n \in Names
  BY <1>1, TopCall DEF Frame
<1>3. CASE UNCHANGED answer
  BY <1>1, <1>3, Stutters
<1>4. CASE ~values[n].bound /\ Return(t, SPEC!NotFound(n)) /\ ~UNCHANGED answer
  <2>1. answer' = [answer EXCEPT ![t] = SPEC!NotFound(n)]
    BY <1>4 DEF Return
  <2>2. binding[n] = SPEC!Unbound /\ binding' = binding
    BY <1>1, <1>2, <1>4, BindingCases DEF binding
  <2>3. SPEC!LookupUnbound(t, n)
    BY <2>1, <2>2 DEF SPEC!LookupUnbound, binding
  <2> QED BY <1>2, <2>3 DEF SPEC!Next
<1> QED BY <1>3, <1>4 DEF LookAtEntry

\* A call returns the value of its entry.
LEMMA FoundImplements ==
  ASSUME NEW t \in Threads, NEW n \in Names, values[n].bound, values[n].value # NoValue,
         Return(t, SPEC!Found(n, values[n].value)), UNCHANGED values
  PROVE  SPEC!Next \/ UNCHANGED SPEC!vars
<1>1. CASE UNCHANGED answer
  BY <1>1, Stutters
<1>2. CASE ~UNCHANGED answer
  <2>1. answer' = [answer EXCEPT ![t] = SPEC!Found(n, values[n].value)]
    BY <1>2 DEF Return
  <2>2. /\ binding[n].as = "value" /\ binding[n].value = values[n].value
        /\ binding' = binding
    BY BindingCases DEF binding
  <2>3. SPEC!LookupBound(t, n)
    BY <2>1, <2>2 DEF SPEC!LookupBound, binding
  <2> QED BY <2>3 DEF SPEC!Next
<1> QED BY <1>1, <1>2

\* A call returns without a value because the provider had none.
LEMMA ProviderFailsImplements ==
  ASSUME ActivationAssumption, IInv, NEW t \in Threads, ProviderFails(t)
  PROVE  SPEC!Next \/ UNCHANGED SPEC!vars
<1> DEFINE n == Top(t).name
<1>1. frames[t] # <<>> /\ Top(t).at = "provider" /\ UNCHANGED values
  BY DEF ProviderFails
<1>2. n \in Names /\ FrameOK(t, Top(t))
  BY <1>1, TopCall DEF Frame
<1>3. values[n].bound /\ values[n].value = NoValue
  BY <1>1, <1>2 DEF FrameOK, PastLock, IInv, EntriesOK
<1>4. PICK r \in {SPEC!NotFound(n), SPEC!Failed(n)} : Return(t, r)
  BY DEF ProviderFails
<1>5. CASE UNCHANGED answer
  BY <1>1, <1>5, Stutters
<1>6. CASE ~UNCHANGED answer
  <2>1. answer' = [answer EXCEPT ![t] = r]
    BY <1>4, <1>6 DEF Return
  <2>2. binding[n] = SPEC!Provided /\ binding' = binding
    BY <1>1, <1>2, <1>3, BindingCases DEF binding
  <2>3. SPEC!LookupProvided(t, n)
    BY <2>1, <2>2 DEF SPEC!LookupProvided, binding
  <2> QED BY <1>2, <2>3 DEF SPEC!Next
<1> QED BY <1>5, <1>6

\* The value becomes the name's binding in the step that returns it.
LEMMA StoreValueImplements ==
  ASSUME ActivationAssumption, IInv, NEW t \in Threads, StoreValue(t)
  PROVE  SPEC!Next
<1> DEFINE n == Top(t).name
<1>1. frames[t] # <<>> /\ Top(t).at = "store"
  BY DEF StoreValue
<1>2. n \in Names /\ FrameOK(t, Top(t)) /\ Len(frames[t]) = 1
  BY <1>1, TopCall DEF Frame, PastLock
<1>3. values[n].bound /\ values[n].value = NoValue /\ values \in [Names -> Entry]
  BY <1>1, <1>2 DEF FrameOK, PastLock, IInv, EntriesOK, TypeOK
<1>4. PICK v \in Vals : /\ values' = [values EXCEPT ![n].value = v]
                        /\ Return(t, SPEC!Found(n, v))
  BY DEF StoreValue
<1>5. answer' = [answer EXCEPT ![t] = SPEC!Found(n, v)]
  BY <1>2, <1>4 DEF Return
<1>6. binding[n] = SPEC!Provided
  BY <1>2, <1>3, BindingCases
<1>7. binding' = [binding EXCEPT ![n] = SPEC!Bound(v)]
  <2>1. BindingOf(values'[n]) = SPEC!Bound(v)
    BY <1>2, <1>3, <1>4 DEF BindingOf, SPEC!Bound, Entry, ActivationAssumption
  <2>2. \A m \in Names : m # n => values'[m] = values[m]
    BY <1>3, <1>4
  <2> QED BY <1>2, <2>1, <2>2 DEF binding
<1>8. SPEC!LookupProvided(t, n)
  BY <1>5, <1>6, <1>7 DEF SPEC!LookupProvided, binding
<1> QED BY <1>2, <1>8 DEF SPEC!Next

\* An activation shared by any number of threads behaves as if every lookup
\* happened at one instant, and a provided variable keeps the first value that
\* is delivered: the steps of FindVariable and ProvideValue are the lookups of
\* ActivationSpec, or no step of it.
THEOREM Refinement == Spec => IsActivation
<1>1. ActivationAssumption
  BY ActivationAssumption
<1>2. Init => SPEC!Init
  BY DEF Init, SPEC!Init, SPEC!Unbound, NoEntry, BindingOf
<1>3. IInv /\ [Next]_vars => [SPEC!Next]_(SPEC!vars)
  <2> SUFFICES ASSUME IInv, [Next]_vars PROVE SPEC!Next \/ UNCHANGED SPEC!vars
    OBVIOUS
  <2>1. CASE UNCHANGED <<values, answer>>
    BY <2>1, Stutters
  <2>2. ASSUME NEW n \in Names, InsertOrAssignValue(n) PROVE SPEC!Next
    <3>1. PICK v \in Vals : Assign(n, [bound |-> TRUE, provider |-> FALSE, value |-> v])
      BY <2>2 DEF InsertOrAssignValue
    <3>2. [bound |-> TRUE, provider |-> FALSE, value |-> v] \in Entry /\ v # NoValue
      BY <1>1 DEF Entry, ActivationAssumption
    <3> QED BY <3>1, <3>2, AssignImplements
  <2>3. ASSUME NEW n \in Names, InsertOrAssignValueProvider(n) PROVE SPEC!Next
    <3>1. Assign(n, [bound |-> TRUE, provider |-> TRUE, value |-> NoValue])
      BY <2>3 DEF InsertOrAssignValueProvider
    <3>2. [bound |-> TRUE, provider |-> TRUE, value |-> NoValue] \in Entry
      BY DEF Entry
    <3> QED BY <3>1, <3>2, AssignImplements
  <2>4. ASSUME NEW t \in Threads,
               \/ FindVariable(t) \/ Lock(t) \/ ProviderFinds(t) \/ ProviderDelivers(t)
        PROVE  UNCHANGED <<values, answer>>
    BY <2>4 DEF FindVariable, Lock, ProviderFinds, ProviderDelivers
  <2>5. ASSUME NEW t \in Threads, ReadValue(t) PROVE SPEC!Next \/ UNCHANGED SPEC!vars
    <3>1. frames[t] # <<>> /\ Top(t).at = "read" /\ UNCHANGED values
      BY <2>5 DEF ReadValue
    <3>2. Top(t).name \in Names /\ FrameOK(t, Top(t))
      BY <1>1, <3>1, TopCall DEF Frame
    <3>3. values[Top(t).name].bound /\ values[Top(t).name].value # NoValue
      BY <3>1, <3>2 DEF FrameOK, IInv, EntriesOK
    <3>4. Return(t, SPEC!Found(Top(t).name, values[Top(t).name].value))
      BY <2>5, <3>3 DEF ReadValue
    <3> QED BY <3>1, <3>2, <3>3, <3>4, FoundImplements
  <2>6. ASSUME NEW t \in Threads, ProvideValue(t) PROVE SPEC!Next \/ UNCHANGED SPEC!vars
    <3>1. frames[t] # <<>> /\ Top(t).at = "locked" /\ UNCHANGED values
      BY <2>6 DEF ProvideValue
    <3>2. Top(t).name \in Names /\ FrameOK(t, Top(t))
      BY <1>1, <3>1, TopCall DEF Frame
    <3>3. values[Top(t).name].bound
      BY <3>1, <3>2 DEF FrameOK, PastLock, IInv, EntriesOK
    <3>4. CASE values[Top(t).name].value # NoValue
      <4>1. Return(t, SPEC!Found(Top(t).name, values[Top(t).name].value))
        BY <2>6, <3>4 DEF ProvideValue, Memoised
      <4> QED BY <3>1, <3>2, <3>3, <3>4, <4>1, FoundImplements
    <3>5. CASE values[Top(t).name].value = NoValue
      BY <2>6, <3>1, <3>5, Stutters DEF ProvideValue, Memoised
    <3> QED BY <3>4, <3>5
  <2> QED BY <1>1, <2>1, <2>2, <2>3, <2>4, <2>5, <2>6, LookAtEntryImplements,
             ProviderFailsImplements, StoreValueImplements
          DEF Next, Terminated, LookupStep, vars
<1> QED BY <1>2, <1>3, Invariance, PTL DEF Spec, IsActivation, SPEC!Spec
=============================================================================
