------------------------- MODULE GrantSessionProofs -------------------------
(***************************************************************************)
(* Proofs about GrantSession, for any number of server processes and any   *)
(* range of sequence numbers.  The record kept behind the filter is never  *)
(* ahead of the filter's: that is the invariant AuthBehind.  What has been *)
(* applied stays stale (AppliedPassed), and in order (InOrderOnce).         *)
(***************************************************************************)
EXTENDS GrantSession, TLAPS

\* The current session is not among the retired ones.
CurrentNotRetired ==
    filter.session \notin filter.retired /\ auth.session \notin auth.retired

\* apply_event sees a subset of the frames the filter has accepted.
AuthBehind ==
    /\ auth.retired \subseteq filter.retired
    /\ auth.session # NoSession => auth.session \in filter.retired \cup {filter.session}
    /\ auth.session = filter.session => auth.passed <= filter.passed

\* An applied frame belongs to a retired session, or its number has passed; the
\* last one is of the current session.
AppliedPassed ==
    /\ \A i \in 1..Len(applied) :
         \/ applied[i].session \in auth.retired
         \/ applied[i].session = auth.session /\ applied[i].sequence < auth.passed
    /\ applied # <<>> => applied[Len(applied)].session = auth.session

\* NoReplay over the indices 1..Len(applied).
InOrderOnce ==
    \A i, j \in 1..Len(applied) :
      i < j /\ applied[i].session = applied[j].session =>
        /\ applied[i].sequence < applied[j].sequence
        /\ \A k \in i..j : applied[k].session = applied[j].session

History == AppliedPassed /\ InOrderOnce

SessionInv == TypeOK /\ CurrentNotRetired /\ AuthBehind /\ History

-----------------------------------------------------------------------------
\* Remember returns a record of the same type that has the frame as its last,
\* and keeps what was retired.
LEMMA RememberProperties ==
    ASSUME NEW mem \in Memory, NEW f \in Frame
    PROVE  /\ Remember(mem, f) \in Memory
           /\ Remember(mem, f).session = f.session
           /\ Remember(mem, f).passed = f.sequence + 1
           /\ Remember(mem, f).retired =
                IF mem.session \in {NoSession, f.session}
                THEN mem.retired ELSE mem.retired \cup {mem.session}
<1>1. /\ f.session \in Sessions /\ f.sequence \in 0..MaxSequence
      /\ mem.session \in Sessions \cup {NoSession} /\ mem.retired \subseteq Sessions
  BY DEF Memory, Frame, Sequences
<1>2. f.sequence + 1 \in 0..(MaxSequence + 1)
  BY <1>1, SessionAssumption
<1>3. (IF mem.session \in {NoSession, f.session}
       THEN mem.retired ELSE mem.retired \cup {mem.session}) \subseteq Sessions
  BY <1>1
<1>4. QED
  BY <1>1, <1>2, <1>3 DEF Remember, Memory

\* Accepting a fresh frame keeps the current session out of the retired ones.
LEMMA RememberFresh ==
    ASSUME NEW mem \in Memory, NEW f \in Frame, Fresh(mem, f),
           mem.session \notin mem.retired
    PROVE  Remember(mem, f).session \notin Remember(mem, f).retired
<1>1. f.session \notin mem.retired
  BY DEF Fresh
<1>2. /\ Remember(mem, f).session = f.session
      /\ Remember(mem, f).retired =
           IF mem.session \in {NoSession, f.session}
           THEN mem.retired ELSE mem.retired \cup {mem.session}
  BY RememberProperties
<1>3. QED
  BY <1>1, <1>2

\* The invariant holds at the start.
LEMMA SessionInvInit == Init => SessionInv
<1> SUFFICES ASSUME Init PROVE SessionInv
  OBVIOUS
<1>1. Blank \in Memory
  BY SessionAssumption DEF Blank, Memory
<1>2. TypeOK
  <2>1. serverSession \in Sessions /\ nextSequence \in 0..(MaxSequence + 1)
    BY SessionAssumption DEF Init, Sessions
  <2>2. air \subseteq Frame /\ filter \in Memory /\ auth \in Memory /\ applied \in Seq(Frame)
    BY <1>1 DEF Init
  <2>3. lateHeard \in BOOLEAN
    BY Zenon DEF Init
  <2>4. QED
    BY <2>1, <2>2, <2>3 DEF TypeOK
<1>3. CurrentNotRetired /\ AuthBehind /\ History
  BY DEF Init, Blank, CurrentNotRetired, AuthBehind, History, AppliedPassed, InOrderOnce
<1>4. QED
  BY <1>2, <1>3 DEF SessionInv

\* A frame that passes the filter and expires before it is applied.
LEMMA FilterInv ==
    ASSUME SessionInv, NEW f \in Frame, Filter(f), UNCHANGED <<auth, applied>>
    PROVE  /\ filter' \in Memory
           /\ CurrentNotRetired' /\ AuthBehind' /\ History'
<1>1. /\ filter \in Memory /\ auth \in Memory /\ Fresh(filter, f)
      /\ filter' = Remember(filter, f) /\ auth' = auth /\ applied' = applied
  BY DEF SessionInv, TypeOK, Filter
<1>2. /\ filter' \in Memory /\ filter'.session = f.session
      /\ filter'.passed = f.sequence + 1
      /\ filter'.retired = IF filter.session \in {NoSession, f.session}
                           THEN filter.retired
                           ELSE filter.retired \cup {filter.session}
  BY <1>1, RememberProperties
<1>3. CurrentNotRetired'
  BY <1>1, RememberFresh DEF SessionInv, CurrentNotRetired
<1>4. AuthBehind'
  <2>1. auth.retired \subseteq filter'.retired
    BY <1>2 DEF SessionInv, AuthBehind
  <2>2. auth.session # NoSession => auth.session \in filter'.retired \cup {f.session}
    BY <1>2 DEF SessionInv, AuthBehind
  <2>3. ASSUME auth.session = f.session
        PROVE  auth.passed <= f.sequence + 1
    <3>1. auth.session = filter.session
      BY <2>3, <1>1, SessionAssumption
         DEF SessionInv, AuthBehind, Fresh, Frame, Sessions, NoSession
    <3>2. f.sequence >= filter.passed /\ auth.passed <= filter.passed
      BY <3>1, <2>3, <1>1 DEF SessionInv, AuthBehind, Fresh
    <3>3. f.sequence \in Nat /\ filter.passed \in Nat /\ auth.passed \in Nat
      BY <1>1, SessionAssumption DEF Frame, Sequences, Memory
    <3>4. QED
      BY <3>2, <3>3
  <2>4. QED
    BY <2>1, <2>2, <2>3, <1>1, <1>2 DEF AuthBehind
<1>5. History'
  BY <1>1 DEF SessionInv, History, AppliedPassed, InOrderOnce
<1>6. QED
  BY <1>2, <1>3, <1>4, <1>5

\* A frame that is applied has a larger number than those of its session, and the
\* last frame before it was of that session or of one it retires.
LEMMA HistoryGrows ==
    ASSUME auth \in Memory, applied \in Seq(Frame), History,
           NEW f \in Frame, Fresh(auth, f),
           auth' = Remember(auth, f), applied' = Append(applied, f)
    PROVE  History'
<1> DEFINE n == Len(applied)
<1>1. /\ n \in Nat /\ Len(applied') = n + 1 /\ applied'[n + 1] = f
      /\ \A i \in 1..n : applied'[i] = applied[i] /\ applied[i] \in Frame
      /\ \A i \in 1..(n + 1) : i \in 1..n \/ i = n + 1
  OBVIOUS
<1>2. /\ auth'.session = f.session
      /\ auth'.passed = f.sequence + 1
      /\ auth'.retired = IF auth.session \in {NoSession, f.session}
                         THEN auth.retired
                         ELSE auth.retired \cup {auth.session}
  BY RememberProperties
<1>3. f.sequence \in Nat /\ auth.passed \in Nat
  BY SessionAssumption DEF Frame, Sequences, Memory
<1>4. \A i \in 1..n : applied[i].session \in Sessions /\ applied[i].sequence \in Nat
  BY <1>1, SessionAssumption DEF Frame, Sequences
<1>5. ASSUME NEW i \in 1..n, applied[i].session = f.session
      PROVE  /\ auth.session = f.session
             /\ applied[i].sequence < f.sequence
  <2>1. applied[i].session = auth.session /\ applied[i].sequence < auth.passed
    BY <1>5 DEF History, AppliedPassed, Fresh
  <2>2. auth.passed <= f.sequence
    BY <2>1, <1>5, <1>3 DEF Fresh
  <2>3. QED
    BY <2>1, <2>2, <1>3, <1>4, <1>5
<1>6. AppliedPassed'
  <2>1. applied'[Len(applied')].session = auth'.session
    BY <1>1, <1>2
  <2>2. ASSUME NEW i \in 1..n
        PROVE  \/ applied[i].session \in auth'.retired
               \/ applied[i].session = auth'.session /\ applied[i].sequence < auth'.passed
    <3>1. CASE applied[i].session \in auth.retired
      BY <3>1, <1>2
    <3>2. CASE applied[i].session = f.session
      BY <3>2, <1>5, <1>2, <1>3, <1>4
    <3>3. CASE applied[i].session = auth.session /\ applied[i].session # f.session
      BY <3>3, <1>4, <1>2, SessionAssumption DEF Sessions, NoSession
    <3>4. QED
      BY <3>1, <3>2, <3>3 DEF History, AppliedPassed
  <2>3. applied'[n + 1].session = auth'.session /\ applied'[n + 1].sequence < auth'.passed
    BY <1>1, <1>2, <1>3
  <2>4. QED
    BY <2>1, <2>2, <2>3, <1>1 DEF AppliedPassed
<1>7. InOrderOnce'
  <2> SUFFICES ASSUME NEW i \in 1..(n + 1), NEW j \in 1..(n + 1), i < j,
                      applied'[i].session = applied'[j].session
               PROVE  /\ applied'[i].sequence < applied'[j].sequence
                      /\ \A k \in i..j : applied'[k].session = applied'[j].session
    BY <1>1 DEF InOrderOnce
  <2>1. CASE j \in 1..n
    <3>1. i \in 1..n /\ \A k \in i..j : k \in 1..n
      BY <2>1, <1>1
    <3>2. /\ applied[i].sequence < applied[j].sequence
          /\ \A k \in i..j : applied[k].session = applied[j].session
      BY <3>1, <2>1, <1>1 DEF History, InOrderOnce
    <3>3. QED
      BY <3>1, <3>2, <2>1, <1>1
  <2>2. CASE j = n + 1
    <3>1. i \in 1..n /\ applied[i].session = f.session
      BY <2>2, <1>1
    <3>2. auth.session = f.session /\ applied[i].sequence < f.sequence
      BY <3>1, <1>5
    <3>3. n \in 1..n /\ applied[n].session = f.session
      BY <3>1, <3>2, <1>1 DEF History, AppliedPassed
    <3>4. \A k \in i..n : applied[k].session = f.session
      <4>1. CASE i = n
        BY <4>1, <3>3, <1>1
      <4>2. CASE i < n
        BY <4>2, <3>1, <3>3 DEF History, InOrderOnce
      <4>3. QED
        BY <4>1, <4>2, <3>1, <1>1
    <3>5. \A k \in i..j : k \in i..n \/ k = n + 1
      BY <2>2, <1>1
    <3>6. \A k \in i..n : k \in 1..n
      BY <3>1, <1>1
    <3>7. \A k \in i..j : applied'[k].session = f.session
      BY <3>4, <3>5, <3>6, <1>1
    <3>8. applied'[i] = applied[i] /\ applied'[j] = f
      BY <3>1, <2>2, <1>1
    <3>9. QED
      BY <3>2, <3>7, <3>8
  <2>3. QED
    BY <2>1, <2>2, <1>1
<1>8. QED
  BY <1>6, <1>7 DEF History

\* A frame that passes the filter and is applied.
LEMMA ApplyInv ==
    ASSUME SessionInv, NEW f \in Frame, Filter(f), Fresh(auth, f),
           auth' = Remember(auth, f), applied' = Append(applied, f)
    PROVE  /\ filter' \in Memory /\ auth' \in Memory
           /\ CurrentNotRetired' /\ AuthBehind' /\ History'
<1>1. /\ filter \in Memory /\ auth \in Memory /\ Fresh(filter, f)
      /\ filter' = Remember(filter, f)
  BY DEF SessionInv, TypeOK, Filter
<1>2. /\ filter' \in Memory /\ filter'.session = f.session
      /\ filter'.passed = f.sequence + 1
      /\ filter'.retired = IF filter.session \in {NoSession, f.session}
                           THEN filter.retired
                           ELSE filter.retired \cup {filter.session}
  BY <1>1, RememberProperties
<1>3. /\ auth' \in Memory /\ auth'.session = f.session
      /\ auth'.passed = f.sequence + 1
      /\ auth'.retired = IF auth.session \in {NoSession, f.session}
                         THEN auth.retired
                         ELSE auth.retired \cup {auth.session}
  BY <1>1, RememberProperties
<1>4. CurrentNotRetired'
  BY <1>1, RememberFresh DEF SessionInv, CurrentNotRetired
<1>5. f.sequence \in Nat
  BY SessionAssumption DEF Frame, Sequences
<1>6. AuthBehind'
  <2>1. auth'.retired \subseteq filter'.retired
    BY <1>2, <1>3 DEF SessionInv, AuthBehind
  <2>2. QED
    BY <2>1, <1>2, <1>3, <1>5 DEF AuthBehind
<1>7. History'
  BY HistoryGrows DEF SessionInv, TypeOK
<1>8. QED
  BY <1>2, <1>3, <1>4, <1>6, <1>7

\* Every step of the server, the client and the air preserves the invariant.
LEMMA SessionInvNext == SessionInv /\ [Next]_vars => SessionInv'
<1> SUFFICES ASSUME SessionInv, [Next]_vars PROVE SessionInv'
  OBVIOUS
<1>1. CASE SendGrant
  <2>1. TypeOK'
    BY <1>1, SessionAssumption DEF SendGrant, SessionInv, TypeOK, Frame, Sequences
  <2>2. QED
    BY <2>1, <1>1
       DEF SendGrant, SessionInv, CurrentNotRetired, AuthBehind, History, AppliedPassed, InOrderOnce
<1>2. CASE RestartServer
  <2>1. TypeOK'
    BY <1>2, SessionAssumption DEF RestartServer, SessionInv, TypeOK, Sessions
  <2>2. QED
    BY <2>1, <1>2
       DEF RestartServer, SessionInv, CurrentNotRetired, AuthBehind, History, AppliedPassed, InOrderOnce
<1>3. CASE RestartClient
  <2>1. Blank \in Memory
    BY SessionAssumption DEF Blank, Memory
  <2>2. TypeOK'
    <3>1. applied' \in Seq(Frame) /\ filter' \in Memory /\ auth' \in Memory
      BY <2>1, <1>3 DEF RestartClient
    <3>2. lateHeard' \in BOOLEAN
      BY <1>3, Zenon DEF RestartClient
    <3>3. QED
      BY <3>1, <3>2, <1>3 DEF RestartClient, SessionInv, TypeOK
  <2>3. QED
    BY <2>2, <1>3
       DEF RestartClient, Blank, SessionInv, CurrentNotRetired, AuthBehind, History, AppliedPassed, InOrderOnce
<1>4. ASSUME NEW f \in air, ReceiveGrant(f) PROVE SessionInv'
  <2>1. f \in Frame /\ Filter(f) /\ UNCHANGED <<serverSession, nextSequence, air>>
    BY <1>4 DEF ReceiveGrant, SessionInv, TypeOK
  <2>2. lateHeard' \in BOOLEAN
    BY <1>4, Zenon DEF ReceiveGrant
  <2>3. CASE UNCHANGED <<auth, applied>>
    BY <2>1, <2>2, <2>3, FilterInv DEF SessionInv, TypeOK
  <2>4. CASE /\ Fresh(auth, f)
             /\ auth' = Remember(auth, f) /\ applied' = Append(applied, f)
    BY <2>1, <2>2, <2>4, ApplyInv DEF SessionInv, TypeOK
  <2>5. QED
    BY <1>4, <2>3, <2>4 DEF ReceiveGrant, Apply, Expired
<1>5. ASSUME NEW f \in air, LoseFrame(f) PROVE SessionInv'
  BY <1>5 DEF LoseFrame, SessionInv, TypeOK, CurrentNotRetired, AuthBehind, History, AppliedPassed,
                     InOrderOnce
<1>6. CASE UNCHANGED vars
  BY <1>6 DEF vars, SessionInv, TypeOK, CurrentNotRetired, AuthBehind, History, AppliedPassed,
                     InOrderOnce
<1>7. QED
  BY <1>1, <1>2, <1>3, <1>4, <1>5, <1>6 DEF Next

-----------------------------------------------------------------------------
\* No frame comes from a server process that has not started yet, and as long as
\* the client has heard no late frame it has not gone past the running server.
SessionsInOrder ==
    /\ \A f \in air : f.session <= serverSession
    /\ ~lateHeard =>
         /\ filter.session <= serverSession /\ auth.session <= serverSession
         /\ \A s \in filter.retired \cup auth.retired : s < serverSession

\* Accepting a frame of the running server retires older sessions only.
LEMMA RememberRunning ==
    ASSUME NEW mem \in Memory, NEW f \in Frame, NEW s \in Sessions,
           f.session = s, mem.session <= s, \A r \in mem.retired : r < s
    PROVE  /\ Remember(mem, f).session <= s
           /\ \A r \in Remember(mem, f).retired : r < s
<1>1. /\ Remember(mem, f).session = f.session
      /\ Remember(mem, f).retired =
           IF mem.session \in {NoSession, f.session}
           THEN mem.retired ELSE mem.retired \cup {mem.session}
  BY RememberProperties
<1>2. s \in Nat /\ mem.session \in Nat
  BY SessionAssumption DEF Memory, Sessions, NoSession
<1>3. QED
  BY <1>1, <1>2

\* SessionsInOrder is preserved.
LEMMA SessionsInOrderNext ==
    SessionInv /\ SessionsInOrder /\ [Next]_vars => SessionsInOrder'
<1> SUFFICES ASSUME SessionInv, SessionsInOrder, [Next]_vars PROVE SessionsInOrder'
  OBVIOUS
<1>1. /\ serverSession \in Sessions /\ serverSession \in Nat
      /\ filter \in Memory /\ auth \in Memory
      /\ filter.session \in Nat /\ auth.session \in Nat
      /\ \A r \in filter.retired \cup auth.retired : r \in Nat
      /\ \A f \in air : f.session \in Nat
  BY SessionAssumption DEF SessionInv, TypeOK, Sessions, NoSession, Memory, Frame
<1>2. CASE SendGrant
  BY <1>2, <1>1 DEF SendGrant, SessionsInOrder
<1>3. CASE RestartServer
  BY <1>3, <1>1 DEF RestartServer, SessionsInOrder
<1>4. CASE RestartClient
  BY <1>4, <1>1 DEF RestartClient, SessionsInOrder, Blank, NoSession
<1>5. ASSUME NEW f \in air, ReceiveGrant(f) PROVE SessionsInOrder'
  <2>1. f \in Frame /\ filter' = Remember(filter, f)
        /\ UNCHANGED <<serverSession, nextSequence, air>>
        /\ lateHeard' = (lateHeard \/ f.session # serverSession)
    BY <1>5 DEF ReceiveGrant, Filter, SessionInv, TypeOK
  <2>2. CASE lateHeard'
    BY <2>1, <2>2 DEF SessionsInOrder
  <2>3. CASE ~lateHeard'
    <3>1. f.session = serverSession /\ ~lateHeard
      BY <2>1, <2>3
    <3>2. filter'.session <= serverSession /\ \A r \in filter'.retired : r < serverSession
      BY <2>1, <3>1, <1>1, RememberRunning DEF SessionsInOrder
    <3>3. auth' = auth \/ auth' = Remember(auth, f)
      BY <1>5 DEF ReceiveGrant, Apply, Expired
    <3>4. auth'.session <= serverSession /\ \A r \in auth'.retired : r < serverSession
      BY <2>1, <3>1, <3>3, <1>1, RememberRunning DEF SessionsInOrder
    <3>5. QED
      BY <2>1, <3>2, <3>4 DEF SessionsInOrder
  <2>4. QED
    BY <2>2, <2>3
<1>6. ASSUME NEW f \in air, LoseFrame(f) PROVE SessionsInOrder'
  BY <1>6 DEF LoseFrame, SessionsInOrder
<1>7. CASE UNCHANGED vars
  BY <1>7 DEF vars, SessionsInOrder
<1>8. QED
  BY <1>2, <1>3, <1>4, <1>5, <1>6, <1>7 DEF Next

-----------------------------------------------------------------------------
\* Whatever the air delivers, in whatever order and however often, what the
\* filter would accept apply_event would accept.
THEOREM ChecksAlwaysAgree == Spec => []ChecksAgree
<1>1. SessionInv => ChecksAgree
  <2> SUFFICES ASSUME SessionInv, NEW f \in Frame, Fresh(filter, f)
               PROVE  Fresh(auth, f)
    BY DEF ChecksAgree
  <2>1. f.session \notin auth.retired
    BY DEF SessionInv, AuthBehind, Fresh
  <2>2. ASSUME f.session = auth.session PROVE f.sequence >= auth.passed
    <3>1. auth.session = filter.session
      BY <2>2, SessionAssumption
         DEF SessionInv, AuthBehind, Fresh, Frame, Sessions, NoSession
    <3>2. f.sequence >= filter.passed /\ auth.passed <= filter.passed
      BY <3>1, <2>2 DEF SessionInv, AuthBehind, Fresh
    <3>3. f.sequence \in Nat /\ filter.passed \in Nat /\ auth.passed \in Nat
      BY SessionAssumption DEF SessionInv, TypeOK, Frame, Sequences, Memory
    <3>4. QED
      BY <3>2, <3>3
  <2>3. QED
    BY <2>1, <2>2 DEF Fresh
<1>2. QED
  BY <1>1, SessionInvInit, SessionInvNext, PTL DEF Spec

\* A copy of a frame that has authorised the client never does so again.
THEOREM AppliedStaysStale == Spec => []AppliedIsStale
<1>1. SessionInv => AppliedIsStale
  <2> SUFFICES ASSUME SessionInv, NEW i \in 1..Len(applied) PROVE ~Fresh(auth, applied[i])
    BY DEF AppliedIsStale, SessionInv, TypeOK
  <2>1. applied[i] \in Frame
    BY DEF SessionInv, TypeOK
  <2>2. applied[i].sequence \in Nat /\ auth.passed \in Nat
    BY <2>1, SessionAssumption DEF SessionInv, TypeOK, Frame, Sequences, Memory
  <2>3. QED
    BY <2>2 DEF SessionInv, History, AppliedPassed, Fresh
<1>2. QED
  BY <1>1, SessionInvInit, SessionInvNext, PTL DEF Spec

\* A frame authorises a client process at most once, in the order of the
\* numbers, and a client never goes back to a session it has left.
THEOREM GrantsAreNotReplayed == Spec => []NoReplay
<1>1. SessionInv => NoReplay
  <2>1. SessionInv => DOMAIN applied = 1..Len(applied)
    BY DEF SessionInv, TypeOK
  <2>2. QED
    BY <2>1 DEF SessionInv, History, InOrderOnce, NoReplay
<1>2. QED
  BY <1>1, SessionInvInit, SessionInvNext, PTL DEF Spec

\* A client that has heard no frame of an ended server process can always be
\* granted again by the running one.
THEOREM LiveSessionStaysHeard == Spec => []LiveSessionHeard
<1>1. Init => SessionsInOrder
  BY DEF Init, SessionsInOrder, Blank, NoSession
<1>2. SessionInv /\ SessionsInOrder => LiveSessionHeard
  BY SessionAssumption DEF SessionInv, TypeOK, Sessions, SessionsInOrder, LiveSessionHeard
<1>3. QED
  BY <1>1, <1>2, SessionInvInit, SessionInvNext, SessionsInOrderNext, PTL DEF Spec

=============================================================================
