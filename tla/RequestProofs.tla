--------------------------- MODULE RequestProofs ----------------------------
(***************************************************************************)
(* Proofs about the scripts of PageCore: the events and the handlers they  *)
(* are given to, the Ajax requests and the responders that count them, the *)
(* queue of the visual effects and what they do to an element, the spinner *)
(* that appears and fades with the count of requests, and the observers of *)
(* forms.                                                                  *)
(***************************************************************************)
EXTENDS PageCore, Integers, SequenceTheorems, FiniteSetTheorems, WellFoundedInduction, TLAPS

----------------------------------------------------------------------------
(***************************************************************************)
(* Proofs about EventRegistry for any document, names, handlers and depth  *)
(* of events.  The argument: what listens is what the registries hold, and *)
(* they hold one responder for each call, so the responders due on the     *)
(* element an event has reached stand for different calls, none of which   *)
(* the event has made: those it has made were for this element, by a       *)
(* responder no longer due, or for one it has left, which the elements     *)
(* still ahead of it do not include.                                       *)
(***************************************************************************)

\* What holds of an event d under way, if m is what the responders are for.
OnItsWay(d, m) ==
    /\ ~d.again
    /\ \A r \in d.due : m[r] \in Calls /\ m[r].element = d.at /\ m[r] \notin d.told
    /\ \A r, s \in d.due : m[r] = m[s] => r = s
    /\ \A c \in d.told : c.element = d.at \/ c.element \notin Above[d.at]

AllOnTheirWay == \A i \in 1..Len(dispatches) : OnItsWay(dispatches[i], made)

RegistryInv ==
    /\ RegistryTypeOK
    /\ \A r \in registry : made[r] \in Calls
    /\ RegistryIsExact
    /\ AllOnTheirWay

----------------------------------------------------------------------------
(* Names and dispatches. *)

LEMMA EventOfType == \A n \in Names : EventOf(n) \in DomEvents
BY RegistryAssumption DEF Names, EventOf, DomEvents

\* What listens on an element is in its registry, and for different calls.
LEMMA DueOnElement ==
  ASSUME RegistryInv, NEW event, NEW e \in Elements
  PROVE  /\ Due(event, e) \subseteq registry
         /\ Due(event, e) \subseteq Responders
         /\ \A r \in Due(event, e) : made[r] \in Calls /\ made[r].element = e
         /\ \A r, s \in Due(event, e) : made[r] = made[s] => r = s
BY DEF RegistryInv, RegistryTypeOK, RegistryIsExact, Due

\* The innermost event is one of those under way.
LEMMA InnermostIs ==
  ASSUME RegistryInv, dispatches # <<>>
  PROVE  /\ Len(dispatches) \in 1..Len(dispatches)
         /\ Innermost \in Dispatch
         /\ OnItsWay(Innermost, made)
<1>1. dispatches \in Seq(Dispatch)
  BY DEF RegistryInv, RegistryTypeOK
<1>2. Len(dispatches) \in Nat /\ Len(dispatches) # 0
  BY <1>1, EmptySeq, SMT
<1>3. Len(dispatches) \in 1..Len(dispatches)
  BY <1>2
<1>4. Innermost \in Dispatch
  BY <1>1, <1>3, ElementOfSeq DEF Innermost
<1>5. OnItsWay(Innermost, made)
  BY <1>3 DEF RegistryInv, AllOnTheirWay, Innermost
<1> QED BY <1>3, <1>4, <1>5

\* A step that changes the innermost event only.
LEMMA InnermostReplaced ==
  ASSUME RegistryInv, dispatches # <<>>,
         NEW d \in Dispatch, OnItsWay(d, made),
         dispatches' = [dispatches EXCEPT ![Len(dispatches)] = d],
         UNCHANGED <<made, registry, listening>>
  PROVE  RegistryInv'
<1>1. dispatches \in Seq(Dispatch) /\ Len(dispatches) <= MaxDepth
  BY DEF RegistryInv, RegistryTypeOK
<1>2. Len(dispatches) \in 1..Len(dispatches)
  BY InnermostIs
<1>3. /\ dispatches' \in Seq(Dispatch)
      /\ Len(dispatches') = Len(dispatches)
      /\ \A i \in 1..Len(dispatches) :
            dispatches'[i] = IF i = Len(dispatches) THEN d ELSE dispatches[i]
  BY <1>1, <1>2, ExceptSeq
<1>4. RegistryTypeOK'
  BY <1>1, <1>3, SMTT(40) DEF RegistryInv, RegistryTypeOK
<1>5. AllOnTheirWay'
  <2> SUFFICES ASSUME NEW i \in 1..Len(dispatches)
               PROVE  OnItsWay(dispatches'[i], made')
    BY <1>3 DEF AllOnTheirWay
  <2>1. OnItsWay(dispatches[i], made)
    BY DEF RegistryInv, AllOnTheirWay
  <2> QED BY <2>1, <1>3, ZenonT(60)
<1> QED BY <1>4, <1>5 DEF RegistryInv, RegistryIsExact

----------------------------------------------------------------------------
(* The steps. *)

LEMMA RegistryInitInv == RegistryInit => RegistryInv
<1> SUFFICES ASSUME RegistryInit PROVE RegistryInv
  OBVIOUS
<1>1. dispatches \in Seq(Dispatch) /\ Len(dispatches) = 0
  BY EmptySeq DEF RegistryInit
<1>2. RegistryTypeOK
  BY <1>1, RegistryAssumption DEF RegistryInit, RegistryTypeOK
<1>3. RegistryIsExact
  BY DEF RegistryInit, RegistryIsExact
<1>4. AllOnTheirWay
  BY <1>1 DEF AllOnTheirWay
<1> QED BY <1>2, <1>3, <1>4 DEF RegistryInit, RegistryInv

LEMMA ObserveInv ==
  ASSUME RegistryInv, NEW e \in Elements, NEW n \in Names, NEW h \in Handlers,
         Observe(e, n, h)
  PROVE  RegistryInv'
<1> DEFINE call == [element |-> e, name |-> n, handler |-> h]
<1>1. call \in Calls
  BY DEF Calls
<1>2. PICK r \in Responders :
        /\ Fresh(r)
        /\ made' = [made EXCEPT ![r] = call]
        /\ registry' = registry \cup {r}
        /\ listening' = listening \cup {<<r, EventOf(n)>>}
        /\ UNCHANGED dispatches
  BY DEF Observe
<1>3. \A s \in registry : made[s] # call
  BY DEF Observe
<1>4. made'[r] = call /\ \A s \in Responders \ {r} : made'[s] = made[s]
  BY <1>2 DEF RegistryInv, RegistryTypeOK
<1>5. registry \subseteq Responders \ {r}
  BY <1>2 DEF RegistryInv, RegistryTypeOK, Fresh
<1>6. RegistryTypeOK'
  <2>1. made' \in [Responders -> Calls \cup {None}]
    BY <1>1, <1>2 DEF RegistryInv, RegistryTypeOK
  <2>2. listening' \subseteq Responders \X DomEvents
    BY <1>2, EventOfType DEF RegistryInv, RegistryTypeOK
  <2> QED BY <1>2, <2>1, <2>2 DEF RegistryInv, RegistryTypeOK
<1>7. \A s \in registry' : made'[s] \in Calls
  BY <1>1, <1>2, <1>4, <1>5 DEF RegistryInv
<1>8. RegistryIsExact'
  <2>1. call.name = n
    OBVIOUS
  <2>2. listening' = {<<s, EventOf(made'[s].name)>> : s \in registry'}
    <3>1. listening = {<<s, EventOf(made[s].name)>> : s \in registry}
      BY DEF RegistryInv, RegistryIsExact
    <3>2. \A s \in registry : made'[s] = made[s]
      BY <1>4, <1>5
    <3>3. EventOf(made'[r].name) = EventOf(n)
      BY <1>4, <2>1
    <3> HIDE DEF call
    <3>4. {<<s, EventOf(made'[s].name)>> : s \in registry'}
            = {<<s, EventOf(made'[s].name)>> : s \in registry} \cup {<<r, EventOf(n)>>}
      BY <1>2, <3>3
    <3>5. {<<s, EventOf(made'[s].name)>> : s \in registry} = listening
      BY <3>1, <3>2
    <3> QED BY <1>2, <3>4, <3>5
  <2>3. \A s, t \in registry' : made'[s] = made'[t] => s = t
    <3> HIDE DEF call
    <3> QED BY <1>2, <1>3, <1>4, <1>5 DEF RegistryInv, RegistryIsExact
  <2> QED BY <2>2, <2>3 DEF RegistryIsExact, EventOf
<1>9. AllOnTheirWay'
  <2> SUFFICES ASSUME NEW i \in 1..Len(dispatches)
               PROVE  OnItsWay(dispatches[i], made')
    BY <1>2 DEF AllOnTheirWay, OnItsWay
  <2>1. dispatches[i] \in Dispatch /\ i \in DOMAIN dispatches
    BY ElementOfSeq, LenProperties DEF RegistryInv, RegistryTypeOK
  <2>2. dispatches[i].due \subseteq Responders \ {r}
    BY <1>2, <2>1 DEF Fresh, Dispatch
  <2>3. OnItsWay(dispatches[i], made)
    BY DEF RegistryInv, AllOnTheirWay
  <2>4. \A s \in dispatches[i].due : made'[s] = made[s]
    BY <1>4, <2>2
  <2> QED BY <2>3, <2>4 DEF OnItsWay
<1> QED BY <1>6, <1>7, <1>8, <1>9 DEF RegistryInv

LEMMA StopInv ==
  ASSUME RegistryInv, NEW S \in SUBSET registry, Stop(S)
  PROVE  RegistryInv'
<1>1. RegistryTypeOK'
  BY DEF RegistryInv, RegistryTypeOK, Stop
<1>2. RegistryIsExact'
  <2>1. /\ listening = {<<r, EventOf(made[r].name)>> : r \in registry}
        /\ \A r, s \in registry : made[r] = made[s] => r = s
    BY DEF RegistryInv, RegistryIsExact
  <2>2. listening' = {<<r, EventOf(made[r].name)>> : r \in registry \ S}
    <3>1. listening' = {<<r, EventOf(made[r].name)>> : r \in registry}
                        \ {<<r, EventOf(made[r].name)>> : r \in S}
      BY <2>1 DEF Stop
    <3> QED BY <3>1
  <2>3. made' = made /\ registry' = registry \ S
    BY DEF Stop
  <2> QED BY <2>1, <2>2, <2>3 DEF RegistryIsExact, EventOf
<1>3. AllOnTheirWay'
  BY DEF RegistryInv, AllOnTheirWay, OnItsWay, Stop
<1> QED BY <1>1, <1>2, <1>3 DEF RegistryInv, Stop

LEMMA BeginInv ==
  ASSUME RegistryInv, NEW event \in DomEvents, NEW name \in CustomNames \cup {None},
         NEW e \in Elements, NEW from \in Elements \cup {None},
         Begin(event, name, e, from)
  PROVE  RegistryInv'
<1> DEFINE d == Reaching(event, name, from, e, Due(event, e), {}, FALSE)
<1>1. d \in Dispatch
  BY DueOnElement DEF Dispatch, Reaching
<1>2. OnItsWay(d, made)
  BY DueOnElement DEF OnItsWay, Reaching
<1>3. /\ dispatches \in Seq(Dispatch) /\ Len(dispatches) < MaxDepth
      /\ dispatches' = Append(dispatches, d)
      /\ UNCHANGED <<made, registry, listening>>
  BY DEF RegistryInv, RegistryTypeOK, Begin
<1> HIDE DEF d
<1>4. /\ dispatches' \in Seq(Dispatch)
      /\ Len(dispatches') = Len(dispatches) + 1
      /\ \A i \in 1..Len(dispatches) : dispatches'[i] = dispatches[i]
      /\ dispatches'[Len(dispatches) + 1] = d
  BY <1>1, <1>3, AppendProperties
<1>5. Len(dispatches) \in Nat
  BY <1>3, LenProperties
<1>6. RegistryTypeOK'
  BY <1>3, <1>4, <1>5, RegistryAssumption DEF RegistryInv, RegistryTypeOK
<1>7. AllOnTheirWay'
  <2> SUFFICES ASSUME NEW i \in 1..Len(dispatches) + 1
               PROVE  OnItsWay(dispatches'[i], made)
    BY <1>3, <1>4 DEF AllOnTheirWay, OnItsWay
  <2>1. CASE i = Len(dispatches) + 1
    BY <1>2, <1>4, <2>1
  <2>2. CASE i # Len(dispatches) + 1
    <3>1. i \in 1..Len(dispatches)
      BY <1>5, <2>2
    <3> QED BY <1>4, <3>1 DEF RegistryInv, AllOnTheirWay
  <2> QED BY <2>1, <2>2
<1> QED BY <1>3, <1>6, <1>7 DEF RegistryInv, RegistryIsExact

LEMMA CallNextInv ==
  ASSUME RegistryInv, CallNext
  PROVE  RegistryInv'
<1> DEFINE d == Innermost
<1>1. dispatches # <<>> /\ d \in Dispatch /\ OnItsWay(d, made)
  BY InnermostIs DEF CallNext
<1>2. PICK r \in d.due :
        LET called == <<r, d.event>> \in listening /\ Passes(r, d)
        IN  dispatches' = [dispatches EXCEPT ![Len(dispatches)] =
                Reaching(d.event, d.name, d.related, d.at, d.due \ {r},
                         d.told \cup {c \in {made[r]} : called},
                         d.again \/ (called /\ made[r] \in d.told))]
  BY DEF CallNext
<1> DEFINE called == <<r, d.event>> \in listening /\ Passes(r, d)
           after == Reaching(d.event, d.name, d.related, d.at, d.due \ {r},
                             d.told \cup {c \in {made[r]} : called},
                             d.again \/ (called /\ made[r] \in d.told))
<1>3. made[r] \in Calls /\ made[r].element = d.at /\ made[r] \notin d.told /\ ~d.again
  BY <1>1 DEF OnItsWay
<1> HIDE DEF d, called
<1>4. /\ after.due = d.due \ {r}
      /\ after.told = d.told \cup {c \in {made[r]} : called}
      /\ after.again = (d.again \/ (called /\ made[r] \in d.told))
      /\ after.at = d.at /\ after.event = d.event /\ after.name = d.name
      /\ after.related = d.related
  BY DEF Reaching
<1>5. after \in Dispatch
  <2>1. d.due \ {r} \in SUBSET Responders
    BY <1>1 DEF Dispatch
  <2>2. d.told \cup {c \in {made[r]} : called} \in SUBSET Calls
    BY <1>1, <1>3 DEF Dispatch
  <2>3. (d.again \/ (called /\ made[r] \in d.told)) \in BOOLEAN
    OBVIOUS
  <2> QED BY <1>1, <2>1, <2>2, <2>3 DEF Dispatch, Reaching
<1>6. OnItsWay(after, made)
  <2> HIDE DEF after
  <2>1. ~after.again
    BY <1>3, <1>4
  <2>2. \A s \in after.due : made[s] # made[r]
    BY <1>1, <1>4 DEF OnItsWay
  <2>3. \A s \in after.due :
            made[s] \in Calls /\ made[s].element = after.at /\ made[s] \notin after.told
    BY <1>1, <1>4, <2>2 DEF OnItsWay
  <2>4. \A s, t \in after.due : made[s] = made[t] => s = t
    BY <1>1, <1>4 DEF OnItsWay
  <2>5. \A c \in after.told : c.element = after.at \/ c.element \notin Above[after.at]
    BY <1>1, <1>3, <1>4 DEF OnItsWay
  <2> QED BY <2>1, <2>3, <2>4, <2>5 DEF OnItsWay
<1>7. dispatches' = [dispatches EXCEPT ![Len(dispatches)] = after]
  BY <1>2 DEF called
<1>8. UNCHANGED <<made, registry, listening>>
  BY DEF CallNext
<1> HIDE DEF after
<1> QED BY <1>1, <1>5, <1>6, <1>7, <1>8, InnermostReplaced

LEMMA BubbleInv ==
  ASSUME RegistryInv, Bubble
  PROVE  RegistryInv'
<1> DEFINE d == Innermost
           up == Parent[d.at]
<1>1. dispatches # <<>> /\ d.due = {} /\ d \in Dispatch /\ OnItsWay(d, made)
  BY InnermostIs DEF Bubble
<1>2. UNCHANGED <<made, registry, listening>>
  BY DEF Bubble
<1>3. CASE up = None
  <2>1. dispatches \in Seq(Dispatch) /\ Len(dispatches) <= MaxDepth
    BY DEF RegistryInv, RegistryTypeOK
  <2>2. dispatches' = SubSeq(dispatches, 1, Len(dispatches) - 1)
    BY <1>3 DEF Bubble
  <2>3. Len(dispatches) \in Nat /\ Len(dispatches) >= 1
    BY <1>1, <2>1, InnermostIs, LenProperties
  <2>4. \A i \in 1..Len(dispatches) - 1 : dispatches[i] \in Dispatch
    BY <2>1, <2>3, ElementOfSeq
  <2>5. /\ dispatches' \in Seq(Dispatch)
        /\ Len(dispatches') = Len(dispatches) - 1
        /\ \A i \in 1..Len(dispatches) - 1 : dispatches'[i] = dispatches[i]
    <3>1. Len(dispatches) - 1 \in Int
      BY <2>3
    <3>2. /\ dispatches' \in Seq(Dispatch)
          /\ Len(dispatches') = IF 1 <= Len(dispatches) - 1
                                THEN Len(dispatches) - 1 - 1 + 1 ELSE 0
          /\ \A i \in 1..Len(dispatches) - 1 - 1 + 1 : dispatches'[i] = dispatches[1 + i - 1]
      BY <2>2, <2>4, <3>1, SubSeqProperties
    <3>3. \A i \in 1..Len(dispatches) - 1 : dispatches'[i] = dispatches[i]
      <4> SUFFICES ASSUME NEW i \in 1..Len(dispatches) - 1
                   PROVE  dispatches'[i] = dispatches[i]
        OBVIOUS
      <4>1. i \in 1..Len(dispatches) - 1 - 1 + 1 /\ 1 + i - 1 = i
        BY <2>3
      <4> QED BY <3>2, <4>1
    <3>4. Len(dispatches') = Len(dispatches) - 1
      <4>1. \A n \in Nat : n >= 1 => (IF 1 <= n - 1 THEN n - 1 - 1 + 1 ELSE 0) = n - 1
        OBVIOUS
      <4> QED BY <2>3, <3>2, <4>1
    <3> QED BY <3>2, <3>3, <3>4
  <2>6. RegistryTypeOK'
    BY <1>2, <2>1, <2>3, <2>5, RegistryAssumption DEF RegistryInv, RegistryTypeOK
  <2>7. AllOnTheirWay'
    BY <1>2, <2>3, <2>5 DEF RegistryInv, AllOnTheirWay, OnItsWay
  <2> QED BY <1>2, <2>6, <2>7 DEF RegistryInv, RegistryIsExact
<1>4. CASE up # None
  <2> DEFINE after == Reaching(d.event, d.name, d.related, up, Due(d.event, up),
                               d.told, d.again)
  <2>1. d.at \in Elements /\ up \in Elements
    BY <1>1, <1>4, RegistryAssumption DEF Dispatch
  <2>2. /\ d.at \notin Above[up] /\ up \in Above[up]
        /\ Above[d.at] = {d.at} \cup Above[up]
    BY <1>4, <2>1, RegistryAssumption
  <2>3. dispatches' = [dispatches EXCEPT ![Len(dispatches)] = after]
    BY <1>4 DEF Bubble
  <2> HIDE DEF d, up
  <2>4. /\ after.at = up /\ after.due = Due(d.event, up)
        /\ after.told = d.told /\ after.again = d.again
    BY DEF Reaching
  <2>5. after \in Dispatch
    <3>1. Due(d.event, up) \in SUBSET Responders
      BY <2>1, DueOnElement
    <3> QED BY <1>1, <2>1, <3>1 DEF Dispatch, Reaching
  <2>6. \A c \in d.told : c.element # up /\ c.element \notin Above[up]
    BY <1>1, <2>2 DEF OnItsWay
  <2>7. OnItsWay(after, made)
    <3>1. \A s \in Due(d.event, up) : made[s] \in Calls /\ made[s].element = up
      BY <2>1, DueOnElement
    <3>2. \A s, t \in Due(d.event, up) : made[s] = made[t] => s = t
      BY <2>1, DueOnElement
    <3>3. ~d.again
      BY <1>1 DEF OnItsWay
    <3> HIDE DEF after
    <3> QED BY <2>4, <2>6, <3>1, <3>2, <3>3 DEF OnItsWay
  <2> HIDE DEF after
  <2> QED BY <1>1, <1>2, <2>3, <2>5, <2>7, InnermostReplaced
<1> QED BY <1>3, <1>4

LEMMA RegistryNextInv ==
  ASSUME RegistryInv, [RegistryNext]_registryVars
  PROVE  RegistryInv'
<1>1. ASSUME NEW e \in Elements, NEW n \in Names, NEW h \in Handlers, Observe(e, n, h)
      PROVE  RegistryInv'
  BY <1>1, ObserveInv
<1>2. CASE StopObserving
  <2>1. PICK S \in SUBSET registry : Stop(S)
    <3>1. PICK e \in Elements :
            \/ \E n \in Names, h \in Handlers :
                Stop({r \in registry : made[r] = [element |-> e, name |-> n, handler |-> h]})
            \/ \E n \in Names : Stop({r \in registry : made[r].element = e /\ made[r].name = n})
            \/ Stop({r \in registry : made[r].element = e})
      BY <1>2 DEF StopObserving
    <3>2. ASSUME NEW n \in Names, NEW h \in Handlers,
                 Stop({r \in registry : made[r] = [element |-> e, name |-> n, handler |-> h]})
          PROVE  \E S \in SUBSET registry : Stop(S)
      <4> WITNESS {r \in registry : made[r] = [element |-> e, name |-> n, handler |-> h]}
                    \in SUBSET registry
      <4> QED BY <3>2
    <3>3. ASSUME NEW n \in Names,
                 Stop({r \in registry : made[r].element = e /\ made[r].name = n})
          PROVE  \E S \in SUBSET registry : Stop(S)
      <4> WITNESS {r \in registry : made[r].element = e /\ made[r].name = n}
                    \in SUBSET registry
      <4> QED BY <3>3
    <3>4. ASSUME Stop({r \in registry : made[r].element = e})
          PROVE  \E S \in SUBSET registry : Stop(S)
      <4> WITNESS {r \in registry : made[r].element = e} \in SUBSET registry
      <4> QED BY <3>4
    <3> QED BY <3>1, <3>2, <3>3, <3>4
  <2> QED BY <2>1, StopInv
<1>3. CASE Fire
  <2>1. DataAvailable \in DomEvents
    BY DEF DomEvents
  <2> QED BY <1>3, <2>1, BeginInv DEF Fire
<1>4. CASE NativeEvent
  BY <1>4, BeginInv DEF NativeEvent
<1>5. CASE CallNext
  BY <1>5, CallNextInv
<1>6. CASE Bubble
  BY <1>6, BubbleInv
<1>7. CASE UNCHANGED registryVars
  BY <1>7 DEF registryVars, RegistryInv, RegistryTypeOK, RegistryIsExact, AllOnTheirWay,
              OnItsWay, EventOf
<1> QED BY <1>1, <1>2, <1>3, <1>4, <1>5, <1>6, <1>7 DEF RegistryNext

\* What the run checks follows.
LEMMA RegistryFacts == RegistryInv => HandlersAreCalledRight
<1> SUFFICES ASSUME RegistryInv PROVE HandlersAreCalledRight
  OBVIOUS
<1>1. CalledOnce
  <2>1. \A i \in DOMAIN dispatches : OnItsWay(dispatches[i], made)
    BY LenProperties DEF RegistryInv, RegistryTypeOK, AllOnTheirWay
  <2> QED BY <2>1 DEF CalledOnce, OnItsWay
<1> QED BY <1>1 DEF RegistryInv, HandlersAreCalledRight

----------------------------------------------------------------------------
(* Theorems. *)

\* The registries hold one responder for each call, what they hold is what
\* listens, and every event under way has its calls still before it.
THEOREM RegistryInvariance == RegistrySpec => []RegistryInv
<1>1. RegistryInit => RegistryInv
  BY RegistryInitInv
<1>2. RegistryInv /\ [RegistryNext]_registryVars => RegistryInv'
  BY RegistryNextInv
<1> QED BY <1>1, <1>2, PTL DEF RegistrySpec

\* Type correctness of the event registry.
THEOREM RegistryTypeCorrect == RegistrySpec => []RegistryTypeOK
<1>1. RegistryInv => RegistryTypeOK
  BY DEF RegistryInv
<1> QED BY <1>1, RegistryInvariance, PTL

\* prototype.js L4432-4570: what listens is exactly what can be stopped, and
\* an event calls a handler at most once for an element and a name, whatever
\* the handlers observe, stop and fire meanwhile.
THEOREM HandlersCalledRight == RegistrySpec => []HandlersAreCalledRight
<1> QED BY RegistryFacts, RegistryInvariance, PTL

----------------------------------------------------------------------------
(***************************************************************************)
(* Proofs about AjaxRequests for any number of requests and texts.  The    *)
(* argument: a request that is not complete has called nothing and told    *)
(* nobody, and only such a request is let through to complete; so the      *)
(* responders count those that have not told them, which are the requests  *)
(* under way until something raises.  And whenever a request of the        *)
(* updater can still be answered and reschedule it, it is the last one,    *)
(* the updater goes on (it runs, or was stopped too early) and its timer   *)
(* is not set.                                                             *)
(***************************************************************************)

Logs == {<<>>, <<"Outcome">>, <<"Outcome", "Complete">>}

\* What holds of one request.
RequestInv(q) ==
    /\ q.kind = "unused" => ~q.listening
    /\ ~q.complete => q.log = <<>> /\ q.told = 0
    /\ q.complete => q.told = 1 \/ q.broken
    /\ q.log \in Logs

\* The requests that the responders have not heard the end of.
Unheard == {r \in Requests : req[r].kind # "unused" /\ req[r].told = 0}

CountInv ==
    /\ count >= Cardinality(Unheard)
    /\ clean => count = Cardinality(Unheard) /\ \A r \in Requests : ~req[r].broken

\* An answer to q would be read, and reschedule the updater.
Reschedules(q) ==
    /\ q.kind = "periodical" /\ q.onComplete
    /\ q.listening /\ ~q.complete /\ ~({"Response", "Exception"} \subseteq q.throws)
    /\ q.ready > 0 /\ "send" \notin q.throws

\* Stopped by nobody, or by a call that reached the request before.
GoesOn == periodic.running \/ periodic.early

PollInv ==
    /\ \A r \in Requests : Reschedules(req[r]) => GoesOn /\ r = periodic.updater
    /\ periodic.timer => GoesOn /\ \A r \in Requests : ~Reschedules(req[r])

RequestsInv ==
    /\ Sp!Ajax!TypeOK
    /\ \A r \in Requests : RequestInv(req[r])
    /\ CountInv
    /\ PollInv

\* The instance of AjaxRequests has the same cardinalities.
LEMMA RequestsAreFinite == ASSUME Sp!Ajax!AjaxAssumption PROVE IsFiniteSet(Requests)
BY Zenon DEF Sp!Ajax!AjaxAssumption, Sp!Ajax!IsFiniteSet, IsFiniteSet

LEMMA SameCardinality == ASSUME NEW S PROVE Sp!Ajax!Cardinality(S) = Cardinality(S)
BY Zenon DEF Sp!Ajax!Cardinality, Cardinality

----------------------------------------------------------------------------
(* What the browser's report of the last state does to one request. *)

LEMMA LoggedType ==
  ASSUME NEW q \in Sp!Ajax!AjaxRequest, q.log = <<>>
  PROVE  Sp!Ajax!Logged(q, 4) \in Logs /\ Sp!Ajax!Logged(q, 4) \in Seq({"Outcome", "Complete"})
<1>1. /\ <<"Outcome", "Complete">> \in Seq({"Outcome", "Complete"})
      /\ <<"Outcome">> \in Seq({"Outcome", "Complete"})
  OBVIOUS
<1>2. /\ <<>> \o <<"Outcome", "Complete">> = <<"Outcome", "Complete">>
      /\ <<>> \o <<"Outcome">> = <<"Outcome">>
  BY <1>1, ConcatEmptySeq
<1>3. Sp!Ajax!Logged(q, 4) \in {<<"Outcome", "Complete">>, <<"Outcome">>}
  BY <1>2 DEF Sp!Ajax!Logged
<1> QED BY <1>1, <1>3 DEF Logs

LEMMA HeardRead ==
  ASSUME NEW q \in Sp!Ajax!AjaxRequest, RequestInv(q), Sp!Ajax!Read(q, 4)
  PROVE  \E tells \in 0..1, listens \in BOOLEAN, broken \in BOOLEAN, log \in Logs :
            /\ Sp!Ajax!Heard(q, 4) = [q EXCEPT !.complete = TRUE, !.log = log, !.told = tells,
                                  !.broken = broken, !.listening = listens]
            /\ q.listening /\ ~q.complete /\ q.told = 0
            /\ log \in Seq({"Outcome", "Complete"})
            /\ (listens => q.listening) /\ (q.broken => broken)
            /\ tells = 1 \/ broken
<1>1. q.listening /\ ~q.complete /\ q.log = <<>> /\ q.told = 0
  BY DEF Sp!Ajax!Read, Sp!Ajax!Hears, RequestInv
<1>2. Sp!Ajax!Logged(q, 4) \in Logs /\ Sp!Ajax!Logged(q, 4) \in Seq({"Outcome", "Complete"})
  BY <1>1, LoggedType
<1>3. (Sp!Ajax!Tells(q, 4) \in BOOLEAN) /\ (Sp!Ajax!Stays(q, 4) \in BOOLEAN)
  BY DEF Sp!Ajax!Tells, Sp!Ajax!Stays, Sp!Ajax!Reached, Sp!Ajax!Raises, Sp!Ajax!Calls, Sp!Ajax!Escapes, Sp!Ajax!AjaxRequest
<1>4. /\ (q.complete \/ 4 = 4) = TRUE
      /\ (q.told + IF 4 = 4 /\ Sp!Ajax!Tells(q, 4) THEN 1 ELSE 0) = (IF Sp!Ajax!Tells(q, 4) THEN 1 ELSE 0)
  BY <1>1
<1>5. Sp!Ajax!Heard(q, 4) = [q EXCEPT !.complete = q.complete \/ 4 = 4, !.log = Sp!Ajax!Logged(q, 4),
             !.told = q.told + IF 4 = 4 /\ Sp!Ajax!Tells(q, 4) THEN 1 ELSE 0,
             !.broken = q.broken \/ ~Sp!Ajax!Tells(q, 4), !.listening = q.listening /\ Sp!Ajax!Stays(q, 4)]
  BY DEF Sp!Ajax!Heard, Sp!Ajax!Responded, Sp!Ajax!AjaxRequest
<1>6. Sp!Ajax!Heard(q, 4) = [q EXCEPT !.complete = TRUE, !.log = Sp!Ajax!Logged(q, 4),
             !.told = IF Sp!Ajax!Tells(q, 4) THEN 1 ELSE 0,
             !.broken = q.broken \/ ~Sp!Ajax!Tells(q, 4), !.listening = q.listening /\ Sp!Ajax!Stays(q, 4)]
  BY <1>4, <1>5
<1> DEFINE tells == IF Sp!Ajax!Tells(q, 4) THEN 1 ELSE 0
           broken == q.broken \/ ~Sp!Ajax!Tells(q, 4)
           listens == q.listening /\ Sp!Ajax!Stays(q, 4)
<1>7. tells \in 0..1 /\ broken \in BOOLEAN /\ listens \in BOOLEAN
  BY <1>3 DEF Sp!Ajax!AjaxRequest
<1>8. (listens => q.listening) /\ (q.broken => broken) /\ (tells = 1 \/ broken)
  OBVIOUS
<1> HIDE DEF tells, broken, listens
<1>9. Sp!Ajax!Heard(q, 4) = [q EXCEPT !.complete = TRUE, !.log = Sp!Ajax!Logged(q, 4), !.told = tells,
                              !.broken = broken, !.listening = listens]
  BY <1>6 DEF tells, broken, listens
<1> QED BY <1>1, <1>2, <1>7, <1>8, <1>9, Zenon

LEMMA HeardFacts ==
  ASSUME NEW q \in Sp!Ajax!AjaxRequest, RequestInv(q), NEW h, h = Sp!Ajax!Heard(q, 4)
  PROVE  /\ h \in Sp!Ajax!AjaxRequest /\ RequestInv(h)
         /\ h.kind = q.kind /\ h.throws = q.throws /\ h.stops = q.stops /\ h.ready = q.ready
         /\ h.onComplete = q.onComplete /\ h.deferred = q.deferred
         /\ q.broken => h.broken
         /\ q.complete => h.complete /\ h.told = q.told
         /\ h.told # q.told => h.told = 1 /\ q.told = 0 /\ q.listening
         /\ h.listening => q.listening
         /\ Sp!Ajax!Read(q, 4) => h.complete
<1>1. CASE Sp!Ajax!Read(q, 4)
  <2>1. PICK tells \in 0..1, listens \in BOOLEAN, broken \in BOOLEAN, log \in Logs :
            /\ h = [q EXCEPT !.complete = TRUE, !.log = log, !.told = tells,
                             !.broken = broken, !.listening = listens]
            /\ q.listening /\ ~q.complete /\ q.told = 0
            /\ log \in Seq({"Outcome", "Complete"})
            /\ (listens => q.listening) /\ (q.broken => broken)
            /\ tells = 1 \/ broken
    BY <1>1, HeardRead, ZenonT(60)
  <2>2. /\ h \in Sp!Ajax!AjaxRequest
        /\ h.complete = TRUE /\ h.log = log /\ h.told = tells
        /\ h.broken = broken /\ h.listening = listens
        /\ h.kind = q.kind /\ h.throws = q.throws /\ h.stops = q.stops /\ h.ready = q.ready
        /\ h.onComplete = q.onComplete /\ h.deferred = q.deferred
    <3>1. h = [kind |-> q.kind, throws |-> q.throws, stops |-> q.stops, ready |-> q.ready,
               complete |-> TRUE, deferred |-> q.deferred, listening |-> listens,
               onComplete |-> q.onComplete, log |-> log, told |-> tells, broken |-> broken]
      BY <2>1 DEF Sp!Ajax!AjaxRequest
    <3>2. h \in Sp!Ajax!AjaxRequest
      <4>1. TRUE \in BOOLEAN
        OBVIOUS
      <4> QED BY <2>1, <3>1, <4>1, ZenonT(60) DEF Sp!Ajax!AjaxRequest
    <3> QED BY <3>1, <3>2
  <2>3. RequestInv(h)
    BY <2>1, <2>2 DEF RequestInv
  <2> QED BY <2>1, <2>2, <2>3
<1>2. CASE ~Sp!Ajax!Read(q, 4)
  <2>1. Sp!Ajax!Hears(q, 4) \in BOOLEAN
    BY DEF Sp!Ajax!Hears, Sp!Ajax!AjaxRequest
  <2>2. PICK broken \in BOOLEAN : h = [q EXCEPT !.broken = broken] /\ (q.broken => broken)
    <3> DEFINE broken == q.broken \/ Sp!Ajax!Hears(q, 4)
    <3>1. broken \in BOOLEAN /\ (q.broken => broken)
      BY <2>1 DEF Sp!Ajax!AjaxRequest
    <3>2. h = [q EXCEPT !.broken = broken]
      BY <1>2 DEF Sp!Ajax!Heard
    <3> HIDE DEF broken
    <3> QED BY <3>1, <3>2
  <2>3. /\ h \in Sp!Ajax!AjaxRequest
        /\ h.complete = q.complete /\ h.log = q.log /\ h.told = q.told
        /\ h.broken = broken /\ h.listening = q.listening
        /\ h.kind = q.kind /\ h.throws = q.throws /\ h.stops = q.stops /\ h.ready = q.ready
        /\ h.onComplete = q.onComplete /\ h.deferred = q.deferred
    BY <2>2 DEF Sp!Ajax!AjaxRequest
  <2>4. RequestInv(h)
    BY <2>2, <2>3 DEF RequestInv
  <2> QED BY <1>2, <2>2, <2>3, <2>4
<1> QED BY <1>1, <1>2

----------------------------------------------------------------------------
(* What making a request does, up to the return of the call. *)

\* The request as it is sent.
SentBy(ofKind, throws, stops, asynchronous) ==
    Sp!Ajax!Sent([Sp!Ajax!Unused EXCEPT !.kind = ofKind, !.throws = throws, !.stops = stops, !.onComplete = TRUE],
         asynchronous)

LEMMA SentFacts ==
  ASSUME NEW throws \in Sp!Ajax!Failures, NEW ofKind \in {"request", "periodical"},
         NEW stops \in Sp!Ajax!Stops, NEW asynchronous \in BOOLEAN,
         NEW sent, sent = SentBy(ofKind, throws, stops, asynchronous)
  PROVE  /\ sent \in Sp!Ajax!AjaxRequest /\ RequestInv(sent)
         /\ sent.kind = ofKind /\ sent.throws = throws /\ sent.stops = stops /\ sent.told = 0
         /\ ~sent.complete /\ sent.log = <<>>
         /\ Reschedules(sent) => ofKind = "periodical" /\ throws \cap {"open", "send"} = {}
         /\ ~sent.broken => sent.listening
         /\ sent.broken => ~Reschedules(sent)
<1>1. PICK broken \in BOOLEAN, opened \in BOOLEAN, deferred \in BOOLEAN, ready \in {0, 1} :
         /\ sent = [kind |-> ofKind, throws |-> throws, stops |-> stops, ready |-> ready,
               complete |-> FALSE, deferred |-> deferred, listening |-> opened,
               onComplete |-> TRUE, log |-> <<>>, told |-> 0, broken |-> broken]
         /\ opened <=> "open" \notin throws
         /\ broken <=> throws \cap {"open", "send"} # {}
  <2> DEFINE opened == "open" \notin throws
             broken == throws \cap {"open", "send"} # {}
             deferred == opened /\ asynchronous
             ready == IF opened THEN 1 ELSE 0
  <2>1. opened \in BOOLEAN /\ broken \in BOOLEAN /\ deferred \in BOOLEAN /\ ready \in {0, 1}
    OBVIOUS
  <2>2. sent = [kind |-> ofKind, throws |-> throws, stops |-> stops, ready |-> ready,
               complete |-> FALSE, deferred |-> deferred, listening |-> opened,
               onComplete |-> TRUE, log |-> <<>>, told |-> 0, broken |-> broken]
    BY DEF SentBy, Sp!Ajax!Sent, Sp!Ajax!Unused
  <2>3. (opened <=> "open" \notin throws) /\ (broken <=> throws \cap {"open", "send"} # {})
    OBVIOUS
  <2> HIDE DEF opened, broken, deferred, ready
  <2> QED BY <2>1, <2>2, <2>3, Zenon
<1>2. <<>> \in Seq({"Outcome", "Complete"}) /\ <<>> \in Logs
  BY EmptySeq DEF Logs
<1>3. sent \in Sp!Ajax!AjaxRequest
  <2>1. /\ ofKind \in {"unused", "request", "periodical"} /\ ready \in {0, 1, 4}
        /\ 0 \in 0..1 /\ FALSE \in BOOLEAN /\ TRUE \in BOOLEAN
    OBVIOUS
  <2>2. PICK log : log = <<>>
    OBVIOUS
  <2>3. log \in Seq({"Outcome", "Complete"})
    BY <1>2, <2>2
  <2>4. sent = [kind |-> ofKind, throws |-> throws, stops |-> stops, ready |-> ready,
               complete |-> FALSE, deferred |-> deferred, listening |-> opened,
               onComplete |-> TRUE, log |-> log, told |-> 0, broken |-> broken]
    BY <1>1, <2>2
  <2> QED BY <2>1, <2>3, <2>4 DEF Sp!Ajax!AjaxRequest
<1>4. RequestInv(sent)
  BY <1>1, <1>2 DEF RequestInv
<1> QED BY <1>1, <1>3, <1>4 DEF Reschedules

LEMMA ReadyIsSet ==
  ASSUME NEW q \in Sp!Ajax!AjaxRequest, RequestInv(q), NEW h, h = [q EXCEPT !.ready = 4]
  PROVE  /\ h \in Sp!Ajax!AjaxRequest /\ RequestInv(h)
         /\ h.kind = q.kind /\ h.throws = q.throws /\ h.told = q.told /\ h.broken = q.broken
         /\ h.complete = q.complete /\ h.listening = q.listening /\ h.stops = q.stops
         /\ h.onComplete = q.onComplete /\ h.deferred = q.deferred /\ h.log = q.log
         /\ h.ready = 4
<1>1. /\ h \in Sp!Ajax!AjaxRequest
      /\ h.kind = q.kind /\ h.throws = q.throws /\ h.told = q.told /\ h.broken = q.broken
      /\ h.complete = q.complete /\ h.listening = q.listening /\ h.stops = q.stops
      /\ h.onComplete = q.onComplete /\ h.deferred = q.deferred /\ h.log = q.log
      /\ h.ready = 4
  BY DEF Sp!Ajax!AjaxRequest
<1> QED BY <1>1 DEF RequestInv

\* A request of either kind is typed and orderly when the call returns, and a
\* synchronous one will not be read again.
LEMMA MadeFacts ==
  ASSUME NEW throws \in Sp!Ajax!Failures, NEW ofKind \in {"request", "periodical"},
         NEW stops \in Sp!Ajax!Stops, NEW asynchronous \in BOOLEAN,
         NEW fresh, fresh = Sp!Ajax!Made(ofKind, throws, stops, asynchronous)
  PROVE  /\ fresh \in Sp!Ajax!AjaxRequest /\ RequestInv(fresh)
         /\ fresh.kind = ofKind /\ fresh.throws = throws /\ fresh.stops = stops
         /\ Reschedules(fresh) => asynchronous /\ ofKind = "periodical"
         /\ Reschedules(fresh) => throws \cap {"open", "send"} = {}
         /\ asynchronous => fresh.told = 0 /\ fresh.log = <<>>
<1> DEFINE sent == SentBy(ofKind, throws, stops, asynchronous)
           answered == [sent EXCEPT !.ready = 4]
           done == IF asynchronous \/ sent.broken THEN sent ELSE Sp!Ajax!Heard(answered, 4)
<1>1. fresh = IF asynchronous \/ sent.broken THEN done ELSE Sp!Ajax!Heard(done, 4)
  BY DEF Sp!Ajax!Made, SentBy
<1>2. /\ sent \in Sp!Ajax!AjaxRequest /\ RequestInv(sent)
      /\ sent.kind = ofKind /\ sent.throws = throws /\ sent.stops = stops /\ sent.told = 0
      /\ ~sent.complete /\ sent.log = <<>>
      /\ Reschedules(sent) => ofKind = "periodical" /\ throws \cap {"open", "send"} = {}
      /\ ~sent.broken => sent.listening
      /\ sent.broken => ~Reschedules(sent)
  BY SentFacts
<1> HIDE DEF sent
<1>3. CASE asynchronous \/ sent.broken
  <2>1. fresh = sent
    BY <1>1, <1>3
  <2> QED BY <1>2, <1>3, <2>1
<1>4. CASE ~asynchronous /\ ~sent.broken
  <2>1. /\ answered \in Sp!Ajax!AjaxRequest /\ RequestInv(answered)
        /\ answered.kind = ofKind /\ answered.throws = throws /\ answered.stops = stops
        /\ answered.listening /\ ~answered.complete
    BY <1>2, <1>4, ReadyIsSet
  <2> HIDE DEF answered
  <2>2. done = Sp!Ajax!Heard(answered, 4) /\ fresh = Sp!Ajax!Heard(done, 4)
    BY <1>1, <1>4
  <2> HIDE DEF done
  <2>3. /\ done \in Sp!Ajax!AjaxRequest /\ RequestInv(done)
        /\ done.kind = ofKind /\ done.throws = throws /\ done.stops = stops
        /\ Sp!Ajax!Read(answered, 4) => done.complete
    BY <2>1, <2>2, HeardFacts
  <2>4. /\ fresh \in Sp!Ajax!AjaxRequest /\ RequestInv(fresh)
        /\ fresh.kind = ofKind /\ fresh.throws = throws /\ fresh.stops = stops
        /\ done.complete => fresh.complete
    BY <2>2, <2>3, HeardFacts
  <2>5. Sp!Ajax!Read(answered, 4) <=> ~({"Response", "Exception"} \subseteq throws)
    BY <2>1 DEF Sp!Ajax!Read, Sp!Ajax!Hears, Sp!Ajax!Escapes
  <2>6. ~Reschedules(fresh)
    BY <2>3, <2>4, <2>5 DEF Reschedules
  <2> QED BY <1>4, <2>4, <2>6
<1> QED BY <1>3, <1>4

----------------------------------------------------------------------------
(* The requests the responders count. *)

LEMMA OneMore ==
  ASSUME Sp!Ajax!AjaxAssumption, NEW r \in Requests, NEW U \in SUBSET Requests,
         NEW V \in SUBSET Requests, U \ {r} = V \ {r}
  PROVE  /\ Cardinality(U) \in Nat /\ Cardinality(V) \in Nat
         /\ (r \in U <=> r \in V) => Cardinality(V) = Cardinality(U)
         /\ r \notin U /\ r \in V => Cardinality(V) = Cardinality(U) + 1
         /\ r \in U /\ r \notin V => Cardinality(V) = Cardinality(U) - 1
<1>1. IsFiniteSet(U) /\ IsFiniteSet(V)
  BY FS_Subset, RequestsAreFinite
<1>2. Cardinality(U) \in Nat /\ Cardinality(V) \in Nat
  BY <1>1, FS_CardinalityType
<1>3. (r \in U <=> r \in V) => U = V
  OBVIOUS
<1>4. ASSUME r \notin U, r \in V PROVE Cardinality(V) = Cardinality(U) + 1
  <2>1. V = U \cup {r}
    BY <1>4
  <2> QED BY <1>1, <1>4, <2>1, FS_AddElement
<1>5. ASSUME r \in U, r \notin V PROVE Cardinality(V) = Cardinality(U) - 1
  <2>1. U = V \cup {r}
    BY <1>5
  <2>2. Cardinality(U) = Cardinality(V) + 1
    BY <1>1, <1>5, <2>1, FS_AddElement
  <2> QED BY <1>2, <2>2
<1> QED BY <1>2, <1>3, <1>4, <1>5

\* One request changes; the count goes up by one for a request the responders
\* do not count yet, and down by one if it tells them.
LEMMA CountStep ==
  ASSUME Sp!Ajax!AjaxAssumption, Sp!Ajax!TypeOK, CountInv, NEW r \in Requests, NEW added \in 0..1,
         req' \in [Requests -> Sp!Ajax!AjaxRequest],
         \A w \in Requests \ {r} :
            /\ req'[w].kind = req[w].kind /\ req'[w].told = req[w].told
            /\ req'[w].broken = req[w].broken,
         req'[r].kind # "unused",
         r \notin Unheard => added = 1,
         clean /\ r \in Unheard => added = 0,
         count' = count + added - req'[r].told,
         clean' => clean /\ ~req'[r].broken
  PROVE  CountInv' /\ count' \in Nat
<1>1. Unheard \ {r} = Unheard' \ {r} /\ Unheard \in SUBSET Requests /\ Unheard' \in SUBSET Requests
  BY DEF Unheard
<1>2. /\ Cardinality(Unheard) \in Nat /\ Cardinality(Unheard') \in Nat
      /\ (r \in Unheard <=> r \in Unheard') => Cardinality(Unheard') = Cardinality(Unheard)
      /\ r \notin Unheard /\ r \in Unheard' => Cardinality(Unheard') = Cardinality(Unheard) + 1
      /\ r \in Unheard /\ r \notin Unheard' => Cardinality(Unheard') = Cardinality(Unheard) - 1
  BY <1>1, OneMore
<1>3. req'[r].told \in 0..1 /\ (r \in Unheard' <=> req'[r].told = 0)
  BY DEF Unheard, Sp!Ajax!AjaxRequest
<1>4. count \in Nat /\ count >= Cardinality(Unheard) /\ (clean => count = Cardinality(Unheard))
  BY DEF Sp!Ajax!TypeOK, CountInv
<1>5. count' \in Nat /\ count' >= Cardinality(Unheard')
  BY <1>2, <1>3, <1>4
<1>6. clean' => count' = Cardinality(Unheard')
  BY <1>2, <1>3, <1>4
<1>7. clean' => \A w \in Requests : ~req'[w].broken
  BY DEF CountInv
<1> QED BY <1>5, <1>6, <1>7 DEF CountInv

\* Nothing the responders hear of changes.
LEMMA CountStays ==
  ASSUME CountInv, UNCHANGED <<count, clean>>,
         \A w \in Requests :
            /\ req'[w].kind = req[w].kind /\ req'[w].told = req[w].told
            /\ req'[w].broken = req[w].broken
  PROVE  CountInv'
<1>1. Unheard' = Unheard
  BY DEF Unheard
<1> QED BY <1>1 DEF CountInv

----------------------------------------------------------------------------
(* Stopping the updater. *)

\* All that is silenced is the completion of the updater's last request; if
\* the updater is stopped, no answer reschedules it.
LEMMA SilencedFacts ==
  ASSUME RequestsInv, NEW stopping \in BOOLEAN, stopping => periodic.updater # NoRequest,
         NEW s, s = Sp!Ajax!Silenced(stopping)
  PROVE  /\ s \in [Requests -> Sp!Ajax!AjaxRequest]
         /\ \A w \in Requests :
               /\ s[w].kind = req[w].kind /\ s[w].told = req[w].told
               /\ s[w].broken = req[w].broken /\ s[w].complete = req[w].complete
               /\ s[w].listening = req[w].listening /\ s[w].log = req[w].log
               /\ s[w].throws = req[w].throws /\ s[w].ready = req[w].ready
               /\ s[w].onComplete => req[w].onComplete
               /\ RequestInv(s[w])
               /\ Reschedules(s[w]) => Reschedules(req[w]) /\ ~stopping
<1>1. /\ req \in [Requests -> Sp!Ajax!AjaxRequest]
      /\ periodic.updater \in Requests \cup {NoRequest}
      /\ \A w \in Requests : RequestInv(req[w])
      /\ \A w \in Requests : Reschedules(req[w]) => w = periodic.updater
  BY DEF RequestsInv, Sp!Ajax!TypeOK, PollInv
<1>2. CASE stopping /\ req[periodic.updater].kind = "periodical"
  <2>1. periodic.updater \in Requests
    BY <1>1, <1>2
  <2>2. s = [req EXCEPT ![periodic.updater] = [req[periodic.updater] EXCEPT !.onComplete = FALSE]]
    BY <1>2 DEF Sp!Ajax!Silenced
  <2> DEFINE q == req[periodic.updater]
             h == [q EXCEPT !.onComplete = FALSE]
  <2>3. q \in Sp!Ajax!AjaxRequest
    BY <1>1, <2>1
  <2> HIDE DEF q
  <2>4. /\ h \in Sp!Ajax!AjaxRequest /\ h.kind = q.kind /\ h.told = q.told /\ h.broken = q.broken
        /\ h.complete = q.complete /\ h.listening = q.listening /\ h.log = q.log
        /\ h.throws = q.throws /\ h.ready = q.ready /\ h.onComplete = FALSE
    BY <2>3 DEF Sp!Ajax!AjaxRequest
  <2> HIDE DEF h
  <2>5. s = [req EXCEPT ![periodic.updater] = h]
    BY <2>2 DEF h, q
  <2>6. s[periodic.updater] = h /\ s \in [Requests -> Sp!Ajax!AjaxRequest]
        /\ \A w \in Requests \ {periodic.updater} : s[w] = req[w]
    BY <1>1, <2>1, <2>4, <2>5
  <2>7. \A w \in Requests :
               /\ s[w].kind = req[w].kind /\ s[w].told = req[w].told
               /\ s[w].broken = req[w].broken /\ s[w].complete = req[w].complete
               /\ s[w].listening = req[w].listening /\ s[w].log = req[w].log
               /\ s[w].throws = req[w].throws /\ s[w].ready = req[w].ready
               /\ s[w].onComplete => req[w].onComplete /\ w # periodic.updater
    BY <2>4, <2>6 DEF q
  <2> QED BY <1>1, <2>6, <2>7 DEF RequestInv, Reschedules
<1>3. CASE ~stopping
  BY <1>1, <1>3 DEF Sp!Ajax!Silenced
<1>4. CASE stopping /\ req[periodic.updater].kind # "periodical"
  BY <1>1, <1>4 DEF Sp!Ajax!Silenced, Reschedules
<1> QED BY <1>2, <1>3, <1>4

----------------------------------------------------------------------------
(* The steps. *)

\* Only the updater's own requests stop it, and they have one to silence.
LEMMA CreateFacts ==
  ASSUME Sp!Ajax!AjaxAssumption, RequestsInv, NEW r \in Requests, NEW ofKind \in {"request", "periodical"},
         NEW stops \in Sp!Ajax!Stops, NEW asynchronous \in BOOLEAN,
         stops = "create" \/ (stops = "outcome" /\ ~asynchronous) => periodic.updater # NoRequest,
         Sp!Ajax!Create(r, ofKind, stops, asynchronous)
  PROVE  /\ req' \in [Requests -> Sp!Ajax!AjaxRequest]
         /\ \A w \in Requests : RequestInv(req'[w])
         /\ \A w \in Requests \ {r} : Reschedules(req'[w]) => Reschedules(req[w])
         /\ Reschedules(req'[r]) => asynchronous /\ ofKind = "periodical"
         /\ Reschedules(req'[r]) => \A at \in {"open", "send"} : ~Sp!Ajax!Escapes(req'[r], at)
         /\ asynchronous => req'[r].told = 0
         /\ CountInv' /\ count' \in 0..MaxCount /\ clean' \in BOOLEAN
         /\ count' = count + 1 - req'[r].told
<1>1. /\ req \in [Requests -> Sp!Ajax!AjaxRequest] /\ count \in 0..MaxCount /\ clean \in BOOLEAN
      /\ MaxCount \in Nat /\ count < MaxCount /\ Sp!Ajax!Finished(req[r]) /\ RequestInv(req[r])
      /\ CountInv /\ Sp!Ajax!TypeOK
  BY DEF RequestsInv, Sp!Ajax!TypeOK, Sp!Ajax!AjaxAssumption, Sp!Ajax!Create
<1>2. PICK throws \in Sp!Ajax!OneFault :
         LET fresh == Sp!Ajax!Made(ofKind, throws, stops, asynchronous)
         IN  /\ req' = [Sp!Ajax!Silenced(Sp!Ajax!StopsEarly(fresh)) EXCEPT ![r] = fresh]
             /\ count' = count + 1 - fresh.told
             /\ clean' = (clean /\ ~fresh.broken)
  BY DEF Sp!Ajax!Create
<1>3. throws \in Sp!Ajax!Failures
  BY DEF Sp!Ajax!OneFault, Sp!Ajax!Failures
<1>4. PICK fresh : fresh = Sp!Ajax!Made(ofKind, throws, stops, asynchronous)
  OBVIOUS
<1>5. /\ fresh \in Sp!Ajax!AjaxRequest /\ RequestInv(fresh)
      /\ fresh.kind = ofKind /\ fresh.throws = throws /\ fresh.stops = stops
      /\ Reschedules(fresh) => asynchronous /\ ofKind = "periodical"
      /\ Reschedules(fresh) => throws \cap {"open", "send"} = {}
      /\ asynchronous => fresh.told = 0 /\ fresh.log = <<>>
  BY <1>3, <1>4, MadeFacts
<1>6. PICK stopping \in BOOLEAN : stopping = Sp!Ajax!StopsEarly(fresh)
  BY DEF Sp!Ajax!StopsEarly
<1>7. PICK s : s = Sp!Ajax!Silenced(stopping)
  OBVIOUS
<1>8. stopping => periodic.updater # NoRequest
  BY <1>5, <1>6 DEF Sp!Ajax!StopsEarly
<1>9. /\ s \in [Requests -> Sp!Ajax!AjaxRequest]
      /\ \A w \in Requests :
            /\ s[w].kind = req[w].kind /\ s[w].told = req[w].told /\ s[w].broken = req[w].broken
            /\ RequestInv(s[w])
            /\ Reschedules(s[w]) => Reschedules(req[w])
  BY <1>7, <1>8, SilencedFacts
<1>10. /\ req' = [s EXCEPT ![r] = fresh]
       /\ count' = count + 1 - fresh.told
       /\ clean' = (clean /\ ~fresh.broken)
  BY <1>2, <1>4, <1>6, <1>7
<1>11. /\ req' \in [Requests -> Sp!Ajax!AjaxRequest] /\ req'[r] = fresh
       /\ \A w \in Requests \ {r} : req'[w] = s[w]
  BY <1>5, <1>9, <1>10
<1>12. /\ count' = count + 1 - req'[r].told /\ req'[r].told \in 0..1 /\ req'[r].kind # "unused"
       /\ clean' => clean /\ ~req'[r].broken
  BY <1>5, <1>10, <1>11 DEF Sp!Ajax!AjaxRequest
<1>13. clean /\ r \in Unheard => 1 = 0
  BY <1>1 DEF CountInv, Sp!Ajax!Finished, RequestInv, Unheard
<1>14. \A w \in Requests \ {r} :
            /\ req'[w].kind = req[w].kind /\ req'[w].told = req[w].told
            /\ req'[w].broken = req[w].broken
  BY <1>9, <1>11
<1>15. CountInv' /\ count' \in Nat
  BY <1>1, <1>11, <1>12, <1>13, <1>14, CountStep
<1>16. count' \in 0..MaxCount /\ clean' \in BOOLEAN
  BY <1>1, <1>5, <1>10, <1>12, <1>15 DEF Sp!Ajax!AjaxRequest
<1>17. /\ \A w \in Requests : RequestInv(req'[w])
       /\ \A w \in Requests \ {r} : Reschedules(req'[w]) => Reschedules(req[w])
  BY <1>5, <1>9, <1>11
<1>18. Reschedules(req'[r]) => \A at \in {"open", "send"} : ~Sp!Ajax!Escapes(req'[r], at)
  BY <1>5, <1>11 DEF Sp!Ajax!Escapes
<1> QED BY <1>5, <1>11, <1>12, <1>15, <1>16, <1>17, <1>18

LEMMA RequestStep ==
  ASSUME Sp!Ajax!AjaxAssumption, RequestsInv, NEW r \in Requests, Sp!Ajax!Request(r)
  PROVE  RequestsInv' /\ count' = count + 1 - req'[r].told
<1>1. PICK asynchronous \in BOOLEAN : Sp!Ajax!Create(r, "request", "never", asynchronous)
  BY DEF Sp!Ajax!Request
<1>2. UNCHANGED <<periodic, container>>
  BY DEF Sp!Ajax!Request
<1>3. "never" \in Sp!Ajax!Stops
  BY DEF Sp!Ajax!Stops
<1>4. /\ req' \in [Requests -> Sp!Ajax!AjaxRequest]
      /\ \A w \in Requests : RequestInv(req'[w])
      /\ \A w \in Requests \ {r} : Reschedules(req'[w]) => Reschedules(req[w])
      /\ ~Reschedules(req'[r])
      /\ CountInv' /\ count' \in 0..MaxCount /\ clean' \in BOOLEAN
      /\ count' = count + 1 - req'[r].told
  BY <1>1, <1>3, CreateFacts
<1>5. Sp!Ajax!TypeOK'
  BY <1>2, <1>4 DEF RequestsInv, Sp!Ajax!TypeOK
<1>6. PollInv'
  BY <1>2, <1>4 DEF RequestsInv, PollInv, GoesOn
<1> QED BY <1>4, <1>5, <1>6 DEF RequestsInv

LEMMA PollStep ==
  ASSUME Sp!Ajax!AjaxAssumption, RequestsInv, NEW r \in Requests, Sp!Ajax!Poll(r),
         \A w \in Requests : ~Reschedules(req[w])
  PROVE  RequestsInv' /\ GoesOn'
<1>1. PICK stops \in Sp!Ajax!MayStop : Sp!Ajax!Create(r, "periodical", stops, periodic.asynchronous)
  BY DEF Sp!Ajax!Poll
<1>2. periodic \in [asynchronous : BOOLEAN, running : BOOLEAN, early : BOOLEAN,
                     timer : BOOLEAN, updater : Requests \cup {NoRequest}]
  BY DEF RequestsInv, Sp!Ajax!TypeOK
<1>3. /\ stops \in Sp!Ajax!Stops /\ periodic.asynchronous \in BOOLEAN
      /\ stops = "create" \/ (stops = "outcome" /\ ~periodic.asynchronous) => periodic.updater # NoRequest
  BY <1>2 DEF Sp!Ajax!MayStop, Sp!Ajax!Stops
<1>4. /\ req' \in [Requests -> Sp!Ajax!AjaxRequest]
      /\ \A w \in Requests : RequestInv(req'[w])
      /\ \A w \in Requests \ {r} : Reschedules(req'[w]) => Reschedules(req[w])
      /\ Reschedules(req'[r]) => periodic.asynchronous
      /\ Reschedules(req'[r]) => \A at \in {"open", "send"} : ~Sp!Ajax!Escapes(req'[r], at)
      /\ periodic.asynchronous => req'[r].told = 0
      /\ CountInv' /\ count' \in 0..MaxCount /\ clean' \in BOOLEAN
  BY <1>1, <1>3, CreateFacts
<1>5. PICK updater \in Sp!Ajax!Updaters(r, req'[r]) :
         periodic' = [periodic EXCEPT !.running = ~(periodic.early \/ Sp!Ajax!StopsEarly(req'[r])),
                                      !.early = periodic.early \/ Sp!Ajax!StopsEarly(req'[r]),
                                      !.timer = (req'[r].told = 1), !.updater = updater]
  BY DEF Sp!Ajax!Poll
<1>6. /\ updater \in Requests \cup {NoRequest}
      /\ periodic.asynchronous /\ (\A at \in {"open", "send"} : ~Sp!Ajax!Escapes(req'[r], at)) => updater = r
  BY <1>2 DEF Sp!Ajax!Updaters
<1>7. Sp!Ajax!StopsEarly(req'[r]) \in BOOLEAN
  BY DEF Sp!Ajax!StopsEarly
<1>8. /\ periodic' \in [asynchronous : BOOLEAN, running : BOOLEAN, early : BOOLEAN,
                         timer : BOOLEAN, updater : Requests \cup {NoRequest}]
      /\ periodic'.running = ~periodic'.early /\ periodic'.updater = updater
      /\ periodic'.timer = (req'[r].told = 1)
  BY <1>2, <1>5, <1>6, <1>7
<1>9. container' \in Texts \cup {NoText}
  BY DEF Sp!Ajax!Poll, RequestsInv, Sp!Ajax!TypeOK
<1>10. Sp!Ajax!TypeOK'
  BY <1>4, <1>8, <1>9 DEF Sp!Ajax!TypeOK
<1>11. GoesOn' /\ PollInv'
  BY <1>4, <1>6, <1>8 DEF PollInv, GoesOn
<1> QED BY <1>4, <1>10, <1>11 DEF RequestsInv

LEMMA StopStep ==
  ASSUME Sp!Ajax!AjaxAssumption, RequestsInv, Sp!Ajax!Stop
  PROVE  RequestsInv'
<1>1. /\ periodic.updater # NoRequest /\ req' = Sp!Ajax!Silenced(TRUE) /\ periodic' = Sp!Ajax!Idle
      /\ UNCHANGED <<count, clean, container>>
  BY DEF Sp!Ajax!Stop
<1>2. PICK stopping \in BOOLEAN : stopping /\ req' = Sp!Ajax!Silenced(stopping)
  BY <1>1, Zenon
<1>3. PICK s : s = Sp!Ajax!Silenced(stopping)
  OBVIOUS
<1>4. /\ s \in [Requests -> Sp!Ajax!AjaxRequest]
      /\ \A w \in Requests :
            /\ s[w].kind = req[w].kind /\ s[w].told = req[w].told
            /\ s[w].broken = req[w].broken /\ RequestInv(s[w]) /\ ~Reschedules(s[w])
  <2>1. (stopping => periodic.updater # NoRequest) /\ s = Sp!Ajax!Silenced(stopping)
    BY <1>1, <1>2, <1>3, Zenon
  <2>2. s \in [Requests -> Sp!Ajax!AjaxRequest]
    BY <2>1, SilencedFacts
  <2>3. \A w \in Requests :
            /\ s[w].kind = req[w].kind /\ s[w].told = req[w].told
            /\ s[w].broken = req[w].broken /\ RequestInv(s[w])
    BY <2>1, SilencedFacts
  <2>4. \A w \in Requests : Reschedules(s[w]) => ~stopping
    BY <2>1, SilencedFacts
  <2> QED BY <1>2, <1>3, <2>2, <2>3, <2>4
<1>5. Sp!Ajax!TypeOK'
  BY <1>1, <1>2, <1>3, <1>4 DEF RequestsInv, Sp!Ajax!TypeOK, Sp!Ajax!Idle
<1>6. CountInv'
  BY <1>1, <1>2, <1>3, <1>4, CountStays DEF RequestsInv
<1>7. PollInv'
  BY <1>1, <1>2, <1>3, <1>4 DEF RequestsInv, Sp!Ajax!TypeOK, PollInv, GoesOn, Sp!Ajax!Idle
<1> QED BY <1>2, <1>3, <1>4, <1>5, <1>6, <1>7 DEF RequestsInv

LEMMA DeferredStep ==
  ASSUME Sp!Ajax!AjaxAssumption, RequestsInv, NEW r \in Requests, Sp!Ajax!DeferredLoading(r)
  PROVE  RequestsInv'
<1>1. /\ req' = [req EXCEPT ![r] = [Sp!Ajax!Responded(req[r], 1) EXCEPT !.deferred = FALSE]]
      /\ UNCHANGED <<count, clean, periodic, container>>
  BY DEF Sp!Ajax!DeferredLoading
<1>2. req \in [Requests -> Sp!Ajax!AjaxRequest] /\ req[r] \in Sp!Ajax!AjaxRequest
  BY DEF RequestsInv, Sp!Ajax!TypeOK
<1> DEFINE q == req[r]
           h == [Sp!Ajax!Responded(q, 1) EXCEPT !.deferred = FALSE]
<1> HIDE DEF q
<1>3. Sp!Ajax!Logged(q, 1) = q.log /\ Sp!Ajax!Tells(q, 1) /\ Sp!Ajax!Stays(q, 1)
  BY DEF Sp!Ajax!Logged, Sp!Ajax!Tells, Sp!Ajax!Stays, Sp!Ajax!Reached, Sp!Ajax!Raises, Sp!Ajax!Calls
<1>31. q \in Sp!Ajax!AjaxRequest
  BY <1>2 DEF q
<1>32. /\ (q.complete \/ 1 = 4) = q.complete
       /\ (q.told + IF 1 = 4 /\ Sp!Ajax!Tells(q, 1) THEN 1 ELSE 0) = q.told
       /\ (q.broken \/ ~Sp!Ajax!Tells(q, 1)) = q.broken
       /\ (q.listening /\ Sp!Ajax!Stays(q, 1)) = q.listening
  BY <1>3, <1>31 DEF Sp!Ajax!AjaxRequest
<1>33. Sp!Ajax!Responded(q, 1) =
         [q EXCEPT !.complete = q.complete \/ 1 = 4, !.log = Sp!Ajax!Logged(q, 1),
                   !.told = q.told + IF 1 = 4 /\ Sp!Ajax!Tells(q, 1) THEN 1 ELSE 0,
                   !.broken = q.broken \/ ~Sp!Ajax!Tells(q, 1),
                   !.listening = q.listening /\ Sp!Ajax!Stays(q, 1)]
  BY <1>31 DEF Sp!Ajax!Responded, Sp!Ajax!AjaxRequest
<1>34. Sp!Ajax!Responded(q, 1) = [q EXCEPT !.complete = q.complete, !.log = q.log, !.told = q.told,
                                   !.broken = q.broken, !.listening = q.listening]
  BY <1>3, <1>32, <1>33
<1>35. h = [q EXCEPT !.deferred = FALSE]
  BY <1>31, <1>34 DEF Sp!Ajax!AjaxRequest
<1>4. /\ h \in Sp!Ajax!AjaxRequest /\ h.kind = q.kind /\ h.told = q.told /\ h.broken = q.broken
      /\ h.complete = q.complete /\ h.listening = q.listening /\ h.log = q.log
      /\ h.throws = q.throws /\ h.ready = q.ready /\ h.onComplete = q.onComplete
  BY <1>31, <1>35 DEF Sp!Ajax!AjaxRequest
<1> HIDE DEF h
<1>5. req' = [req EXCEPT ![r] = h]
  BY <1>1 DEF h, q
<1>6. /\ req' \in [Requests -> Sp!Ajax!AjaxRequest] /\ req'[r] = h
      /\ \A w \in Requests \ {r} : req'[w] = req[w]
  BY <1>2, <1>4, <1>5
<1>7. /\ \A w \in Requests :
            /\ req'[w].kind = req[w].kind /\ req'[w].told = req[w].told
            /\ req'[w].broken = req[w].broken
      /\ \A w \in Requests : RequestInv(req'[w])
      /\ \A w \in Requests : Reschedules(req'[w]) => Reschedules(req[w])
  BY <1>4, <1>6 DEF RequestsInv, RequestInv, Reschedules, q
<1>8. Sp!Ajax!TypeOK'
  BY <1>1, <1>6 DEF RequestsInv, Sp!Ajax!TypeOK
<1>9. CountInv'
  BY <1>1, <1>7, CountStays DEF RequestsInv
<1>10. PollInv'
  BY <1>1, <1>7 DEF RequestsInv, PollInv, GoesOn
<1> QED BY <1>7, <1>8, <1>9, <1>10 DEF RequestsInv

\* The updater goes on only after an answer that would reschedule it, and a
\* callback that stops it keeps the answer from doing so.
LEMMA ChangeStep ==
  ASSUME Sp!Ajax!AjaxAssumption, RequestsInv, NEW r \in Requests, Sp!Ajax!StateChange(r)
  PROVE  /\ RequestsInv' /\ (container' = container \/ GoesOn')
         /\ count' = count + req[r].told - req'[r].told /\ req[r].told <= req'[r].told
<1>1. /\ req \in [Requests -> Sp!Ajax!AjaxRequest] /\ req[r] \in Sp!Ajax!AjaxRequest /\ RequestInv(req[r])
      /\ Sp!Ajax!TypeOK /\ CountInv /\ PollInv
      /\ req[r].ready > 0 /\ req[r].listening /\ "send" \notin req[r].throws
  BY SMTT(40) DEF RequestsInv, Sp!Ajax!TypeOK, Sp!Ajax!StateChange
<1>2. PICK answer \in Texts :
         LET reads == Sp!Ajax!Read(req[r], 4)
             stopping == reads /\ req[r].stops = "outcome" /\ periodic.updater # NoRequest
             q == [Sp!Ajax!Silenced(stopping)[r] EXCEPT !.ready = 4]
             heard == Sp!Ajax!Heard(q, 4)
             updates == reads /\ Sp!Ajax!Calls(q, 4) /\ ~Sp!Ajax!Raises(q, 4) /\ q.kind = "periodical"
         IN  /\ req' = [Sp!Ajax!Silenced(stopping) EXCEPT ![r] = heard]
             /\ count' = count + q.told - heard.told
             /\ clean' = (clean /\ ~heard.broken)
             /\ container' = IF updates THEN answer ELSE container
             /\ periodic' = Sp!Ajax!Rescheduled(updates, stopping)
  BY DEF Sp!Ajax!StateChange
<1>3. PICK stopping \in BOOLEAN :
         stopping = (Sp!Ajax!Read(req[r], 4) /\ req[r].stops = "outcome" /\ periodic.updater # NoRequest)
  OBVIOUS
<1>4. PICK s : s = Sp!Ajax!Silenced(stopping)
  OBVIOUS
<1>5. PICK q : q = [s[r] EXCEPT !.ready = 4]
  OBVIOUS
<1>6. PICK heard : heard = Sp!Ajax!Heard(q, 4)
  OBVIOUS
<1>7. PICK updates \in BOOLEAN :
         updates = (Sp!Ajax!Read(req[r], 4) /\ Sp!Ajax!Calls(q, 4) /\ ~Sp!Ajax!Raises(q, 4) /\ q.kind = "periodical")
  OBVIOUS
<1>8. /\ req' = [s EXCEPT ![r] = heard]
      /\ count' = count + q.told - heard.told
      /\ clean' = (clean /\ ~heard.broken)
      /\ container' = IF updates THEN answer ELSE container
      /\ periodic' = Sp!Ajax!Rescheduled(updates, stopping)
  BY <1>2, <1>3, <1>4, <1>5, <1>6, <1>7
<1>9. stopping => Sp!Ajax!Read(req[r], 4) /\ periodic.updater # NoRequest
  BY <1>3
<1>10. s \in [Requests -> Sp!Ajax!AjaxRequest] /\ s[r] \in Sp!Ajax!AjaxRequest
  BY <1>4, <1>9, SilencedFacts
<1>11. \A w \in Requests :
            /\ s[w].kind = req[w].kind /\ s[w].told = req[w].told
            /\ s[w].broken = req[w].broken /\ s[w].complete = req[w].complete
            /\ s[w].listening = req[w].listening
            /\ s[w].throws = req[w].throws /\ s[w].ready = req[w].ready
            /\ s[w].onComplete => req[w].onComplete
            /\ RequestInv(s[w])
  BY <1>4, <1>9, SilencedFacts
<1>12. \A w \in Requests : Reschedules(s[w]) => Reschedules(req[w]) /\ ~stopping
  BY <1>4, <1>9, SilencedFacts
<1>13. /\ q \in Sp!Ajax!AjaxRequest /\ RequestInv(q)
       /\ q.kind = req[r].kind /\ q.throws = req[r].throws /\ q.told = req[r].told
       /\ q.broken = req[r].broken /\ q.complete = req[r].complete
       /\ q.listening = req[r].listening /\ q.onComplete = s[r].onComplete
  BY <1>5, <1>10, <1>11, ReadyIsSet
<1>14. /\ heard \in Sp!Ajax!AjaxRequest /\ RequestInv(heard)
       /\ heard.kind = q.kind /\ heard.throws = q.throws /\ heard.onComplete = q.onComplete
       /\ q.broken => heard.broken
       /\ q.complete => heard.complete /\ heard.told = q.told
       /\ heard.told # q.told => heard.told = 1 /\ q.told = 0 /\ q.listening
       /\ heard.listening => q.listening
       /\ Sp!Ajax!Read(q, 4) => heard.complete
  BY <1>6, <1>13, HeardFacts
<1>15. Sp!Ajax!Read(q, 4) <=> Sp!Ajax!Read(req[r], 4)
  BY <1>13 DEF Sp!Ajax!Read, Sp!Ajax!Hears, Sp!Ajax!Escapes
<1>16. /\ req' \in [Requests -> Sp!Ajax!AjaxRequest] /\ req'[r] = heard
       /\ \A w \in Requests \ {r} : req'[w] = s[w]
  BY <1>8, <1>10, <1>14
<1>17. \A w \in Requests : RequestInv(req'[w])
  BY <1>11, <1>14, <1>16
<1>18. updates => Reschedules(req[r]) /\ ~stopping
  <2>1. SUFFICES ASSUME updates PROVE Reschedules(s[r])
    BY <1>12
  <2>2. Sp!Ajax!Read(req[r], 4) /\ q.onComplete /\ q.kind = "periodical"
    BY <1>7, <2>1 DEF Sp!Ajax!Calls
  <2> QED BY <1>1, <1>11, <1>13, <2>2 DEF Reschedules, Sp!Ajax!Read, Sp!Ajax!Hears, Sp!Ajax!Escapes
<1>19. Reschedules(heard) => Reschedules(s[r]) /\ ~Sp!Ajax!Read(req[r], 4)
  BY <1>1, <1>11, <1>13, <1>14, <1>15 DEF Reschedules
<1>20. CountInv' /\ count' \in Nat
  <2>1. q.told \in 0..1 /\ heard.kind # "unused"
    BY <1>1, <1>13, <1>14 DEF Sp!Ajax!AjaxRequest, RequestInv
  <2>2. /\ r \notin Unheard => q.told = 1
        /\ clean /\ r \in Unheard => q.told = 0
    BY <1>13, <1>14, <2>1 DEF Unheard
  <2>3. \A w \in Requests \ {r} :
            /\ req'[w].kind = req[w].kind /\ req'[w].told = req[w].told
            /\ req'[w].broken = req[w].broken
    BY <1>11, <1>16
  <2>4. /\ count' = count + q.told - req'[r].told /\ req'[r].kind # "unused"
        /\ clean' => clean /\ ~req'[r].broken
    BY <1>8, <1>16, <2>1
  <2> QED BY <1>1, <1>16, <2>1, <2>2, <2>3, <2>4, CountStep
<1>21. PollInv' /\ (updates => GoesOn')
  <2>1. CASE stopping
    <3>1. periodic'.timer = FALSE /\ ~updates
      BY <1>1, <1>8, <1>18, <2>1 DEF Sp!Ajax!Rescheduled, Sp!Ajax!Idle, Sp!Ajax!TypeOK
    <3>2. \A w \in Requests : ~Reschedules(req'[w])
      BY <1>12, <1>16, <1>19, <2>1
    <3> QED BY <3>1, <3>2 DEF PollInv, GoesOn
  <2>2. CASE ~stopping
    <3>1. /\ periodic'.running = periodic.running /\ periodic'.updater = periodic.updater
          /\ periodic'.early = periodic.early
          /\ periodic'.timer => periodic.timer \/ updates
      BY <1>1, <1>8, <2>2 DEF Sp!Ajax!Rescheduled, Sp!Ajax!TypeOK
    <3>2. \A w \in Requests : Reschedules(req'[w]) => Reschedules(req[w])
      BY <1>12, <1>16, <1>19
    <3>3. updates => GoesOn /\ \A w \in Requests : ~Reschedules(req'[w])
      BY <1>1, <1>7, <1>16, <1>18, <1>19, <3>2 DEF PollInv
    <3> QED BY <1>1, <3>1, <3>2, <3>3 DEF PollInv, GoesOn
  <2> QED BY <2>1, <2>2
<1>22. Sp!Ajax!TypeOK'
  <2>1. count' \in 0..MaxCount
    BY <1>1, <1>8, <1>13, <1>14, <1>20 DEF Sp!Ajax!TypeOK, Sp!Ajax!AjaxRequest, Sp!Ajax!AjaxAssumption
  <2>2. clean' \in BOOLEAN /\ container' \in Texts \cup {NoText}
    BY <1>1, <1>8 DEF Sp!Ajax!TypeOK
  <2>3. periodic' \in [asynchronous : BOOLEAN, running : BOOLEAN, early : BOOLEAN,
                       timer : BOOLEAN, updater : Requests \cup {NoRequest}]
    BY <1>1, <1>8 DEF Sp!Ajax!TypeOK, Sp!Ajax!Rescheduled, Sp!Ajax!Idle
  <2> QED BY <1>16, <2>1, <2>2, <2>3 DEF Sp!Ajax!TypeOK
<1>23. container' = container \/ GoesOn'
  BY <1>8, <1>21
<1>24. count' = count + req[r].told - req'[r].told /\ req[r].told <= req'[r].told
  <2>1. req[r].told \in 0..1
    BY <1>1 DEF Sp!Ajax!AjaxRequest
  <2> QED BY <1>8, <1>13, <1>14, <1>16, <2>1
<1> QED BY <1>17, <1>20, <1>21, <1>22, <1>23, <1>24 DEF RequestsInv

LEMMA UnusedFacts ==
  ASSUME Sp!Ajax!AjaxAssumption, NEW z, z = [r \in Requests |-> Sp!Ajax!Unused]
  PROVE  /\ z \in [Requests -> Sp!Ajax!AjaxRequest]
         /\ \A r \in Requests : RequestInv(z[r]) /\ ~Reschedules(z[r]) /\ z[r].kind = "unused" /\ ~z[r].broken
<1>1. Sp!Ajax!Unused \in Sp!Ajax!AjaxRequest
  <2>1. <<>> \in Seq({"Outcome", "Complete"}) /\ {} \in Sp!Ajax!Failures
    BY EmptySeq DEF Sp!Ajax!Failures
  <2>2. PICK log : log = <<>>
    OBVIOUS
  <2>3. Sp!Ajax!Unused = [kind |-> "unused", throws |-> {}, stops |-> "never", ready |-> 0,
           complete |-> FALSE, deferred |-> FALSE, listening |-> FALSE,
           onComplete |-> FALSE, log |-> log, told |-> 0, broken |-> FALSE]
    BY <2>2 DEF Sp!Ajax!Unused
  <2>4. log \in Seq({"Outcome", "Complete"})
    BY <2>1, <2>2
  <2>5. "never" \in Sp!Ajax!Stops
    BY DEF Sp!Ajax!Stops
  <2> QED BY <2>1, <2>3, <2>4, <2>5 DEF Sp!Ajax!AjaxRequest
<1>2. \A r \in Requests : RequestInv(z[r]) /\ ~Reschedules(z[r]) /\ z[r].kind = "unused" /\ ~z[r].broken
  BY DEF Sp!Ajax!Unused, RequestInv, Reschedules, Logs
<1> QED BY <1>1, <1>2

LEMMA RequestsInitInv == ASSUME Sp!Ajax!AjaxAssumption, Sp!Ajax!Init PROVE RequestsInv
<1>1. /\ req \in [Requests -> Sp!Ajax!AjaxRequest]
      /\ \A r \in Requests : RequestInv(req[r]) /\ ~Reschedules(req[r]) /\ req[r].kind = "unused" /\ ~req[r].broken
  BY UnusedFacts DEF Sp!Ajax!Init
<1>2. Sp!Ajax!TypeOK
  <2>1. periodic \in [asynchronous : BOOLEAN, running : BOOLEAN, early : BOOLEAN,
                      timer : BOOLEAN, updater : Requests \cup {NoRequest}]
    BY DEF Sp!Ajax!Init
  <2> QED BY <1>1, <2>1 DEF Sp!Ajax!Init, Sp!Ajax!TypeOK, Sp!Ajax!AjaxAssumption
<1>3. Unheard = {}
  BY <1>1 DEF Unheard
<1>4. CountInv
  BY <1>1, <1>3, FS_EmptySet DEF Sp!Ajax!Init, CountInv
<1>5. PollInv
  BY <1>1 DEF PollInv, Sp!Ajax!Init
<1> QED BY <1>1, <1>2, <1>4, <1>5 DEF RequestsInv

LEMMA RequestsStepInv ==
  ASSUME Sp!Ajax!AjaxAssumption, RequestsInv, [Sp!Ajax!Next]_(Sp!Ajax!vars)
  PROVE  RequestsInv' /\ Sp!Ajax!Silent
<1>1. RequestsInv' /\ (container' = container \/ GoesOn') => RequestsInv' /\ Sp!Ajax!Silent
  BY DEF RequestsInv, PollInv, Sp!Ajax!Silent, GoesOn
<1>2. CASE UNCHANGED Sp!Ajax!vars
  <2>1. RequestsInv'
    BY <1>2 DEF Sp!Ajax!vars, RequestsInv, Sp!Ajax!TypeOK, CountInv, Unheard, PollInv, GoesOn
  <2> QED BY <1>1, <1>2, <2>1 DEF Sp!Ajax!vars
<1>3. ASSUME NEW r \in Requests, Sp!Ajax!Request(r) PROVE RequestsInv' /\ Sp!Ajax!Silent
  BY <1>1, <1>3, RequestStep DEF Sp!Ajax!Request
<1>4. ASSUME NEW r \in Requests, Sp!Ajax!Start(r) PROVE RequestsInv' /\ Sp!Ajax!Silent
  <2>1. Sp!Ajax!Poll(r) /\ \A w \in Requests : ~Reschedules(req[w])
    BY <1>4 DEF Sp!Ajax!Start, RequestsInv, PollInv, GoesOn
  <2> QED BY <1>1, <2>1, PollStep
<1>5. ASSUME NEW r \in Requests, Sp!Ajax!TimerEvent(r) PROVE RequestsInv' /\ Sp!Ajax!Silent
  <2>1. Sp!Ajax!Poll(r) /\ \A w \in Requests : ~Reschedules(req[w])
    BY <1>5 DEF Sp!Ajax!TimerEvent, RequestsInv, PollInv
  <2> QED BY <1>1, <2>1, PollStep
<1>6. ASSUME NEW r \in Requests, Sp!Ajax!StateChange(r) PROVE RequestsInv' /\ Sp!Ajax!Silent
  BY <1>1, <1>6, ChangeStep
<1>7. ASSUME NEW r \in Requests, Sp!Ajax!DeferredLoading(r) PROVE RequestsInv' /\ Sp!Ajax!Silent
  BY <1>1, <1>7, DeferredStep DEF Sp!Ajax!DeferredLoading
<1>8. CASE Sp!Ajax!Stop
  BY <1>1, <1>8, StopStep DEF Sp!Ajax!Stop
<1> QED BY <1>2, <1>3, <1>4, <1>5, <1>6, <1>7, <1>8 DEF Sp!Ajax!Next

\* Whoever is under way has told nobody, and until something raises whoever
\* has told nobody is under way.
LEMMA CountFollows == ASSUME Sp!Ajax!AjaxAssumption, RequestsInv PROVE Sp!Ajax!CountIsExact
<1> DEFINE underway == {r \in Requests : Sp!Ajax!UnderWay(r)}
<1>1. underway \subseteq Unheard
  BY DEF RequestsInv, RequestInv, Sp!Ajax!UnderWay, Unheard
<1>2. clean => underway = Unheard
  BY DEF RequestsInv, RequestInv, CountInv, Sp!Ajax!UnderWay, Unheard
<1>3. IsFiniteSet(Unheard)
  BY FS_Subset, RequestsAreFinite DEF Unheard
<1>4. /\ Cardinality(underway) \in Nat /\ Cardinality(Unheard) \in Nat
      /\ Cardinality(underway) <= Cardinality(Unheard)
  BY <1>1, <1>3, FS_Subset, FS_CardinalityType
<1>5. /\ count >= Cardinality(Unheard) /\ count \in Nat
      /\ clean => count = Cardinality(Unheard)
  BY DEF RequestsInv, CountInv, Sp!Ajax!TypeOK
<1> HIDE DEF underway
<1>6. count >= Cardinality(underway) /\ (clean => count = Cardinality(underway))
  BY <1>2, <1>4, <1>5
<1>7. Sp!Ajax!Cardinality(underway) = Cardinality(underway)
  BY SameCardinality
<1>8. count >= Sp!Ajax!Cardinality(underway) /\ (clean => count = Sp!Ajax!Cardinality(underway))
  BY <1>6, <1>7
<1> QED BY <1>8 DEF Sp!Ajax!CountIsExact, underway

----------------------------------------------------------------------------
\* respondToReadyState, dispatchException (prototype.js L1433-1523): the state
\* of every request, the count and the updater keep their types.
THEOREM RequestsTypeCorrect == ASSUME Sp!Ajax!AjaxAssumption PROVE Sp!Ajax!Spec => []Sp!Ajax!TypeOK
<1>1. RequestsInv => Sp!Ajax!TypeOK
  BY DEF RequestsInv
<1> QED BY <1>1, RequestsInitInv, RequestsStepInv, PTL DEF Sp!Ajax!Spec

\* L1433-1437, L1484-1514: whatever raises, and however often the browser
\* reports the last state, the callbacks of a request run at most once and in
\* their order.
THEOREM CompletesOnce == ASSUME Sp!Ajax!AjaxAssumption PROVE Sp!Ajax!Spec => []Sp!Ajax!CompleteOnce
<1>1. RequestsInv => Sp!Ajax!CompleteOnce
  BY DEF RequestsInv, RequestInv, Logs, Sp!Ajax!CompleteOnce
<1> QED BY <1>1, RequestsInitInv, RequestsStepInv, PTL DEF Sp!Ajax!Spec

\* L1322, L1354-1357: activeRequestCount is the number of requests under way as
\* long as nothing has raised, and never below it.
THEOREM CountsRequests == ASSUME Sp!Ajax!AjaxAssumption PROVE Sp!Ajax!Spec => []Sp!Ajax!CountIsExact
<1> QED BY CountFollows, RequestsInitInv, RequestsStepInv, PTL DEF Sp!Ajax!Spec

\* L1686-1704: an updater that is stopped, by the page or by a callback of a
\* request whose constructor has returned, changes the container and sets its
\* timer no more, until it is started again.  A stop() before that, in onCreate
\* or on a synchronous response, is taken for what it is (periodic.early): it
\* silences the request before, and the updater goes on.
THEOREM StoppedStaysSilent == ASSUME Sp!Ajax!AjaxAssumption PROVE Sp!Ajax!Spec => Sp!Ajax!StoppedIsSilent
<1> QED BY RequestsInitInv, RequestsStepInv, PTL DEF Sp!Ajax!Spec, Sp!Ajax!StoppedIsSilent

----------------------------------------------------------------------------
(***************************************************************************)
(* Proofs about EffectQueue for any pages, duration and lag of the         *)
(* interval. A list of calls and a pass of the interval are taken one step *)
(* at a time, by the least number of steps that would go wrong. The        *)
(* argument for the order: effects of one stage that are all queued at the *)
(* end start one after another, the first alone may run, and an interval   *)
(* that is late by no more than an effect lasts finishes the first and no  *)
(* other.                                                                  *)
(***************************************************************************)

\* A set of natural numbers has a least.
LEMMA LeastNat ==
  ASSUME NEW T \in SUBSET Nat, T # {}
  PROVE  \E m \in T : \A n \in T : m <= n
<1> DEFINE R == OpToRel(<, Nat)
<1>1. IsWellFoundedOn(R, Nat)
  BY NatLessThanWellFounded
<1>2. \A a, b \in Nat : <<a, b>> \in R <=> a < b
  BY DEF OpToRel
<1> HIDE DEF R
<1>3. PICK m \in T : \A n \in T : ~(<<n, m>> \in R)
  BY <1>1, WFMin, Zenon
<1>4. \A n \in T : ~(n < m)
  BY <1>2, <1>3, Zenon
<1>5. \A n \in T : m <= n
  BY <1>4
<1> QED BY <1>5

\* The calls of a list.
LEMMA CallsAre ==
  ASSUME NEW s, NEW names, NEW was, Len(names) \in Nat
  PROVE  \E f : /\ f[0] = s
                /\ \A n \in 1..Len(names) : f[n] = Sp!Call(f[n - 1], names[n], was)
                /\ Sp!Calls(s, names, was) = f[Len(names)]
<1> DEFINE Step(f, n) == IF n = 0 THEN s ELSE Sp!Call(f[n - 1], names[n], was)
           T == {m \in Nat : ~\E f : f = [n \in 0..m |-> Step(f, n)]}
<1>1. T = {}
  <2> SUFFICES ASSUME T # {} PROVE FALSE
    OBVIOUS
  <2>1. T \in SUBSET Nat
    OBVIOUS
  <2>2. PICK m \in T : \A k \in T : m <= k
    BY <2>1, LeastNat, Zenon
  <2>3. m \in Nat /\ ~\E f : f = [n \in 0..m |-> Step(f, n)]
    OBVIOUS
  <2>4. m # 0
    <3> SUFFICES ASSUME m = 0 PROVE FALSE
      OBVIOUS
    <3> DEFINE g == [n \in 0..0 |-> s]
    <3>1. \A n \in 0..0 : n = 0
      OBVIOUS
    <3>2. g = [n \in 0..0 |-> Step(g, n)]
      BY <3>1
    <3> QED BY <2>3, <3>2
  <2>5. m - 1 \in Nat /\ ~(m <= m - 1)
    BY <2>3, <2>4
  <2>6. m - 1 \notin T
    BY <2>2, <2>5
  <2>7. PICK f : f = [n \in 0..(m - 1) |-> Step(f, n)]
    BY <2>5, <2>6
  <2> DEFINE g == [n \in 0..m |-> IF n = m THEN Step(f, m) ELSE f[n]]
  <2>8. \A n \in 0..m : g[n] = Step(g, n)
    <3> SUFFICES ASSUME NEW n \in 0..m PROVE g[n] = Step(g, n)
      OBVIOUS
    <3>1. n # 0 => n - 1 \in 0..m /\ n - 1 # m /\ n - 1 \in 0..(m - 1)
      BY <2>3
    <3>2. n # m => n \in 0..(m - 1)
      BY <2>3
    <3>3. n # 0 => g[n - 1] = f[n - 1]
      BY <3>1
    <3>4. g[n] = IF n = m THEN Step(f, m) ELSE f[n]
      OBVIOUS
    <3>5. n # m => f[n] = Step(f, n)
      BY <2>7, <3>2
    <3> HIDE DEF g
    <3>6. g[n] = Step(f, n)
      BY <3>4, <3>5
    <3> QED BY <3>3, <3>6
  <2>9. g = [n \in 0..m |-> Step(g, n)]
    <3>1. g = [n \in 0..m |-> g[n]]
      OBVIOUS
    <3> HIDE DEF g, Step
    <3> QED BY <2>8, <3>1
  <2> QED BY <2>3, <2>9
<1> DEFINE F == CHOOSE f : f = [n \in 0..Len(names) |-> Step(f, n)]
<1>2. \E f : f = [n \in 0..Len(names) |-> Step(f, n)]
  BY <1>1
<1>3. F = [n \in 0..Len(names) |-> Step(F, n)]
  BY <1>2
<1>4. Sp!Calls(s, names, was) = F[Len(names)]
  BY DEF Sp!Calls
<1> HIDE DEF F
<1>5. F[0] = s /\ \A n \in 1..Len(names) : F[n] = Sp!Call(F[n - 1], names[n], was)
  <2>1. 0 \in 0..Len(names)
    OBVIOUS
  <2>2. F[0] = s
    BY <1>3, <2>1
  <2> SUFFICES ASSUME NEW n \in 1..Len(names)
               PROVE  F[n] = Sp!Call(F[n - 1], names[n], was)
    BY <2>2
  <2>3. n \in 0..Len(names) /\ n # 0
    OBVIOUS
  <2> QED BY <1>3, <2>3
<1> QED BY <1>4, <1>5

\* Of an empty list, and of one call.
LEMMA CallsNone == ASSUME NEW s, NEW was PROVE Sp!Calls(s, <<>>, was) = s
<1>1. Len(<<>>) = 0 /\ Len(<<>>) \in Nat
  OBVIOUS
<1> QED BY <1>1, CallsAre

LEMMA CallsOne ==
  ASSUME NEW s, NEW was, NEW a
  PROVE  Sp!Calls(s, <<a>>, was) = Sp!Call(s, a, was)
<1> DEFINE names == <<a>>
<1>1. Len(names) = 1 /\ names[1] = a
  OBVIOUS
<1> HIDE DEF names
<1>2. Len(names) \in Nat
  BY <1>1
<1>3. PICK f : /\ f[0] = s
               /\ \A n \in 1..Len(names) : f[n] = Sp!Call(f[n - 1], names[n], was)
               /\ Sp!Calls(s, names, was) = f[Len(names)]
  BY <1>2, CallsAre
<1>4. f[1] = Sp!Call(f[0], a, was)
  BY <1>1, <1>3
<1> QED BY <1>1, <1>3, <1>4 DEF names

\* A pass of the interval.
Aged(lag) == [i \in DOMAIN effects |->
                [effects[i] EXCEPT !.startOn = @ - lag, !.finishOn = @ - lag]]
Begun(lag) == [effects |-> Aged(lag), style |-> style, raised |-> FALSE]

\* A pass of the interval takes the effects one after another.
LEMMA PassIs ==
  ASSUME NEW lag, Sp!Loop(lag), Len(effects) \in Nat
  PROVE  \E f : /\ f[0] = Begun(lag)
                /\ \A i \in 1..Len(effects) : f[i] = Sp!Looped(f[i - 1], i)
                /\ effects' = f[Len(effects)].effects
                /\ style' = f[Len(effects)].style
<1> DEFINE Step(f, i) == IF i = 0 THEN Begun(lag) ELSE Sp!Looped(f[i - 1], i)
           T == {m \in Nat : ~\E f : f = [i \in 0..m |-> Step(f, i)]}
<1>1. T = {}
  <2> SUFFICES ASSUME T # {} PROVE FALSE
    OBVIOUS
  <2>1. T \in SUBSET Nat
    OBVIOUS
  <2>2. PICK m \in T : \A k \in T : m <= k
    BY <2>1, LeastNat, Zenon
  <2>3. m \in Nat /\ ~\E f : f = [i \in 0..m |-> Step(f, i)]
    OBVIOUS
  <2>4. m # 0
    <3> SUFFICES ASSUME m = 0 PROVE FALSE
      OBVIOUS
    <3> DEFINE g == [i \in 0..0 |-> Begun(lag)]
    <3>1. \A i \in 0..0 : i = 0
      OBVIOUS
    <3>2. g = [i \in 0..0 |-> Step(g, i)]
      BY <3>1
    <3> QED BY <2>3, <3>2
  <2>5. m - 1 \in Nat /\ ~(m <= m - 1)
    BY <2>3, <2>4
  <2>6. m - 1 \notin T
    BY <2>2, <2>5
  <2>7. PICK f : f = [i \in 0..(m - 1) |-> Step(f, i)]
    BY <2>5, <2>6
  <2> DEFINE g == [i \in 0..m |-> IF i = m THEN Step(f, m) ELSE f[i]]
  <2>8. \A i \in 0..m : g[i] = Step(g, i)
    <3> SUFFICES ASSUME NEW i \in 0..m PROVE g[i] = Step(g, i)
      OBVIOUS
    <3>1. i # 0 => i - 1 \in 0..m /\ i - 1 # m /\ i - 1 \in 0..(m - 1)
      BY <2>3
    <3>2. i # m => i \in 0..(m - 1)
      BY <2>3
    <3>3. i # 0 => g[i - 1] = f[i - 1]
      BY <3>1
    <3>4. g[i] = IF i = m THEN Step(f, m) ELSE f[i]
      OBVIOUS
    <3>5. i # m => f[i] = Step(f, i)
      BY <2>7, <3>2
    <3> HIDE DEF g
    <3>6. g[i] = Step(f, i)
      BY <3>4, <3>5
    <3> QED BY <3>3, <3>6
  <2>9. g = [i \in 0..m |-> Step(g, i)]
    <3>1. g = [i \in 0..m |-> g[i]]
      OBVIOUS
    <3> HIDE DEF g, Step
    <3> QED BY <2>8, <3>1
  <2> QED BY <2>3, <2>9
<1> DEFINE F == CHOOSE f : f = [i \in 0..Len(effects) |-> Step(f, i)]
<1>2. \E f : f = [i \in 0..Len(effects) |-> Step(f, i)]
  BY <1>1
<1>3. F = [i \in 0..Len(effects) |-> Step(F, i)]
  BY <1>2
<1>4. effects' = F[Len(effects)].effects /\ style' = F[Len(effects)].style
  BY DEF Sp!Loop, Begun, Aged
<1> HIDE DEF F
<1>5. F[0] = Begun(lag) /\ \A i \in 1..Len(effects) : F[i] = Sp!Looped(F[i - 1], i)
  <2>1. 0 \in 0..Len(effects)
    OBVIOUS
  <2>2. F[0] = Begun(lag)
    BY <1>3, <2>1
  <2> SUFFICES ASSUME NEW i \in 1..Len(effects)
               PROVE  F[i] = Sp!Looped(F[i - 1], i)
    BY <2>2
  <2>3. i \in 0..Len(effects) /\ i # 0
    OBVIOUS
  <2> QED BY <1>3, <2>3
<1> QED BY <1>4, <1>5

\* What an element looks like, and the calls made on it.
Styles == [shown : BOOLEAN, opacity : 0..2, clipped : BOOLEAN,
           position : {"own", "relative", "absolute"}, madePositioned : BOOLEAN,
           inner : {"own", "positioned"}, size : {"own", "other"},
           place : {"own", "other"}, color : {"own", "other"}]

CallNames == {"show", "hide", "makeClipping", "undoClipping", "makePositioned", "undoPositioned",
              "absolutize", "height 0px", "inner.makePositioned", "inner.undoPositioned",
              "old opacity", "old position", "old place", "old size"}

\* What each call does.
LEMMA CallIs ==
  ASSUME NEW s, NEW was
  PROVE  /\ Sp!Call(s, "show", was) = [s EXCEPT !.shown = TRUE]
         /\ Sp!Call(s, "hide", was) = [s EXCEPT !.shown = FALSE]
         /\ Sp!Call(s, "makeClipping", was) = [s EXCEPT !.clipped = TRUE]
         /\ Sp!Call(s, "undoClipping", was) = [s EXCEPT !.clipped = FALSE]
         /\ Sp!Call(s, "makePositioned", was) = Sp!MakePositioned(s)
         /\ Sp!Call(s, "undoPositioned", was) = Sp!UndoPositioned(s)
         /\ Sp!Call(s, "absolutize", was)
                = [s EXCEPT !.position = "absolute", !.place = "other", !.size = "other"]
         /\ Sp!Call(s, "height 0px", was) = [s EXCEPT !.size = "other"]
         /\ Sp!Call(s, "inner.makePositioned", was) = [s EXCEPT !.inner = "positioned"]
         /\ Sp!Call(s, "inner.undoPositioned", was) = [s EXCEPT !.inner = "own"]
         /\ Sp!Call(s, "old opacity", was) = [s EXCEPT !.opacity = was.opacity]
         /\ Sp!Call(s, "old position", was) = [s EXCEPT !.position = was.position]
         /\ Sp!Call(s, "old place", was) = [s EXCEPT !.place = was.place]
         /\ Sp!Call(s, "old size", was) = [s EXCEPT !.size = was.size]
<1>1. Sp!Call(s, "show", was) = [s EXCEPT !.shown = TRUE]
  BY DEF Sp!Call
<1>2. Sp!Call(s, "hide", was) = [s EXCEPT !.shown = FALSE]
  BY DEF Sp!Call
<1>3. Sp!Call(s, "makeClipping", was) = [s EXCEPT !.clipped = TRUE]
  BY DEF Sp!Call
<1>4. Sp!Call(s, "undoClipping", was) = [s EXCEPT !.clipped = FALSE]
  BY DEF Sp!Call
<1>5. Sp!Call(s, "makePositioned", was) = Sp!MakePositioned(s)
  BY DEF Sp!Call
<1>6. Sp!Call(s, "undoPositioned", was) = Sp!UndoPositioned(s)
  BY DEF Sp!Call
<1>7. Sp!Call(s, "absolutize", was) = [s EXCEPT !.position = "absolute", !.place = "other", !.size = "other"]
  BY DEF Sp!Call
<1>8. Sp!Call(s, "height 0px", was) = [s EXCEPT !.size = "other"]
  BY DEF Sp!Call
<1>9. Sp!Call(s, "inner.makePositioned", was) = [s EXCEPT !.inner = "positioned"]
  BY DEF Sp!Call
<1>10. Sp!Call(s, "inner.undoPositioned", was) = [s EXCEPT !.inner = "own"]
  BY DEF Sp!Call
<1>11. Sp!Call(s, "old opacity", was) = [s EXCEPT !.opacity = was.opacity]
  BY DEF Sp!Call
<1>12. Sp!Call(s, "old position", was) = [s EXCEPT !.position = was.position]
  BY DEF Sp!Call
<1>13. Sp!Call(s, "old place", was) = [s EXCEPT !.place = was.place]
  BY DEF Sp!Call
<1>14. Sp!Call(s, "old size", was) = [s EXCEPT !.size = was.size]
  BY DEF Sp!Call
<1> QED BY <1>1, <1>2, <1>3, <1>4, <1>5, <1>6, <1>7, <1>8, <1>9, <1>10, <1>11, <1>12, <1>13, <1>14, Zenon

\* The style keeps its type under a call.
LEMMA CallType ==
  ASSUME NEW s \in Styles, NEW was \in Styles, NEW name \in CallNames
  PROVE  Sp!Call(s, name, was) \in Styles
<1>1. Sp!MakePositioned(s) \in Styles /\ Sp!UndoPositioned(s) \in Styles
  BY ZenonT(60) DEF Sp!MakePositioned, Sp!UndoPositioned, Styles
<1>2. /\ [s EXCEPT !.shown = TRUE] \in Styles /\ [s EXCEPT !.shown = FALSE] \in Styles
      /\ [s EXCEPT !.clipped = TRUE] \in Styles /\ [s EXCEPT !.clipped = FALSE] \in Styles
  BY DEF Styles
<1>3. [s EXCEPT !.position = "absolute", !.place = "other", !.size = "other"] \in Styles
  BY DEF Styles
<1>4. [s EXCEPT !.size = "other"] \in Styles
  BY DEF Styles
<1>5. [s EXCEPT !.inner = "positioned"] \in Styles /\ [s EXCEPT !.inner = "own"] \in Styles
  BY DEF Styles
<1>6. /\ was.opacity \in 0..2 /\ was.position \in {"own", "relative", "absolute"}
      /\ was.place \in {"own", "other"} /\ was.size \in {"own", "other"}
  BY DEF Styles
<1>7. [s EXCEPT !.opacity = was.opacity] \in Styles
  BY <1>6 DEF Styles
<1>8. [s EXCEPT !.position = was.position] \in Styles
  BY <1>6 DEF Styles
<1>9. [s EXCEPT !.place = was.place] \in Styles
  BY <1>6 DEF Styles
<1>10. [s EXCEPT !.size = was.size] \in Styles
  BY <1>6 DEF Styles
<1>11. Sp!Call(s, "show", was) \in Styles /\ Sp!Call(s, "hide", was) \in Styles
       /\ Sp!Call(s, "makeClipping", was) \in Styles /\ Sp!Call(s, "undoClipping", was) \in Styles
       /\ Sp!Call(s, "makePositioned", was) \in Styles /\ Sp!Call(s, "undoPositioned", was) \in Styles
       /\ Sp!Call(s, "absolutize", was) \in Styles /\ Sp!Call(s, "height 0px", was) \in Styles
       /\ Sp!Call(s, "inner.makePositioned", was) \in Styles
       /\ Sp!Call(s, "inner.undoPositioned", was) \in Styles
       /\ Sp!Call(s, "old opacity", was) \in Styles /\ Sp!Call(s, "old position", was) \in Styles
       /\ Sp!Call(s, "old place", was) \in Styles /\ Sp!Call(s, "old size", was) \in Styles
  BY <1>1, <1>2, <1>3, <1>4, <1>5, <1>7, <1>8, <1>9, <1>10, CallIs, ZenonT(60)
<1> HIDE DEF Styles
<1> QED BY <1>11, Zenon DEF CallNames

\* The effects, one by one (effects.js L527-913).
LEMMA FadeIs ==
  LET e == Sp!Effect("Fade")
  IN  /\ e.core = {"opacity"} /\ e.from = -1 /\ e.to = 0 /\ e.restore = FALSE
      /\ e.create = <<>> /\ e.before = <<>> /\ e.after = <<>>
      /\ e.finish = <<"hide", "old opacity">> /\ e.then = "none"
BY DEF Sp!Effect, Sp!Fade, Sp!Plain, Sp!Current

LEMMA AppearIs ==
  LET e == Sp!Effect("Appear")
  IN  /\ e.core = {"opacity"} /\ e.from = -1 /\ e.to = 2 /\ e.restore = FALSE
      /\ e.create = <<>> /\ e.before = <<"show">> /\ e.after = <<>>
      /\ e.finish = <<>> /\ e.then = "none"
BY DEF Sp!Effect, Sp!Appear, Sp!Plain, Sp!Current

LEMMA PuffIs ==
  LET e == Sp!Effect("Puff")
  IN  /\ e.core = {"scale", "center", "opacity"} /\ e.from = -1 /\ e.to = 0
      /\ e.restore = TRUE /\ e.create = <<>> /\ e.before = <<"absolutize">>
      /\ e.after = <<>>
      /\ e.finish = <<"hide", "old opacity", "old position", "old place", "old size">>
      /\ e.then = "none"
BY DEF Sp!Effect, Sp!Puff, Sp!Plain, Sp!Current

LEMMA BlindUpIs ==
  LET e == Sp!Effect("BlindUp")
  IN  /\ e.core = {"scale"} /\ e.from = 0 /\ e.to = 2 /\ e.restore = TRUE
      /\ e.create = <<"makeClipping">> /\ e.before = <<>> /\ e.after = <<>>
      /\ e.finish = <<"hide", "undoClipping">> /\ e.then = "none"
BY DEF Sp!Effect, Sp!BlindUp, Sp!Plain

LEMMA BlindDownIs ==
  LET e == Sp!Effect("BlindDown")
  IN  /\ e.core = {"scale"} /\ e.from = 0 /\ e.to = 2 /\ e.restore = TRUE
      /\ e.create = <<>> /\ e.before = <<>>
      /\ e.after = <<"makeClipping", "height 0px", "show">>
      /\ e.finish = <<"undoClipping">> /\ e.then = "none"
BY DEF Sp!Effect, Sp!BlindDown, Sp!Plain

LEMMA SwitchOffIs ==
  LET e == Sp!Effect("SwitchOff")
  IN  /\ e.core = {"opacity"} /\ e.from = 0 /\ e.to = 2 /\ e.restore = FALSE
      /\ e.create = <<>> /\ e.before = <<"show">> /\ e.after = <<>>
      /\ e.finish = <<>> /\ e.then = "SwitchOff2"
BY DEF Sp!Effect, Sp!SwitchOff, Sp!Plain, Sp!Appear

LEMMA SwitchOff2Is ==
  LET e == Sp!Effect("SwitchOff2")
  IN  /\ e.core = {"scale", "center"} /\ e.from = 0 /\ e.to = 2 /\ e.restore = TRUE
      /\ e.create = <<>> /\ e.before = <<"makePositioned", "makeClipping">>
      /\ e.after = <<>>
      /\ e.finish = <<"hide", "undoClipping", "undoPositioned", "old opacity">>
      /\ e.then = "none"
BY DEF Sp!Effect, Sp!SwitchOff2, Sp!Plain

LEMMA DropOutIs ==
  LET e == Sp!Effect("DropOut")
  IN  /\ e.core = {"move", "opacity"} /\ e.from = -1 /\ e.to = 0
      /\ e.restore = FALSE /\ e.create = <<>> /\ e.before = <<"makePositioned">>
      /\ e.after = <<>>
      /\ e.finish = <<"hide", "undoPositioned", "old place", "old opacity">>
      /\ e.then = "none"
BY DEF Sp!Effect, Sp!DropOut, Sp!Plain, Sp!Current

LEMMA ShakeIs ==
  LET e == Sp!Effect("Shake")
  IN  /\ e.core = {"move"} /\ e.from = 0 /\ e.to = 2 /\ e.restore = FALSE
      /\ e.create = <<>> /\ e.before = <<>> /\ e.after = <<>> /\ e.finish = <<>>
      /\ e.then = "Shake2"
BY DEF Sp!Effect, Sp!Shake, Sp!Plain

LEMMA Shake2Is ==
  LET e == Sp!Effect("Shake2")
  IN  /\ e.core = {"move"} /\ e.from = 0 /\ e.to = 2 /\ e.restore = FALSE
      /\ e.create = <<>> /\ e.before = <<>> /\ e.after = <<>> /\ e.finish = <<>>
      /\ e.then = "Shake3"
BY DEF Sp!Effect, Sp!Shake2, Sp!Plain

LEMMA Shake3Is ==
  LET e == Sp!Effect("Shake3")
  IN  /\ e.core = {"move"} /\ e.from = 0 /\ e.to = 2 /\ e.restore = FALSE
      /\ e.create = <<>> /\ e.before = <<>> /\ e.after = <<>>
      /\ e.finish = <<"undoPositioned", "old place">> /\ e.then = "none"
BY DEF Sp!Effect, Sp!Shake3, Sp!Plain

LEMMA SlideDownIs ==
  LET e == Sp!Effect("SlideDown")
  IN  /\ e.core = {"scale"} /\ e.from = 0 /\ e.to = 2 /\ e.restore = TRUE
      /\ e.create = <<>> /\ e.before = <<>>
      /\ e.after = <<"makePositioned", "inner.makePositioned", "makeClipping", "height 0px", "show">>
      /\ e.finish = <<"undoClipping", "undoPositioned", "inner.undoPositioned">>
      /\ e.then = "none"
BY DEF Sp!Effect, Sp!SlideDown, Sp!Plain

LEMMA SlideUpIs ==
  LET e == Sp!Effect("SlideUp")
  IN  /\ e.core = {"scale"} /\ e.from = 0 /\ e.to = 2 /\ e.restore = TRUE
      /\ e.create = <<>> /\ e.before = <<>>
      /\ e.after = <<"makePositioned", "inner.makePositioned", "makeClipping", "show">>
      /\ e.finish = <<"hide", "undoClipping", "undoPositioned", "inner.undoPositioned">>
      /\ e.then = "none"
BY DEF Sp!Effect, Sp!SlideUp, Sp!Plain

LEMMA SquishIs ==
  LET e == Sp!Effect("Squish")
  IN  /\ e.core = {"scale"} /\ e.from = 0 /\ e.to = 2 /\ e.restore = TRUE
      /\ e.create = <<>> /\ e.before = <<"makeClipping">> /\ e.after = <<>>
      /\ e.finish = <<"hide", "undoClipping">> /\ e.then = "none"
BY DEF Sp!Effect, Sp!Squish, Sp!Plain

LEMMA GrowIs ==
  LET e == Sp!Effect("Grow")
  IN  /\ e.core = {"move"} /\ e.from = 0 /\ e.to = 2 /\ e.restore = FALSE
      /\ e.create = <<>> /\ e.before = <<"hide", "makeClipping", "makePositioned">>
      /\ e.after = <<>> /\ e.finish = <<>> /\ e.then = "Grow2"
BY DEF Sp!Effect, Sp!Grow, Sp!Plain

LEMMA Grow2Is ==
  LET e == Sp!Effect("Grow2")
  IN  /\ e.core = {"opacity", "move", "scale"} /\ e.from = 0 /\ e.to = 2
      /\ e.restore = TRUE /\ e.create = <<>> /\ e.before = <<"height 0px", "show">>
      /\ e.after = <<>>
      /\ e.finish = <<"undoClipping", "undoPositioned", "old place", "old size", "old opacity">>
      /\ e.then = "none"
BY DEF Sp!Effect, Sp!Grow2, Sp!Plain

LEMMA ShrinkIs ==
  LET e == Sp!Effect("Shrink")
  IN  /\ e.core = {"opacity", "scale", "move"} /\ e.from = 2 /\ e.to = 0
      /\ e.restore = TRUE /\ e.create = <<"makePositioned", "makeClipping">>
      /\ e.before = <<>> /\ e.after = <<>>
      /\ e.finish = <<"hide", "undoClipping", "undoPositioned", "old place", "old size", "old opacity">>
      /\ e.then = "none"
BY DEF Sp!Effect, Sp!Shrink, Sp!Plain

LEMMA PulsateIs ==
  LET e == Sp!Effect("Pulsate")
  IN  /\ e.core = {"opacity"} /\ e.from = 0 /\ e.to = 2 /\ e.restore = FALSE
      /\ e.create = <<>> /\ e.before = <<>> /\ e.after = <<>>
      /\ e.finish = <<"old opacity">> /\ e.then = "none"
BY DEF Sp!Effect, Sp!Pulsate, Sp!Plain

LEMMA FoldIs ==
  LET e == Sp!Effect("Fold")
  IN  /\ e.core = {"scale"} /\ e.from = 0 /\ e.to = 2 /\ e.restore = FALSE
      /\ e.create = <<"makeClipping">> /\ e.before = <<>> /\ e.after = <<>>
      /\ e.finish = <<>> /\ e.then = "Fold2"
BY DEF Sp!Effect, Sp!Fold, Sp!Plain

LEMMA Fold2Is ==
  LET e == Sp!Effect("Fold2")
  IN  /\ e.core = {"scale"} /\ e.from = 0 /\ e.to = 2 /\ e.restore = FALSE
      /\ e.create = <<>> /\ e.before = <<>> /\ e.after = <<>>
      /\ e.finish = <<"hide", "undoClipping", "old place", "old size">>
      /\ e.then = "none"
BY DEF Sp!Effect, Sp!Fold2, Sp!Plain

LEMMA HighlightIs ==
  LET e == Sp!Effect("Highlight")
  IN  /\ e.core = {"color"} /\ e.from = 0 /\ e.to = 2 /\ e.restore = FALSE
      /\ e.create = <<>> /\ e.before = <<>> /\ e.after = <<>> /\ e.finish = <<>>
      /\ e.then = "none"
BY DEF Sp!Effect, Sp!Highlight, Sp!Plain

----------------------------------------------------------------------------
(* Types. *)

\* Lists of calls.
LEMMA CallLists ==
  ASSUME NEW S
  PROVE  /\ <<>> \in Seq(S)
         /\ \A a \in S : <<a>> \in Seq(S)
         /\ \A a, b \in S : <<a, b>> \in Seq(S)
         /\ \A a, b, c \in S : <<a, b, c>> \in Seq(S)
         /\ \A a, b, c, d \in S : <<a, b, c, d>> \in Seq(S)
         /\ \A a, b, c, d, e \in S : <<a, b, c, d, e>> \in Seq(S)
         /\ \A a, b, c, d, e, g \in S : <<a, b, c, d, e, g>> \in Seq(S)
OBVIOUS

\* The calls, and the lists of them the effects hold.
LEMMA NamesAre ==
  /\ "show" \in CallNames /\ "hide" \in CallNames /\ "makeClipping" \in CallNames
  /\ "undoClipping" \in CallNames /\ "makePositioned" \in CallNames
  /\ "undoPositioned" \in CallNames /\ "absolutize" \in CallNames /\ "height 0px" \in CallNames
  /\ "inner.makePositioned" \in CallNames /\ "inner.undoPositioned" \in CallNames
  /\ "old opacity" \in CallNames /\ "old position" \in CallNames /\ "old place" \in CallNames
  /\ "old size" \in CallNames
BY DEF CallNames

LEMMA ListsAre ==
  /\ <<>> \in Seq(CallNames)
  /\ <<"show">> \in Seq(CallNames)
  /\ <<"absolutize">> \in Seq(CallNames)
  /\ <<"old opacity">> \in Seq(CallNames)
  /\ <<"makeClipping">> \in Seq(CallNames)
  /\ <<"undoClipping">> \in Seq(CallNames)
  /\ <<"makePositioned">> \in Seq(CallNames)
  /\ <<"height 0px", "show">> \in Seq(CallNames)
  /\ <<"hide", "old opacity">> \in Seq(CallNames)
  /\ <<"hide", "undoClipping">> \in Seq(CallNames)
  /\ <<"undoPositioned", "old place">> \in Seq(CallNames)
  /\ <<"makePositioned", "makeClipping">> \in Seq(CallNames)
  /\ <<"makeClipping", "height 0px", "show">> \in Seq(CallNames)
  /\ <<"hide", "makeClipping", "makePositioned">> \in Seq(CallNames)
  /\ <<"hide", "undoClipping", "old place", "old size">> \in Seq(CallNames)
  /\ <<"hide", "undoPositioned", "old place", "old opacity">> \in Seq(CallNames)
  /\ <<"hide", "undoClipping", "undoPositioned", "old opacity">> \in Seq(CallNames)
  /\ <<"undoClipping", "undoPositioned", "inner.undoPositioned">> \in Seq(CallNames)
  /\ <<"hide", "old opacity", "old position", "old place", "old size">> \in Seq(CallNames)
  /\ <<"makePositioned", "inner.makePositioned", "makeClipping", "show">> \in Seq(CallNames)
  /\ <<"hide", "undoClipping", "undoPositioned", "inner.undoPositioned">> \in Seq(CallNames)
  /\ <<"undoClipping", "undoPositioned", "old place", "old size", "old opacity">> \in Seq(CallNames)
  /\ <<"makePositioned", "inner.makePositioned", "makeClipping", "height 0px", "show">> \in Seq(CallNames)
  /\ <<"hide", "undoClipping", "undoPositioned", "old place", "old size", "old opacity">> \in Seq(CallNames)
BY NamesAre, CallLists, Zenon

\* What an effect does.
KindTypes(e) ==
  /\ e.from \in {-1, 0, 2} /\ e.to \in {0, 2}
  /\ e.create \in Seq(CallNames) /\ e.before \in Seq(CallNames)
  /\ e.after \in Seq(CallNames) /\ e.finish \in Seq(CallNames)
  /\ e.then \in Sp!LaterStages \cup {"none"}

LEMMA KindTypesAre == \A k \in Sp!Kinds : KindTypes(Sp!Effect(k))
<1>1. /\ -1 \in {-1, 0, 2} /\ 0 \in {-1, 0, 2} /\ 2 \in {-1, 0, 2} /\ 0 \in {0, 2} /\ 2 \in {0, 2}
      /\ "none" \in Sp!LaterStages \cup {"none"}
      /\ Sp!LaterStages \subseteq Sp!LaterStages \cup {"none"}
      /\ "SwitchOff2" \in Sp!LaterStages /\ "Shake2" \in Sp!LaterStages /\ "Shake3" \in Sp!LaterStages
      /\ "Grow2" \in Sp!LaterStages /\ "Fold2" \in Sp!LaterStages
  BY DEF Sp!LaterStages
<1>2. KindTypes(Sp!Effect("Fade"))
  BY <1>1, FadeIs, ListsAre, Zenon DEF KindTypes
<1>3. KindTypes(Sp!Effect("Appear"))
  BY <1>1, AppearIs, ListsAre, Zenon DEF KindTypes
<1>4. KindTypes(Sp!Effect("Puff"))
  BY <1>1, PuffIs, ListsAre, Zenon DEF KindTypes
<1>5. KindTypes(Sp!Effect("BlindUp"))
  BY <1>1, BlindUpIs, ListsAre, Zenon DEF KindTypes
<1>6. KindTypes(Sp!Effect("BlindDown"))
  BY <1>1, BlindDownIs, ListsAre, Zenon DEF KindTypes
<1>7. KindTypes(Sp!Effect("SwitchOff"))
  BY <1>1, SwitchOffIs, ListsAre, Zenon DEF KindTypes
<1>8. KindTypes(Sp!Effect("SwitchOff2"))
  BY <1>1, SwitchOff2Is, ListsAre, Zenon DEF KindTypes
<1>9. KindTypes(Sp!Effect("DropOut"))
  BY <1>1, DropOutIs, ListsAre, Zenon DEF KindTypes
<1>10. KindTypes(Sp!Effect("Shake"))
  BY <1>1, ShakeIs, ListsAre, Zenon DEF KindTypes
<1>11. KindTypes(Sp!Effect("Shake2"))
  BY <1>1, Shake2Is, ListsAre, Zenon DEF KindTypes
<1>12. KindTypes(Sp!Effect("Shake3"))
  BY <1>1, Shake3Is, ListsAre, Zenon DEF KindTypes
<1>13. KindTypes(Sp!Effect("SlideDown"))
  BY <1>1, SlideDownIs, ListsAre, Zenon DEF KindTypes
<1>14. KindTypes(Sp!Effect("SlideUp"))
  BY <1>1, SlideUpIs, ListsAre, Zenon DEF KindTypes
<1>15. KindTypes(Sp!Effect("Squish"))
  BY <1>1, SquishIs, ListsAre, Zenon DEF KindTypes
<1>16. KindTypes(Sp!Effect("Grow"))
  BY <1>1, GrowIs, ListsAre, Zenon DEF KindTypes
<1>17. KindTypes(Sp!Effect("Grow2"))
  BY <1>1, Grow2Is, ListsAre, Zenon DEF KindTypes
<1>18. KindTypes(Sp!Effect("Shrink"))
  BY <1>1, ShrinkIs, ListsAre, Zenon DEF KindTypes
<1>19. KindTypes(Sp!Effect("Pulsate"))
  BY <1>1, PulsateIs, ListsAre, Zenon DEF KindTypes
<1>20. KindTypes(Sp!Effect("Fold"))
  BY <1>1, FoldIs, ListsAre, Zenon DEF KindTypes
<1>21. KindTypes(Sp!Effect("Fold2"))
  BY <1>1, Fold2Is, ListsAre, Zenon DEF KindTypes
<1>22. KindTypes(Sp!Effect("Highlight"))
  BY <1>1, HighlightIs, ListsAre, Zenon DEF KindTypes
<1> QED BY <1>2, <1>3, <1>4, <1>5, <1>6, <1>7, <1>8, <1>9, <1>10, <1>11, <1>12, <1>13, <1>14, <1>15, <1>16, <1>17, <1>18, <1>19, <1>20, <1>21, <1>22,
  Zenon DEF Sp!Kinds, Sp!FirstStages, Sp!LaterStages

\* The style keeps its type under the calls of a list.
LEMMA CallsType ==
  ASSUME NEW s \in Styles, NEW was \in Styles, NEW names \in Seq(CallNames)
  PROVE  Sp!Calls(s, names, was) \in Styles
<1>1. Len(names) \in Nat
  OBVIOUS
<1>2. PICK f : /\ f[0] = s
               /\ \A n \in 1..Len(names) : f[n] = Sp!Call(f[n - 1], names[n], was)
               /\ Sp!Calls(s, names, was) = f[Len(names)]
  BY <1>1, CallsAre
<1> DEFINE T == {n \in 0..Len(names) : f[n] \notin Styles}
<1>3. T = {}
  <2> SUFFICES ASSUME T # {} PROVE FALSE
    OBVIOUS
  <2>1. T \in SUBSET Nat
    OBVIOUS
  <2>2. PICK m \in T : \A n \in T : m <= n
    BY <2>1, LeastNat, Zenon
  <2>3. m # 0 /\ m \in 1..Len(names)
    BY <1>2
  <2>4. m - 1 \in 0..Len(names) /\ ~(m <= m - 1)
    BY <2>3
  <2>5. f[m - 1] \in Styles
    BY <2>2, <2>4
  <2>6. names[m] \in CallNames
    BY <2>3
  <2>7. f[m] = Sp!Call(f[m - 1], names[m], was)
    BY <1>2, <2>3
  <2>8. f[m] \in Styles
    BY <2>5, <2>6, <2>7, CallType
  <2> QED BY <2>8
<1>4. Len(names) \in 0..Len(names)
  BY <1>1
<1> QED BY <1>2, <1>3, <1>4

\* The effects of a queue.
Effects == [id : Nat, kind : Sp!Kinds, state : {"idle", "running"}, startOn : Int, finishOn : Int,
            from : 0..2, old : Styles, orig : Styles, behind : SUBSET Nat]

Queued == {e \in Effects : e.finishOn = e.startOn + Duration}

\* The types the proofs go by.
QueueTypes ==
  /\ style \in Styles
  /\ effects \in Seq(Queued)
  /\ effectsMade \in 0..page.most
  /\ apart \in BOOLEAN
  /\ page \in Pages

\* A new effect.
LEMMA FreshType ==
  ASSUME NEW id \in Nat, NEW k \in Sp!Kinds, NEW s \in Styles, NEW was \in Styles,
         Sp!EffectAssumption
  PROVE  /\ Sp!Fresh(id, k, s, was) \in Queued
         /\ Sp!Fresh(id, k, s, was).id = id /\ Sp!Fresh(id, k, s, was).kind = k
         /\ Sp!Fresh(id, k, s, was).state = "idle" /\ Sp!Fresh(id, k, s, was).old = was
         /\ Sp!Fresh(id, k, s, was).behind = {}
<1> DEFINE from == IF Sp!Effect(k).from # Sp!Current THEN Sp!Effect(k).from
              ELSE IF k = "Appear" /\ ~s.shown THEN 0
              ELSE IF k = "Fade" /\ s.opacity = 0 THEN 2 ELSE s.opacity
<1>1. Sp!Effect(k).from \in {-1, 0, 2} /\ s.opacity \in 0..2
  BY KindTypesAre DEF KindTypes, Styles
<1>2. from \in 0..2
  <2>1. 0 \in 0..2 /\ 2 \in 0..2
    OBVIOUS
  <2> QED BY <1>1, <2>1 DEF Sp!Current
<1>3. Sp!Fresh(id, k, s, was) = [id |-> id, kind |-> k, state |-> "idle", startOn |-> 0, finishOn |-> Duration,
                from |-> from, old |-> was, orig |-> was, behind |-> {}]
  BY Zenon DEF Sp!Fresh
<1> HIDE DEF from
<1>4. Duration \in Int /\ Duration = 0 + Duration
  BY DEF Sp!EffectAssumption
<1> QED BY <1>2, <1>3, <1>4 DEF Queued, Effects

\* The style keeps its type as effects are set up, drawn and finished.
LEMMA MakePositionedType == ASSUME NEW s \in Styles PROVE Sp!MakePositioned(s) \in Styles
BY DEF Sp!MakePositioned, Styles

LEMMA DrawnType ==
  ASSUME NEW s \in Styles, NEW k \in Sp!Kinds, NEW from \in 0..2, NEW atEnd
  PROVE  Sp!Drawn(s, Sp!Effect(k), from, atEnd) \in Styles
<1>1. Sp!Effect(k).to \in 0..2
  BY KindTypesAre DEF KindTypes
<1> DEFINE to == Sp!Effect(k).to
           core == Sp!Effect(k).core
<1>2. Sp!Drawn(s, Sp!Effect(k), from, atEnd) =
    [s EXCEPT
      !.opacity = IF "opacity" \notin core THEN @
                  ELSE IF atEnd \/ from = to THEN to ELSE 1,
      !.place = IF core \cap {"move", "center"} # {} THEN "other" ELSE @,
      !.size = IF "scale" \in core THEN "other" ELSE @,
      !.color = IF "color" \in core THEN "other" ELSE @]
  BY DEF Sp!Drawn
<1> HIDE DEF to, core
<1> DEFINE o == IF "opacity" \notin core THEN s.opacity ELSE IF atEnd \/ from = to THEN to ELSE 1
           p == IF core \cap {"move", "center"} # {} THEN "other" ELSE s.place
           z == IF "scale" \in core THEN "other" ELSE s.size
           c == IF "color" \in core THEN "other" ELSE s.color
<1>3. o \in 0..2 /\ {p, z, c} \subseteq {"own", "other"}
  BY <1>1 DEF Styles, to
<1>4. Sp!Drawn(s, Sp!Effect(k), from, atEnd) = [s EXCEPT !.opacity = o, !.place = p, !.size = z, !.color = c]
  BY <1>2 DEF Styles
<1> HIDE DEF o, p, z, c
<1> QED BY <1>3, <1>4 DEF Styles

LEMMA RenderedType ==
  ASSUME NEW e \in Queued, NEW s \in Styles, NEW atEnd
  PROVE  /\ Sp!Rendered(e, s, atEnd).effect \in Queued
         /\ Sp!Rendered(e, s, atEnd).style \in Styles
         /\ Sp!Rendered(e, s, atEnd).effect.state = "running"
         /\ Sp!Rendered(e, s, atEnd).effect.kind = e.kind
         /\ Sp!Rendered(e, s, atEnd).effect.old = e.old
         /\ Sp!Rendered(e, s, atEnd).effect.id = e.id
         /\ Sp!Rendered(e, s, atEnd).effect.startOn = e.startOn
         /\ Sp!Rendered(e, s, atEnd).effect.finishOn = e.finishOn
         /\ Sp!Rendered(e, s, atEnd).effect.behind = e.behind
<1> DEFINE fx == Sp!Effect(e.kind)
           before == IF e.state = "idle" THEN Sp!Calls(s, fx.before, e.old) ELSE s
           setup == IF e.state = "idle" /\ "move" \in fx.core THEN Sp!MakePositioned(before) ELSE before
           after == IF e.state = "idle" THEN Sp!Calls(setup, fx.after, e.old) ELSE setup
           orig == IF e.state = "idle" THEN setup ELSE e.orig
<1>1. e \in Effects /\ e.kind \in Sp!Kinds /\ e.old \in Styles /\ e.orig \in Styles /\ e.from \in 0..2
  BY DEF Queued, Effects
<1>2. fx.before \in Seq(CallNames) /\ fx.after \in Seq(CallNames)
  BY <1>1, KindTypesAre DEF KindTypes
<1>3. before \in Styles
  BY <1>1, <1>2, CallsType
<1>4. setup \in Styles
  BY <1>3, MakePositionedType
<1>5. after \in Styles
  BY <1>1, <1>2, <1>4, CallsType
<1>6. orig \in Styles
  BY <1>1, <1>4
<1>7. Sp!Rendered(e, s, atEnd) = [effect |-> [e EXCEPT !.state = "running", !.orig = orig],
                                  style |-> Sp!Drawn(after, fx, e.from, atEnd)]
  <2>1. [e EXCEPT !.state = "running", !.orig = IF e.state = "idle" THEN setup ELSE @]
            = [e EXCEPT !.state = "running", !.orig = orig]
    BY <1>1 DEF Effects
  <2> QED BY <2>1, Zenon DEF Sp!Rendered
<1>8. Sp!Drawn(after, fx, e.from, atEnd) \in Styles
  BY <1>1, <1>5, DrawnType
<1> HIDE DEF before, setup, after, orig, fx
<1>9. /\ [e EXCEPT !.state = "running", !.orig = orig] \in Queued
      /\ [e EXCEPT !.state = "running", !.orig = orig].orig = orig
      /\ [e EXCEPT !.state = "running", !.orig = orig].state = "running"
      /\ [e EXCEPT !.state = "running", !.orig = orig].kind = e.kind
      /\ [e EXCEPT !.state = "running", !.orig = orig].old = e.old
      /\ [e EXCEPT !.state = "running", !.orig = orig].id = e.id
      /\ [e EXCEPT !.state = "running", !.orig = orig].startOn = e.startOn
      /\ [e EXCEPT !.state = "running", !.orig = orig].finishOn = e.finishOn
      /\ [e EXCEPT !.state = "running", !.orig = orig].behind = e.behind
  BY <1>1, <1>6 DEF Queued, Effects
<1> DEFINE x == [e EXCEPT !.state = "running", !.orig = orig]
           y == Sp!Drawn(after, fx, e.from, atEnd)
<1>10. Sp!Rendered(e, s, atEnd) = [effect |-> x, style |-> y]
  BY <1>7
<1> HIDE DEF y
<1>11. Sp!Rendered(e, s, atEnd).effect = x /\ Sp!Rendered(e, s, atEnd).style = y
  BY <1>10
<1>12. Sp!Rendered(e, s, atEnd).effect.orig = orig
  BY <1>9, <1>11
<1>13. y \in Styles
  BY <1>8 DEF y
<1> QED BY <1>9, <1>11, <1>12, <1>13

LEMMA FinishedType ==
  ASSUME NEW e \in Queued, NEW s \in Styles
  PROVE  Sp!Finished(e, s) \in Styles
<1> DEFINE fx == Sp!Effect(e.kind)
           c == IF "color" \in fx.core THEN "own" ELSE s.color
           z == IF fx.restore THEN e.orig.size ELSE s.size
           p == IF fx.restore THEN e.orig.place ELSE s.place
           put == [s EXCEPT !.color = c, !.size = z, !.place = p]
<1>1. e.kind \in Sp!Kinds /\ e.old \in Styles /\ e.orig \in Styles
  BY DEF Queued, Effects
<1>2. {c, z, p} \subseteq {"own", "other"}
  BY <1>1 DEF Styles
<1>3. Sp!Finished(e, s) = Sp!Calls(put, fx.finish, e.old)
  BY DEF Sp!Finished, Styles
<1> HIDE DEF c, z, p
<1>4. put \in Styles
  BY <1>2 DEF Styles
<1>5. fx.finish \in Seq(CallNames)
  BY <1>1, KindTypesAre DEF KindTypes
<1> HIDE DEF put, fx
<1> QED BY <1>1, <1>3, <1>4, <1>5, CallsType

\* A list without one of its elements.
LEMMA RemovedIs ==
  ASSUME NEW S, NEW s \in Seq(S), NEW i \in 1..Len(s)
  PROVE  /\ Sp!RemoveAt(s, i) \in Seq(S)
         /\ Len(Sp!RemoveAt(s, i)) = Len(s) - 1
         /\ \A j \in 1..(Len(s) - 1) : Sp!RemoveAt(s, i)[j] = IF j < i THEN s[j] ELSE s[j + 1]
<1>1. Len(s) \in Nat
  OBVIOUS
<1> DEFINE p == SubSeq(s, 1, i - 1)
           q == SubSeq(s, i + 1, Len(s))
<1>2. p \in Seq(S) /\ Len(p) = i - 1 /\ \A j \in 1..(i - 1) : p[j] = s[j]
  BY <1>1, SubSeqProperties
<1>3. q \in Seq(S) /\ Len(q) = Len(s) - i /\ \A j \in 1..(Len(s) - i) : q[j] = s[i + j]
  <2>1. \A k \in (i + 1)..Len(s) : s[k] \in S
    BY <1>1
  <2>2. q \in Seq(S) /\ Len(q) = IF i + 1 <= Len(s) THEN Len(s) - (i + 1) + 1 ELSE 0
    BY <1>1, SubSeqProperties
  <2>3. \A j \in 1..(Len(s) - (i + 1) + 1) : q[j] = s[i + 1 + j - 1]
    BY <1>1, SubSeqProperties
  <2> QED BY <1>1, <2>2, <2>3
<1>4. Sp!RemoveAt(s, i) = p \o q
  BY DEF Sp!RemoveAt
<1> HIDE DEF p, q
<1> DEFINE r == p \o q
<1>5. /\ r \in Seq(S) /\ Len(r) = Len(p) + Len(q)
      /\ \A j \in 1..(Len(p) + Len(q)) : r[j] = IF j <= Len(p) THEN p[j] ELSE q[j - Len(p)]
  BY <1>2, <1>3, ConcatProperties
<1> HIDE DEF r
<1>6. Len(r) = Len(s) - 1
  BY <1>1, <1>2, <1>3, <1>5
<1>7. ASSUME NEW j \in 1..(Len(s) - 1) PROVE r[j] = IF j < i THEN s[j] ELSE s[j + 1]
  <2>1. CASE j < i
    <3>1. j \in 1..(i - 1) /\ j \in 1..(Len(p) + Len(q)) /\ j <= Len(p)
      BY <1>1, <1>2, <1>3, <2>1
    <3> QED BY <1>2, <1>5, <2>1, <3>1
  <2>2. CASE j >= i
    <3>1. j - (i - 1) \in 1..(Len(s) - i) /\ j \in 1..(Len(p) + Len(q)) /\ ~(j <= Len(p))
      BY <1>1, <1>2, <1>3, <2>2
    <3>2. r[j] = q[j - (i - 1)] /\ q[j - (i - 1)] = s[i + (j - (i - 1))]
      BY <1>2, <1>3, <1>5, <3>1
    <3>3. i + (j - (i - 1)) = j + 1
      BY <1>1
    <3> QED BY <1>1, <2>2, <3>2, <3>3
  <2> QED BY <1>1, <2>1, <2>2
<1> QED BY <1>4, <1>5, <1>6, <1>7 DEF r

\* What a pass of the interval has come to.
PassTypes(a) == /\ a = [effects |-> a.effects, style |-> a.style, raised |-> a.raised]
                /\ a.effects \in Seq(Queued) /\ a.style \in Styles

\* The loop of one effect keeps the types,
LEMMA LoopedType ==
  ASSUME Sp!EffectAssumption, NEW a, PassTypes(a), NEW i \in Nat \ {0}
  PROVE  PassTypes(Sp!Looped(a, i))
<1> DEFINE es == a.effects
           s == a.style
           e == es[i]
           fx == Sp!Effect(e.kind)
           hid == e.kind = "Highlight" /\ e.state = "idle" /\ ~s.shown
           drawn == Sp!Rendered(e, s, e.finishOn <= 0)
           rest == Sp!RemoveAt(es, i)
           next == Sp!Fresh(e.id + Sp!NextStage, fx.then, s, e.old)
           c1 == hid /\ e.startOn < 0
           c2 == e.finishOn <= 0 /\ ~hid
           c3 == e.startOn < 0 /\ e.finishOn > 0 /\ ~hid
<1>1. es \in Seq(Queued) /\ s \in Styles /\ Len(es) \in Nat
      /\ a = [effects |-> es, style |-> s, raised |-> a.raised]
  BY DEF PassTypes
<1>2. CASE a.raised \/ i > Len(es)
  BY <1>2 DEF Sp!Looped
<1>3. CASE ~(a.raised \/ i > Len(es))
  <2>1. i \in 1..Len(es)
    BY <1>1, <1>3
  <2>2. e \in Queued
    BY <1>1, <2>1
  <2>15. e.startOn \in Int /\ e.finishOn \in Int
    BY <2>2 DEF Queued, Effects
  <2>3. rest \in Seq(Queued)
    BY <1>1, <2>1, RemovedIs
  <2>4. drawn.effect \in Queued /\ drawn.style \in Styles
    BY <1>1, <2>2, RenderedType
  <2>5. Sp!Finished(drawn.effect, drawn.style) \in Styles
    BY <2>4, FinishedType
  <2>6. fx.then # "none" => Append(rest, next) \in Seq(Queued)
    <3> SUFFICES ASSUME fx.then # "none" PROVE next \in Queued
      BY <2>3
    <3>1. e.kind \in Sp!Kinds /\ e.id \in Nat /\ e.old \in Styles
      BY <2>2 DEF Queued, Effects
    <3>2. fx.then \in Sp!Kinds
      BY <3>1, KindTypesAre DEF KindTypes, Sp!Kinds
    <3>3. e.id + Sp!NextStage \in Nat
      BY <3>1 DEF Sp!NextStage
    <3> QED BY <1>1, <3>1, <3>2, <3>3, FreshType
  <2>7. Sp!Looped(a, i) =
            CASE c1 -> [a EXCEPT !.effects = rest, !.raised = e.finishOn <= 0]
              [] c2 -> [a EXCEPT !.style = Sp!Finished(drawn.effect, drawn.style),
                                 !.effects = IF fx.then = "none" THEN rest ELSE Append(rest, next)]
              [] c3 -> [a EXCEPT !.style = drawn.style,
                                 !.effects = [@ EXCEPT ![i] = drawn.effect]]
              [] OTHER -> a
    BY <1>3, Zenon DEF Sp!Looped
  <2>8. [es EXCEPT ![i] = drawn.effect] \in Seq(Queued)
    BY <1>1, <2>1, <2>4, ExceptSeq
  <2> DEFINE fin == Sp!Finished(drawn.effect, drawn.style)
             then == IF fx.then = "none" THEN rest ELSE Append(rest, next)
             run == [es EXCEPT ![i] = drawn.effect]
             late == e.finishOn <= 0
             ds == drawn.style
  <2>9. then \in Seq(Queued) /\ fin \in Styles /\ run \in Seq(Queued) /\ ds \in Styles
    BY <2>3, <2>4, <2>5, <2>6, <2>8
  <2>10. Sp!Looped(a, i) =
            CASE c1 -> [a EXCEPT !.effects = rest, !.raised = late]
              [] c2 -> [a EXCEPT !.style = fin, !.effects = then]
              [] c3 -> [a EXCEPT !.style = ds, !.effects = run]
              [] OTHER -> a
    <3>1. [a EXCEPT !.style = ds, !.effects = [@ EXCEPT ![i] = drawn.effect]]
             = [a EXCEPT !.style = ds, !.effects = run]
      <4> HIDE DEF drawn
      <4> QED BY <1>1
    <3> QED BY <2>7, <3>1, Zenon
  <2> HIDE DEF c1, c2, c3, drawn, rest, next, fx, hid, e, fin, then, run, late, ds
  <2>11. CASE c1
    <3>1. ~c2 /\ ~c3
      BY <2>11 DEF c1, c2, c3
    <3>2. Sp!Looped(a, i) = [a EXCEPT !.effects = rest, !.raised = late]
      BY <2>10, <2>11, <3>1
    <3> QED BY <1>1, <2>3, <3>2 DEF PassTypes
  <2>12. CASE c2
    <3>1. ~c1 /\ ~c3
      BY <2>12, <2>15 DEF c1, c2, c3
    <3>2. Sp!Looped(a, i) = [a EXCEPT !.style = fin, !.effects = then]
      BY <2>10, <2>12, <3>1
    <3> QED BY <1>1, <2>9, <3>2 DEF PassTypes
  <2>13. CASE c3
    <3>1. ~c1 /\ ~c2
      BY <2>13, <2>15 DEF c1, c2, c3
    <3>2. Sp!Looped(a, i) = [a EXCEPT !.style = ds, !.effects = run]
      BY <2>10, <2>13, <3>1
    <3> QED BY <1>1, <2>9, <3>2 DEF PassTypes
  <2>14. CASE ~c1 /\ ~c2 /\ ~c3
    <3>1. Sp!Looped(a, i) = a
      BY <2>10, <2>14
    <3> QED BY <3>1
  <2> QED BY <2>11, <2>12, <2>13, <2>14
<1> QED BY <1>2, <1>3

\* Some number of a list is greatest.
LEMMA SomeIsGreatest ==
  ASSUME NEW n \in Nat \ {0}, NEW g, \A i \in 1..n : g[i] \in Int
  PROVE  \E k \in 1..n : \A i \in 1..n : g[i] <= g[k]
<1> DEFINE T == {m \in 1..n : ~\E k \in 1..m : \A i \in 1..m : g[i] <= g[k]}
<1> SUFFICES ASSUME T # {} PROVE FALSE
  <2>1. n \in 1..n
    OBVIOUS
  <2> QED BY <2>1
<1>1. T \in SUBSET Nat
  OBVIOUS
<1>2. PICK m \in T : \A j \in T : m <= j
  BY <1>1, LeastNat, Zenon
<1>3. m \in 1..n /\ ~\E k \in 1..m : \A i \in 1..m : g[i] <= g[k]
  OBVIOUS
<1>4. m # 1
  <2> SUFFICES ASSUME m = 1 PROVE FALSE
    OBVIOUS
  <2>1. 1 \in 1..1 /\ g[1] \in Int /\ \A i \in 1..1 : i = 1
    BY <1>3
  <2>2. \A i \in 1..1 : g[i] <= g[1]
    BY <2>1
  <2> QED BY <1>3, <2>1, <2>2
<1>5. m - 1 \in 1..n /\ ~(m <= m - 1)
  BY <1>3, <1>4
<1>6. PICK k \in 1..(m - 1) : \A i \in 1..(m - 1) : g[i] <= g[k]
  BY <1>2, <1>5
<1>7. /\ m \in 1..m /\ k \in 1..m /\ g[m] \in Int /\ g[k] \in Int
      /\ \A i \in 1..m : i = m \/ i \in 1..(m - 1)
      /\ \A i \in 1..m : g[i] \in Int
  BY <1>3, <1>5
<1>8. CASE g[m] <= g[k]
  BY <1>3, <1>6, <1>7, <1>8
<1>9. CASE ~(g[m] <= g[k])
  <2>1. \A i \in 1..m : g[i] <= g[m]
    BY <1>6, <1>7, <1>9
  <2> QED BY <1>3, <1>7, <2>1
<1> QED BY <1>8, <1>9

\* The latest of the times in a queue.
LEMMA MaxOfIs ==
  ASSUME NEW es \in Seq(Queued), es # <<>>, NEW x \in {"startOn", "finishOn"}
  PROVE  /\ \E k \in 1..Len(es) : Sp!MaxOf(es, x) = es[k][x]
         /\ \A i \in 1..Len(es) : es[i][x] <= Sp!MaxOf(es, x)
         /\ Sp!MaxOf(es, x) \in Int
<1>1. Len(es) \in Nat \ {0} /\ DOMAIN es = 1..Len(es)
  OBVIOUS
<1>2. \A i \in 1..Len(es) : es[i][x] \in Int
  <2> SUFFICES ASSUME NEW i \in 1..Len(es) PROVE es[i][x] \in Int
    OBVIOUS
  <2>1. es[i] \in Queued
    OBVIOUS
  <2>2. es[i]["startOn"] \in Int /\ es[i]["finishOn"] \in Int
    BY <2>1 DEF Queued, Effects
  <2> QED BY <2>2
<1> DEFINE g == [i \in 1..Len(es) |-> es[i][x]]
           S == {es[i][x] : i \in DOMAIN es}
           P(t) == \A i \in DOMAIN es : es[i][x] <= t
<1>3. PICK k \in 1..Len(es) : \A i \in 1..Len(es) : g[i] <= g[k]
  BY <1>1, <1>2, SomeIsGreatest
<1>4. es[k][x] \in S /\ P(es[k][x])
  BY <1>1, <1>3
<1>5. Sp!MaxOf(es, x) = CHOOSE t \in S : P(t)
  BY DEF Sp!MaxOf
<1>6. Sp!MaxOf(es, x) \in S /\ P(Sp!MaxOf(es, x))
  BY <1>4, <1>5, Zenon
<1>7. \E j \in DOMAIN es : Sp!MaxOf(es, x) = es[j][x]
  BY <1>6
<1> QED BY <1>1, <1>2, <1>6, <1>7

\* and so does what add() changes.
LEMMA TimedType ==
  ASSUME NEW e \in Queued, NEW t \in Int, NEW u, u = t + Duration, Duration \in Int
  PROVE  [e EXCEPT !.startOn = t, !.finishOn = u] \in Queued
<1>1. e \in Effects /\ u \in Int
  BY DEF Queued
<1>2. [e EXCEPT !.startOn = t, !.finishOn = u] \in Effects
  BY <1>1 DEF Effects
<1>3. /\ [e EXCEPT !.startOn = t, !.finishOn = u].startOn = t
      /\ [e EXCEPT !.startOn = t, !.finishOn = u].finishOn = u
  BY <1>1 DEF Effects
<1> QED BY <1>2, <1>3 DEF Queued

LEMMA PostponedType ==
  ASSUME Sp!EffectAssumption, NEW es \in Seq(Queued)
  PROVE  Sp!Postponed(es) \in Seq(Queued) /\ Len(Sp!Postponed(es)) = Len(es)
<1> DEFINE g(i) == IF es[i].state = "idle"
                   THEN [es[i] EXCEPT !.startOn = @ + Duration, !.finishOn = @ + Duration]
                   ELSE es[i]
<1>1. DOMAIN es = 1..Len(es) /\ Len(es) \in Nat
  OBVIOUS
<1>2. \A i \in 1..Len(es) : g(i) \in Queued
  <2> SUFFICES ASSUME NEW i \in 1..Len(es) PROVE g(i) \in Queued
    OBVIOUS
  <2>1. es[i] \in Queued /\ Duration \in Int
    BY DEF Sp!EffectAssumption
  <2> DEFINE e == es[i]
             t == e.startOn + Duration
             u == e.finishOn + Duration
  <2>3. t \in Int /\ u \in Int /\ u = t + Duration
    BY <2>1, SMTT(40) DEF Queued, Effects
  <2>2. [e EXCEPT !.startOn = @ + Duration, !.finishOn = @ + Duration] = [e EXCEPT !.startOn = t, !.finishOn = u]
    BY <2>1 DEF Queued, Effects
  <2> HIDE DEF t, u
  <2>4. [e EXCEPT !.startOn = t, !.finishOn = u] \in Queued
    BY <2>1, <2>3, TimedType
  <2> QED BY <2>1, <2>2, <2>4
<1>3. Sp!Postponed(es) = [i \in 1..Len(es) |-> g(i)]
  BY <1>1 DEF Sp!Postponed
<1> HIDE DEF g
<1> QED BY <1>1, <1>2, <1>3

Positions == {"parallel", "front", "with-last", "end"}

LEMMA StartOnType ==
  ASSUME NEW es \in Seq(Queued), NEW position \in Positions
  PROVE  Sp!StartOn(es, position) \in Int
<1>1. CASE es = <<>> \/ position \in {"parallel", "front"}
  <2>1. Sp!StartOn(es, position) = 0
    BY <1>1 DEF Sp!StartOn
  <2> QED BY <2>1
<1>2. CASE es # <<>> /\ position = "with-last"
  <2>1. Sp!StartOn(es, position) = Sp!MaxOf(es, "startOn")
    BY <1>2 DEF Sp!StartOn
  <2> QED BY <1>2, <2>1, MaxOfIs
<1>3. CASE es # <<>> /\ position = "end"
  <2>1. Sp!StartOn(es, position) = Sp!MaxOf(es, "finishOn")
    BY <1>3 DEF Sp!StartOn
  <2> QED BY <1>3, <2>1, MaxOfIs
<1> QED BY <1>1, <1>2, <1>3 DEF Positions

LEMMA AddedType ==
  ASSUME Sp!EffectAssumption, NEW es \in Seq(Queued), NEW e \in Queued, NEW position \in Positions, NEW limit
  PROVE  Sp!Added(es, e, position, limit) \in Seq(Queued)
<1> DEFINE moved == IF position = "front" THEN Sp!Postponed(es) ELSE es
           t == Sp!StartOn(es, position)
           b == IF position = "end" THEN {es[i].id : i \in DOMAIN es} ELSE {}
           timed == [e EXCEPT !.startOn = t, !.finishOn = t + Duration, !.behind = b]
<1>1. moved \in Seq(Queued)
  BY PostponedType
<1>2. t \in Int /\ Duration \in Int
  BY StartOnType DEF Sp!EffectAssumption
<1>3. b \in SUBSET Nat
  <2>1. \A i \in DOMAIN es : es[i] \in Queued
    OBVIOUS
  <2> QED BY <2>1 DEF Queued, Effects
<1>4. Sp!Added(es, e, position, limit) = IF limit = 0 \/ Len(es) < limit THEN Append(moved, timed) ELSE moved
  BY DEF Sp!Added
<1> HIDE DEF t, b, moved
<1> DEFINE at == [e EXCEPT !.startOn = t, !.finishOn = t + Duration]
<1>5. timed \in Queued
  <2>1. at \in Queued
    <3>1. t + Duration \in Int
      BY <1>2
    <3> QED BY <1>2, <3>1, TimedType
  <2>2. timed = [at EXCEPT !.behind = b]
    BY DEF Queued, Effects
  <2> HIDE DEF at, timed
  <2>3. [at EXCEPT !.behind = b] \in Effects
    BY <1>3, <2>1 DEF Queued, Effects
  <2>4. [at EXCEPT !.behind = b].startOn = at.startOn /\ [at EXCEPT !.behind = b].finishOn = at.finishOn
    BY <2>1 DEF Queued, Effects
  <2> QED BY <2>1, <2>2, <2>3, <2>4 DEF Queued
<1> HIDE DEF timed
<1> QED BY <1>1, <1>4, <1>5

\* The steps keep the types.
LEMMA BareType == \A b \in BOOLEAN : Sp!Bare(b) \in Styles
BY DEF Sp!Bare, Styles

LEMMA QueueInitTypes == ASSUME Sp!EffectAssumption, Sp!Init PROVE QueueTypes
<1>1. page.most \in Nat
  BY DEF Sp!Init, Sp!EffectAssumption
<1>2. effects \in Seq(Queued)
  BY DEF Sp!Init
<1> QED BY <1>1, <1>2, BareType DEF Sp!Init, QueueTypes

LEMMA CreateTypes ==
  ASSUME Sp!EffectAssumption, QueueTypes, NEW k \in Sp!FirstStages, NEW position \in Positions,
         NEW limit, Sp!Create(k, position, limit)
  PROVE  QueueTypes'
<1>1. k \in Sp!Kinds /\ Sp!Effect(k).create \in Seq(CallNames)
  BY KindTypesAre DEF KindTypes, Sp!Kinds
<1>2. style' \in Styles
  BY <1>1, CallsType DEF Sp!Create, QueueTypes
<1>3. page.most \in Nat /\ effectsMade \in 0..page.most
  BY DEF QueueTypes, Sp!EffectAssumption
<1>4. effectsMade' \in 0..page.most /\ effectsMade' = effectsMade + 1
  BY <1>3 DEF Sp!Create
<1>5. effects' \in Seq(Queued)
  <2>1. effectsMade + 1 \in Nat
    BY <1>3
  <2>2. Sp!Fresh(effectsMade + 1, k, style, style) \in Queued
    BY <1>1, <2>1, FreshType DEF QueueTypes
  <2> QED BY <2>2, AddedType DEF QueueTypes, Sp!Create
<1>6. page' = page /\ apart' \in BOOLEAN
  BY DEF Sp!Create, QueueTypes
<1> QED BY <1>2, <1>4, <1>5, <1>6 DEF QueueTypes

LEMMA ReloadTypes == ASSUME Sp!EffectAssumption, QueueTypes, Sp!Reload PROVE QueueTypes'
<1>1. page.most \in Nat
  BY DEF QueueTypes, Sp!EffectAssumption
<1> QED BY <1>1, BareType DEF Sp!Reload, QueueTypes

\* An interval makes every effect older.
LEMMA BegunTypes ==
  ASSUME QueueTypes, NEW lag \in Int, Duration \in Int
  PROVE  /\ Aged(lag) \in Seq(Queued) /\ Len(Aged(lag)) = Len(effects) /\ PassTypes(Begun(lag))
         /\ \A i \in 1..Len(effects) :
                Aged(lag)[i] = [effects[i] EXCEPT !.startOn = @ - lag, !.finishOn = @ - lag]
<1> DEFINE g(i) == [effects[i] EXCEPT !.startOn = @ - lag, !.finishOn = @ - lag]
<1>1. effects \in Seq(Queued) /\ DOMAIN effects = 1..Len(effects) /\ Len(effects) \in Nat
  BY DEF QueueTypes
<1>2. \A i \in 1..Len(effects) : g(i) \in Queued
  <2> SUFFICES ASSUME NEW i \in 1..Len(effects) PROVE g(i) \in Queued
    OBVIOUS
  <2> DEFINE e == effects[i]
             t == e.startOn - lag
             u == e.finishOn - lag
  <2>1. e \in Queued
    BY <1>1
  <2>3. t \in Int /\ u \in Int /\ u = t + Duration
    BY <2>1 DEF Queued, Effects
  <2>2. g(i) = [e EXCEPT !.startOn = t, !.finishOn = u]
    BY <2>1 DEF Queued, Effects
  <2> HIDE DEF t, u, g
  <2>4. [e EXCEPT !.startOn = t, !.finishOn = u] \in Queued
    BY <2>1, <2>3, TimedType
  <2> QED BY <2>2, <2>4
<1>3. Aged(lag) = [i \in 1..Len(effects) |-> g(i)]
  BY <1>1 DEF Aged
<1> HIDE DEF g
<1>4. Aged(lag) \in Seq(Queued) /\ Len(Aged(lag)) = Len(effects)
  BY <1>1, <1>2, <1>3
<1>5. PassTypes(Begun(lag))
  BY <1>4 DEF PassTypes, Begun, QueueTypes
<1>6. \A i \in 1..Len(effects) : Aged(lag)[i] = g(i)
  BY <1>3
<1> QED BY <1>4, <1>5, <1>6 DEF g

LEMMA LoopTypes ==
  ASSUME Sp!EffectAssumption, QueueTypes, NEW lag \in 1..MaxLag, Sp!Loop(lag)
  PROVE  QueueTypes'
<1>1. lag \in Int /\ Duration \in Int /\ Len(effects) \in Nat
  BY DEF Sp!EffectAssumption, QueueTypes
<1>2. PICK f : /\ f[0] = Begun(lag)
               /\ \A i \in 1..Len(effects) : f[i] = Sp!Looped(f[i - 1], i)
               /\ effects' = f[Len(effects)].effects
               /\ style' = f[Len(effects)].style
  BY <1>1, PassIs
<1> DEFINE T == {i \in 0..Len(effects) : ~PassTypes(f[i])}
<1>3. T = {}
  <2> SUFFICES ASSUME T # {} PROVE FALSE
    OBVIOUS
  <2>1. T \in SUBSET Nat
    OBVIOUS
  <2>2. PICK m \in T : \A n \in T : m <= n
    BY <2>1, LeastNat, Zenon
  <2>3. PassTypes(f[0])
    BY <1>1, <1>2, BegunTypes
  <2>4. m # 0 /\ m \in 1..Len(effects)
    BY <2>3
  <2>5. m - 1 \in 0..Len(effects) /\ ~(m <= m - 1)
    BY <2>4
  <2>6. PassTypes(f[m - 1])
    BY <2>2, <2>5
  <2>7. f[m] = Sp!Looped(f[m - 1], m) /\ m \in Nat \ {0}
    BY <1>2, <2>4
  <2>8. PassTypes(f[m])
    BY <2>6, <2>7, LoopedType
  <2> QED BY <2>8
<1>4. PassTypes(f[Len(effects)])
  <2>1. Len(effects) \in 0..Len(effects)
    BY <1>1
  <2> QED BY <1>3, <2>1
<1>5. effects' \in Seq(Queued) /\ style' \in Styles
  BY <1>2, <1>4 DEF PassTypes
<1> QED BY <1>5 DEF Sp!Loop, QueueTypes

\* The kinds of a page.
LEMMA PageKinds ==
  ASSUME Sp!EffectAssumption, QueueTypes
  PROVE  /\ page.kinds \subseteq Sp!FirstStages /\ page.positions \subseteq Positions
         /\ page.limits \subseteq Nat /\ page.most \in Nat
BY DEF Sp!EffectAssumption, QueueTypes, Positions

LEMMA CreatedAs ==
  ASSUME Sp!EffectAssumption, QueueTypes, Sp!NewEffect \/ Sp!Toggle
  PROVE  \E k \in page.kinds, position \in Positions, limit \in Nat :
            /\ Sp!Create(k, position, limit)
            /\ position = "end" \/ position \in page.positions
<1>1. CASE Sp!NewEffect
  BY <1>1, PageKinds DEF Sp!NewEffect
<1>2. CASE Sp!Toggle
  <2>1. PICK pair \in Sp!Pairs :
          /\ {pair[1], pair[2]} \subseteq page.kinds
          /\ Sp!Create(IF style.shown THEN pair[2] ELSE pair[1], "end", 1)
    BY <1>2 DEF Sp!Toggle
  <2>2. (IF style.shown THEN pair[2] ELSE pair[1]) \in page.kinds
    BY <2>1
  <2>3. "end" \in Positions /\ 1 \in Nat
    BY DEF Positions
  <2> QED BY <2>1, <2>2, <2>3
<1> QED BY <1>1, <1>2

LEMMA QueueStepTypes ==
  ASSUME Sp!EffectAssumption, QueueTypes, [Sp!Next]_(Sp!vars)
  PROVE  QueueTypes'
<1>1. CASE UNCHANGED Sp!vars
  BY <1>1 DEF Sp!vars, QueueTypes
<1>2. CASE Sp!NewEffect \/ Sp!Toggle
  BY <1>2, CreatedAs, CreateTypes, PageKinds
<1> QED BY <1>1, <1>2, ReloadTypes, LoopTypes DEF Sp!Next

LEMMA QueueTypesFollow == ASSUME QueueTypes PROVE Sp!TypeOK
<1>1. \A i \in DOMAIN effects : effects[i] \in Queued
  BY DEF QueueTypes
<1> QED BY <1>1 DEF QueueTypes, Sp!TypeOK, Styles, Queued, Effects

----------------------------------------------------------------------------
(* Effects in line. *)

\* A queue in which effects of one stage wait for the one ahead, made so far.
Line(es, n) ==
  \A i \in 1..Len(es) :
    /\ Sp!Effect(es[i].kind).then = "none"
    /\ es[i].finishOn > 0
    /\ es[i].id <= n /\ \A b \in es[i].behind : b <= n
    /\ i > 1 => es[i].state = "idle"
    /\ \A j \in 1..Len(es) :
        /\ i < j => es[i].finishOn <= es[j].startOn
        /\ i <= j => es[j].id \notin es[i].behind

\* In line, an effect runs only when those ahead of it have gone.
LEMMA LineWaits == ASSUME QueueTypes, NEW n, Line(effects, n) PROVE Sp!EndWaits
<1>1. DOMAIN effects = 1..Len(effects) /\ Len(effects) \in Nat
  BY DEF QueueTypes
<1> SUFFICES ASSUME NEW i \in 1..Len(effects), effects[i].state = "running",
                    NEW j \in 1..Len(effects)
             PROVE  effects[j].id \notin effects[i].behind
  BY <1>1 DEF Sp!EndWaits
<1>2. i = 1
  <2>1. i > 1 => effects[i].state = "idle"
    BY DEF Line
  <2> QED BY <2>1
<1>3. i <= j
  BY <1>2
<1> QED BY <1>3 DEF Line

\* An effect is added at the end.
LEMMA LineAdded ==
  ASSUME Sp!EffectAssumption, NEW es \in Seq(Queued), NEW n \in Nat, Line(es, n),
         NEW e \in Queued, e.id = n + 1, e.state = "idle", Sp!Effect(e.kind).then = "none",
         NEW limit
  PROVE  /\ Line(Sp!Added(es, e, "end", limit), n + 1)
         /\ limit = 0 =>
              LET new == Sp!Added(es, e, "end", limit)
              IN  /\ Len(new) = Len(es) + 1
                  /\ \A i \in 1..Len(es) : new[i] = es[i]
                  /\ new[Len(new)].kind = e.kind /\ new[Len(new)].state = "idle"
                  /\ new[Len(new)].old = e.old /\ new[Len(new)].from = e.from
<1> DEFINE t == Sp!StartOn(es, "end")
           b == {es[i].id : i \in DOMAIN es}
           x == [e EXCEPT !.startOn = t, !.finishOn = t + Duration, !.behind = b]
<1>1. DOMAIN es = 1..Len(es) /\ Len(es) \in Nat /\ Duration \in Int /\ Duration > 0
  BY DEF Sp!EffectAssumption
<1>2. \A i \in 1..Len(es) : es[i].id \in Nat /\ es[i].startOn \in Int /\ es[i].finishOn \in Int
  <2> SUFFICES ASSUME NEW i \in 1..Len(es)
               PROVE  es[i].id \in Nat /\ es[i].startOn \in Int /\ es[i].finishOn \in Int
    OBVIOUS
  <2>1. es[i] \in Queued
    OBVIOUS
  <2> QED BY <2>1 DEF Queued, Effects
<1>3. t \in Int /\ t >= 0 /\ \A i \in 1..Len(es) : es[i].finishOn <= t
  <2>1. CASE es = <<>>
    <3>1. t = 0
      BY <2>1 DEF Sp!StartOn
    <3> QED BY <2>1, <3>1
  <2>2. CASE es # <<>>
    <3>1. t = Sp!MaxOf(es, "finishOn")
      BY <2>2 DEF Sp!StartOn
    <3>2. t \in Int /\ \A i \in 1..Len(es) : es[i].finishOn <= t
      BY <2>2, <3>1, MaxOfIs
    <3>3. 1 \in 1..Len(es)
      BY <1>1, <2>2
    <3>4. es[1].finishOn > 0 /\ es[1].finishOn <= t /\ es[1].finishOn \in Int
      BY <1>2, <3>2, <3>3 DEF Line
    <3> QED BY <3>2, <3>4
  <2> QED BY <2>1, <2>2
<1>4. Sp!Added(es, e, "end", limit) = IF limit = 0 \/ Len(es) < limit THEN Append(es, x) ELSE es
  BY DEF Sp!Added
<1> HIDE DEF t
<1>5. /\ x.startOn = t /\ x.finishOn = t + Duration /\ x.behind = b
      /\ x.id = e.id /\ x.state = e.state /\ x.kind = e.kind /\ x.old = e.old /\ x.from = e.from
  BY DEF Queued, Effects
<1> HIDE DEF x, b
<1>6. ASSUME NEW z, z = Append(es, x)
      PROVE  /\ Len(z) = Len(es) + 1 /\ z[Len(es) + 1] = x
             /\ \A i \in 1..Len(es) : z[i] = es[i]
             /\ Line(z, n + 1)
  <2>1. /\ Len(z) = Len(es) + 1 /\ z[Len(es) + 1] = x
        /\ \A i \in 1..Len(es) : z[i] = es[i]
    BY <1>6
  <2>2. ASSUME NEW i \in 1..Len(es)
        PROVE  /\ Sp!Effect(z[i].kind).then = "none"
               /\ z[i].finishOn > 0
               /\ z[i].id <= n + 1 /\ (\A c \in z[i].behind : c <= n + 1)
               /\ i > 1 => z[i].state = "idle"
               /\ \A j \in 1..Len(z) :
                    /\ i < j => z[i].finishOn <= z[j].startOn
                    /\ i <= j => z[j].id \notin z[i].behind
    <3>1. /\ Sp!Effect(es[i].kind).then = "none" /\ es[i].finishOn > 0
          /\ es[i].id <= n /\ (\A c \in es[i].behind : c <= n)
          /\ i > 1 => es[i].state = "idle"
          /\ \A j \in 1..Len(es) :
                    /\ i < j => es[i].finishOn <= es[j].startOn
                    /\ i <= j => es[j].id \notin es[i].behind
      BY DEF Line
    <3>2. es[i].behind \subseteq Nat /\ es[i].id \in Nat
      <4>1. es[i] \in Queued
        OBVIOUS
      <4> QED BY <4>1 DEF Queued, Effects
    <3>3. n + 1 \notin es[i].behind
      BY <3>1
    <3>4. ASSUME NEW j \in 1..Len(z)
          PROVE  /\ i < j => z[i].finishOn <= z[j].startOn
                 /\ i <= j => z[j].id \notin z[i].behind
      <4>1. CASE j = Len(es) + 1
        BY <1>3, <1>5, <2>1, <3>3, <4>1
      <4>2. CASE j # Len(es) + 1
        <5>1. j \in 1..Len(es)
          BY <1>1, <2>1, <4>2
        <5> QED BY <2>1, <3>1, <5>1
      <4> QED BY <4>1, <4>2
    <3>5. es[i].id <= n + 1 /\ \A c \in es[i].behind : c <= n + 1
      BY <3>1, <3>2
    <3> QED BY <2>1, <3>1, <3>4, <3>5
  <2>3. ASSUME NEW i, i = Len(es) + 1
        PROVE  /\ Sp!Effect(z[i].kind).then = "none"
               /\ z[i].finishOn > 0
               /\ z[i].id <= n + 1 /\ (\A c \in z[i].behind : c <= n + 1)
               /\ i > 1 => z[i].state = "idle"
               /\ \A j \in 1..Len(z) :
                    /\ i < j => z[i].finishOn <= z[j].startOn
                    /\ i <= j => z[j].id \notin z[i].behind
    <3>1. \A c \in b : c <= n /\ c \in Nat
      BY <1>1, <1>2 DEF b, Line
    <3>2. n + 1 \notin b /\ \A c \in b : c <= n + 1
      BY <3>1
    <3>3. z[i] = x
      BY <2>1, <2>3
    <3>4. t + Duration > 0
      BY <1>1, <1>3
    <3>5. \A j \in 1..Len(z) : ~(i < j) /\ (i <= j => j = i)
      BY <1>1, <2>1, <2>3
    <3> QED BY <1>5, <3>2, <3>3, <3>4, <3>5
  <2>4. \A i \in 1..Len(z) : i \in 1..Len(es) \/ i = Len(es) + 1
    BY <1>1, <2>1
  <2>5. Line(z, n + 1)
    BY <2>2, <2>3, <2>4 DEF Line
  <2> QED BY <2>1, <2>5
<1>7. Line(es, n + 1)
  <2>1. \A i \in 1..Len(es) : es[i].behind \subseteq Nat
    <3> SUFFICES ASSUME NEW i \in 1..Len(es) PROVE es[i].behind \subseteq Nat
      OBVIOUS
    <3>1. es[i] \in Queued
      OBVIOUS
    <3> QED BY <3>1 DEF Queued, Effects
  <2> QED BY <1>2, <2>1 DEF Line
<1>8. CASE limit = 0 \/ Len(es) < limit
  BY <1>1, <1>4, <1>5, <1>6, <1>8
<1>9. CASE ~(limit = 0 \/ Len(es) < limit)
  BY <1>4, <1>7, <1>9
<1> QED BY <1>8, <1>9

\* What the pass does to the first effect.
HeadLooped(lag, es, s) ==
  LET d == Aged(lag)
      e == d[1]
      drawn == Sp!Rendered(e, style, e.finishOn <= 0)
  IN  \/ /\ e.kind = "Highlight" /\ e.state = "idle"
         /\ es = Sp!RemoveAt(d, 1) /\ s = style
      \/ /\ e.finishOn <= 0
         /\ es = Sp!RemoveAt(d, 1) /\ s = Sp!Finished(drawn.effect, drawn.style)
      \/ /\ e.finishOn > 0 /\ e.startOn < 0
         /\ es = [d EXCEPT ![1] = drawn.effect] /\ s = drawn.style
      \/ e.finishOn > 0 /\ es = d /\ s = style

\* What the pass does to one effect.
LEMMA LoopedIs ==
  ASSUME Sp!EffectAssumption, NEW a, PassTypes(a), NEW i \in 1..Len(a.effects), ~a.raised
  PROVE  LET e == a.effects[i]
             fx == Sp!Effect(e.kind)
             z == Sp!Looped(a, i)
             drawn == Sp!Rendered(e, a.style, e.finishOn <= 0)
             rest == Sp!RemoveAt(a.effects, i)
             next == Sp!Fresh(e.id + Sp!NextStage, fx.then, a.style, e.old)
         IN  \/ /\ e.kind = "Highlight" /\ e.state = "idle"
                /\ z.effects = rest /\ z.style = a.style
             \/ /\ e.finishOn <= 0
                /\ z.effects = IF fx.then = "none" THEN rest ELSE Append(rest, next)
                /\ z.style = Sp!Finished(drawn.effect, drawn.style)
             \/ /\ e.finishOn > 0 /\ e.startOn < 0
                /\ z.effects = [a.effects EXCEPT ![i] = drawn.effect] /\ z.style = drawn.style
             \/ e.finishOn > 0 /\ z.effects = a.effects /\ z.style = a.style
<1> DEFINE e == a.effects[i]
           fx == Sp!Effect(e.kind)
           hid == e.kind = "Highlight" /\ e.state = "idle" /\ ~a.style.shown
           drawn == Sp!Rendered(e, a.style, e.finishOn <= 0)
           rest == Sp!RemoveAt(a.effects, i)
           next == Sp!Fresh(e.id + Sp!NextStage, fx.then, a.style, e.old)
           c1 == hid /\ e.startOn < 0
           c2 == e.finishOn <= 0 /\ ~hid
           c3 == e.startOn < 0 /\ e.finishOn > 0 /\ ~hid
           z == Sp!Looped(a, i)
           fin == Sp!Finished(drawn.effect, drawn.style)
           after == IF fx.then = "none" THEN rest ELSE Append(rest, next)
           run == [a.effects EXCEPT ![i] = drawn.effect]
           late == e.finishOn <= 0
           ds == drawn.style
<1>1. a.effects \in Seq(Queued) /\ Duration \in Int /\ Duration > 0
      /\ a = [effects |-> a.effects, style |-> a.style, raised |-> a.raised]
  BY DEF PassTypes, Sp!EffectAssumption
<1>2. e \in Queued
  BY <1>1
<1>3. e.startOn \in Int /\ e.finishOn \in Int /\ e.finishOn = e.startOn + Duration
  <2> HIDE DEF e
  <2> QED BY <1>2 DEF Queued, Effects
<1>4. z = CASE c1 -> [a EXCEPT !.effects = rest, !.raised = e.finishOn <= 0]
            [] c2 -> [a EXCEPT !.style = Sp!Finished(drawn.effect, drawn.style),
                               !.effects = IF fx.then = "none" THEN rest ELSE Append(rest, next)]
            [] c3 -> [a EXCEPT !.style = drawn.style,
                               !.effects = [@ EXCEPT ![i] = drawn.effect]]
            [] OTHER -> a
  <2>1. ~(a.raised \/ i > Len(a.effects))
    BY <1>1
  <2> QED BY <2>1, Zenon DEF Sp!Looped
<1>5. [a EXCEPT !.style = ds, !.effects = [@ EXCEPT ![i] = drawn.effect]]
             = [a EXCEPT !.style = ds, !.effects = run]
  <2> HIDE DEF drawn
  <2> QED BY <1>1
<1>6. z = CASE c1 -> [a EXCEPT !.effects = rest, !.raised = late]
            [] c2 -> [a EXCEPT !.style = fin, !.effects = after]
            [] c3 -> [a EXCEPT !.style = ds, !.effects = run]
            [] OTHER -> a
  BY <1>4, <1>5, Zenon
<1> SUFFICES \/ /\ e.kind = "Highlight" /\ e.state = "idle"
                /\ z.effects = rest /\ z.style = a.style
             \/ e.finishOn <= 0 /\ z.effects = after /\ z.style = fin
             \/ e.finishOn > 0 /\ e.startOn < 0 /\ z.effects = run /\ z.style = ds
             \/ e.finishOn > 0 /\ z.effects = a.effects /\ z.style = a.style
  OBVIOUS
<1>7. hid => e.kind = "Highlight" /\ e.state = "idle"
  OBVIOUS
<1> HIDE DEF z, drawn, rest, next, after, fin, run, ds, late, e, fx, c1, c2, c3, hid
<1>8. CASE c1
  <2>1. ~c2 /\ ~c3
    BY <1>3, <1>8 DEF c1, c2, c3
  <2>2. z = [a EXCEPT !.effects = rest, !.raised = late]
    BY <1>6, <1>8, <2>1
  <2>3. z.effects = rest /\ z.style = a.style
    BY <1>1, <2>2
  <2> QED BY <1>7, <1>8, <2>3 DEF c1
<1>9. CASE c2
  <2>1. ~c1 /\ ~c3
    BY <1>3, <1>9 DEF c1, c2, c3
  <2>2. z = [a EXCEPT !.style = fin, !.effects = after]
    BY <1>6, <1>9, <2>1
  <2>3. z.effects = after /\ z.style = fin
    BY <1>1, <2>2
  <2> QED BY <1>9, <2>3 DEF c2
<1>10. CASE c3
  <2>1. ~c1 /\ ~c2
    BY <1>3, <1>10 DEF c1, c2, c3
  <2>2. z = [a EXCEPT !.style = ds, !.effects = run]
    BY <1>6, <1>10, <2>1
  <2>3. z.effects = run /\ z.style = ds
    BY <1>1, <2>2
  <2> QED BY <1>10, <2>3 DEF c3
<1>11. CASE ~c1 /\ ~c2 /\ ~c3
  <2>1. z = a
    BY <1>6, <1>11
  <2>2. e.finishOn > 0
    BY <1>1, <1>3, <1>11 DEF c1, c2, c3
  <2> QED BY <2>1, <2>2
<1> QED BY <1>8, <1>9, <1>10, <1>11

LEMMA HeadIs ==
  ASSUME Sp!EffectAssumption, QueueTypes, NEW n, Line(effects, n), effects # <<>>,
         NEW lag \in Int
  PROVE  HeadLooped(lag, Sp!Looped(Begun(lag), 1).effects, Sp!Looped(Begun(lag), 1).style)
<1> DEFINE d == Aged(lag)
           a == Begun(lag)
<1>1. 1 \in 1..Len(effects) /\ Duration \in Int /\ effects \in Seq(Queued)
  <2>1. effects \in Seq(Queued) /\ Duration \in Int
    BY DEF Sp!EffectAssumption, QueueTypes
  <2> QED BY <2>1
<1>2. /\ d \in Seq(Queued) /\ Len(d) = Len(effects) /\ PassTypes(a)
      /\ d[1] = [effects[1] EXCEPT !.startOn = @ - lag, !.finishOn = @ - lag]
  <2>1. /\ d \in Seq(Queued) /\ Len(d) = Len(effects) /\ PassTypes(a)
        /\ \A i \in 1..Len(effects) :
              d[i] = [effects[i] EXCEPT !.startOn = @ - lag, !.finishOn = @ - lag]
    BY <1>1, BegunTypes
  <2> HIDE DEF d, a
  <2> QED BY <1>1, <2>1
<1>3. a.effects = d /\ a.style = style /\ a.raised = FALSE
  BY DEF Begun
<1>4. d[1].kind = effects[1].kind
  <2>1. effects[1] \in Queued
    BY <1>1
  <2> HIDE DEF d
  <2> QED BY <1>2, <2>1 DEF Queued, Effects
<1>5. Sp!Effect(d[1].kind).then = "none"
  BY <1>1, <1>4 DEF Line
<1>6. 1 \in 1..Len(a.effects) /\ ~a.raised
  BY <1>1, <1>2, <1>3
<1> HIDE DEF a, d
<1>7. HeadLooped(lag, Sp!Looped(a, 1).effects, Sp!Looped(a, 1).style)
  <2> DEFINE drawn == Sp!Rendered(d[1], style, d[1].finishOn <= 0)
             rest == Sp!RemoveAt(d, 1)
             fin == Sp!Finished(drawn.effect, drawn.style)
             run == [d EXCEPT ![1] = drawn.effect]
             next == Sp!Fresh(d[1].id + Sp!NextStage, Sp!Effect(d[1].kind).then, style, d[1].old)
             z == Sp!Looped(a, 1)
  <2>1. LET e == a.effects[1]
            x == Sp!Rendered(e, a.style, e.finishOn <= 0)
            r == Sp!RemoveAt(a.effects, 1)
            w == Sp!Fresh(e.id + Sp!NextStage, Sp!Effect(e.kind).then, a.style, e.old)
        IN  \/ /\ e.kind = "Highlight" /\ e.state = "idle"
               /\ z.effects = r /\ z.style = a.style
            \/ /\ e.finishOn <= 0
               /\ z.effects = IF Sp!Effect(e.kind).then = "none" THEN r ELSE Append(r, w)
               /\ z.style = Sp!Finished(x.effect, x.style)
            \/ /\ e.finishOn > 0 /\ e.startOn < 0
               /\ z.effects = [a.effects EXCEPT ![1] = x.effect] /\ z.style = x.style
            \/ e.finishOn > 0 /\ z.effects = a.effects /\ z.style = a.style
    BY <1>2, <1>6, LoopedIs, Zenon
  <2>2. \/ /\ d[1].kind = "Highlight" /\ d[1].state = "idle"
           /\ z.effects = rest /\ z.style = style
        \/ /\ d[1].finishOn <= 0
           /\ z.effects = IF Sp!Effect(d[1].kind).then = "none" THEN rest ELSE Append(rest, next)
           /\ z.style = fin
        \/ /\ d[1].finishOn > 0 /\ d[1].startOn < 0
           /\ z.effects = run /\ z.style = drawn.style
        \/ d[1].finishOn > 0 /\ z.effects = d /\ z.style = style
    BY <1>3, <2>1, Zenon
  <2> HIDE DEF rest, fin, run, next
  <2>3. \/ /\ d[1].kind = "Highlight" /\ d[1].state = "idle"
           /\ z.effects = rest /\ z.style = style
        \/ /\ d[1].finishOn <= 0 /\ z.effects = rest /\ z.style = fin
        \/ /\ d[1].finishOn > 0 /\ d[1].startOn < 0
           /\ z.effects = run /\ z.style = drawn.style
        \/ d[1].finishOn > 0 /\ z.effects = d /\ z.style = style
    BY <1>5, <2>2, Zenon
  <2> QED BY <2>3, Zenon DEF HeadLooped, rest, fin, run, d
<1> QED BY <1>7 DEF a

\* What is due after the first effect.
LEMMA AgedLater ==
  ASSUME Sp!EffectAssumption, QueueTypes, NEW n, Line(effects, n), MaxLag <= Duration,
         NEW lag \in 1..MaxLag, effects # <<>>
  PROVE  /\ Aged(lag) \in Seq(Queued) /\ Len(Aged(lag)) = Len(effects) /\ Len(effects) \in Nat \ {0}
         /\ \A i \in 1..Len(effects) :
              /\ Aged(lag)[i] \in Queued /\ effects[i] \in Queued
              /\ Aged(lag)[i].startOn = effects[i].startOn - lag
              /\ Aged(lag)[i].finishOn = effects[i].finishOn - lag
              /\ Aged(lag)[i].id = effects[i].id /\ Aged(lag)[i].kind = effects[i].kind
              /\ Aged(lag)[i].state = effects[i].state /\ Aged(lag)[i].behind = effects[i].behind
              /\ Aged(lag)[i].old = effects[i].old /\ Aged(lag)[i].from = effects[i].from
         /\ \A i \in 2..Len(effects) :
              /\ Aged(lag)[i].finishOn > 0
              /\ Aged(lag)[1].finishOn <= Aged(lag)[i].startOn
              /\ i > 2 => Aged(lag)[i].startOn > 0
<1>1. /\ Duration \in Int /\ Duration > 0 /\ MaxLag \in Int /\ effects \in Seq(Queued)
      /\ Len(effects) \in Nat \ {0} /\ lag \in Int /\ lag <= Duration
  BY DEF Sp!EffectAssumption, QueueTypes
<1>2. /\ Aged(lag) \in Seq(Queued) /\ Len(Aged(lag)) = Len(effects)
      /\ \A i \in 1..Len(effects) :
            Aged(lag)[i] = [effects[i] EXCEPT !.startOn = @ - lag, !.finishOn = @ - lag]
  BY <1>1, BegunTypes
<1>3. ASSUME NEW i \in 1..Len(effects)
      PROVE  /\ Aged(lag)[i] \in Queued /\ effects[i] \in Queued
             /\ Aged(lag)[i].startOn = effects[i].startOn - lag
             /\ Aged(lag)[i].finishOn = effects[i].finishOn - lag
             /\ Aged(lag)[i].id = effects[i].id /\ Aged(lag)[i].kind = effects[i].kind
             /\ Aged(lag)[i].state = effects[i].state /\ Aged(lag)[i].behind = effects[i].behind
             /\ Aged(lag)[i].old = effects[i].old /\ Aged(lag)[i].from = effects[i].from
  <2>1. Aged(lag)[i] \in Queued /\ effects[i] \in Queued
    <3>1. \A s \in Seq(Queued) : i \in 1..Len(s) => s[i] \in Queued
      OBVIOUS
    <3> QED BY <1>1, <1>2, <3>1
  <2>2. Aged(lag)[i] = [effects[i] EXCEPT !.startOn = @ - lag, !.finishOn = @ - lag]
    BY <1>2
  <2> QED BY <2>1, <2>2 DEF Queued, Effects
<1>4. \A i \in 1..Len(effects) :
         /\ effects[i].startOn \in Int /\ effects[i].finishOn \in Int
         /\ effects[i].finishOn = effects[i].startOn + Duration
  BY <1>3 DEF Queued, Effects
<1>5. ASSUME NEW i \in 2..Len(effects)
      PROVE  /\ Aged(lag)[i].finishOn > 0
             /\ Aged(lag)[1].finishOn <= Aged(lag)[i].startOn
             /\ i > 2 => Aged(lag)[i].startOn > 0
  <2>1. i \in 1..Len(effects) /\ 1 \in 1..Len(effects) /\ 1 < i
    BY <1>1
  <2>2. effects[1].finishOn > 0 /\ effects[1].finishOn <= effects[i].startOn
    BY <2>1 DEF Line
  <2>3. /\ effects[1].startOn \in Int /\ effects[1].finishOn \in Int
        /\ effects[i].startOn \in Int /\ effects[i].finishOn = effects[i].startOn + Duration
    BY <1>4, <2>1
  <2>4. /\ Aged(lag)[i].startOn = effects[i].startOn - lag
        /\ Aged(lag)[i].finishOn = effects[i].finishOn - lag
        /\ Aged(lag)[1].finishOn = effects[1].finishOn - lag
    BY <1>3, <2>1
  <2>5. Aged(lag)[i].finishOn > 0 /\ Aged(lag)[1].finishOn <= Aged(lag)[i].startOn
    BY <1>1, <2>2, <2>3, <2>4
  <2>6. ASSUME i > 2 PROVE Aged(lag)[i].startOn > 0
    <3>1. 2 \in 1..Len(effects) /\ 1 < 2 /\ 2 < i
      BY <1>1, <2>6
    <3>2. effects[1].finishOn <= effects[2].startOn /\ effects[2].finishOn <= effects[i].startOn
      BY <2>1, <3>1 DEF Line
    <3>3. effects[2].startOn \in Int /\ effects[2].finishOn = effects[2].startOn + Duration
      BY <1>4, <3>1
    <3> QED BY <1>1, <2>2, <2>3, <2>4, <3>2, <3>3, SMTT(40)
  <2> QED BY <2>5, <2>6
<1> QED BY <1>1, <1>2, <1>3, <1>5

\* An effect that is not due yet stays as it is.
LEMMA LoopedLater ==
  ASSUME NEW a, NEW i, Len(a.effects) \in Nat, i \in Nat,
         \/ i > Len(a.effects)
         \/ /\ a.effects[i].startOn \in Int /\ a.effects[i].startOn > 0
            /\ a.effects[i].finishOn \in Int /\ a.effects[i].finishOn > 0
  PROVE  Sp!Looped(a, i) = a
<1> DEFINE e == a.effects[i]
           fx == Sp!Effect(e.kind)
           hid == e.kind = "Highlight" /\ e.state = "idle" /\ ~a.style.shown
           drawn == Sp!Rendered(e, a.style, e.finishOn <= 0)
           rest == Sp!RemoveAt(a.effects, i)
           next == Sp!Fresh(e.id + Sp!NextStage, fx.then, a.style, e.old)
           c1 == hid /\ e.startOn < 0
           c2 == e.finishOn <= 0 /\ ~hid
           c3 == e.startOn < 0 /\ e.finishOn > 0 /\ ~hid
<1>1. CASE a.raised \/ i > Len(a.effects)
  BY <1>1 DEF Sp!Looped
<1>2. CASE ~(a.raised \/ i > Len(a.effects))
  <2> DEFINE x == [a EXCEPT !.effects = rest, !.raised = e.finishOn <= 0]
             y == [a EXCEPT !.style = Sp!Finished(drawn.effect, drawn.style),
                            !.effects = IF fx.then = "none" THEN rest ELSE Append(rest, next)]
             z == [a EXCEPT !.style = drawn.style,
                            !.effects = [@ EXCEPT ![i] = drawn.effect]]
  <2>1. Sp!Looped(a, i) = CASE c1 -> x [] c2 -> y [] c3 -> z [] OTHER -> a
    BY <1>2, Zenon DEF Sp!Looped
  <2>2. ~c1 /\ ~c2 /\ ~c3
    <3>1. e.startOn \in Int /\ e.startOn > 0 /\ e.finishOn \in Int /\ e.finishOn > 0
      BY <1>2
    <3> HIDE DEF e, hid
    <3> QED BY <3>1
  <2> HIDE DEF c1, c2, c3, x, y, z
  <2> QED BY <2>1, <2>2
<1> QED BY <1>1, <1>2

\* In line, the interval takes the first effect forward and no other.
LEMMA LinePass ==
  ASSUME Sp!EffectAssumption, QueueTypes, NEW n, Line(effects, n), MaxLag <= Duration,
         NEW lag \in 1..MaxLag, Sp!Loop(lag)
  PROVE  HeadLooped(lag, effects', style')
<1> DEFINE d == Aged(lag)
           e == d[1]
           a == Sp!Looped(Begun(lag), 1)
           drawn == Sp!Rendered(e, style, e.finishOn <= 0)
<1>1. effects # <<>> /\ lag \in Int /\ Len(effects) \in Nat \ {0}
  <2>1. effects # <<>> /\ effects \in Seq(Queued)
    BY DEF Sp!Loop, QueueTypes
  <2>2. lag \in Int
    BY DEF Sp!EffectAssumption
  <2> QED BY <2>1, <2>2
<1>2. HeadLooped(lag, a.effects, a.style)
  BY <1>1, HeadIs
<1>3. /\ d \in Seq(Queued) /\ Len(d) = Len(effects)
      /\ \A i \in 1..Len(effects) : d[i] \in Queued
      /\ \A i \in 2..Len(effects) :
              /\ d[i].finishOn > 0
              /\ d[1].finishOn <= d[i].startOn
              /\ i > 2 => d[i].startOn > 0
  BY <1>1, AgedLater
<1>4. \A i \in 1..Len(effects) : d[i].startOn \in Int /\ d[i].finishOn \in Int
  <2> HIDE DEF d
  <2> QED BY <1>3 DEF Queued, Effects
<1>5. ASSUME NEW i \in 2..Len(effects)
      PROVE  Sp!Looped(a, i) = a
  <2>1. i \in Nat /\ i \in 1..Len(effects) /\ 1 \in 1..Len(effects)
    BY <1>1
  <2>2. CASE a.effects = Sp!RemoveAt(d, 1)
    <3>1. /\ Len(a.effects) = Len(effects) - 1
          /\ \A j \in 1..(Len(effects) - 1) : a.effects[j] = d[j + 1]
      <4> HIDE DEF d
      <4>0. 1 \in 1..Len(d)
        BY <1>1, <1>3
      <4>1. /\ Len(Sp!RemoveAt(d, 1)) = Len(d) - 1
            /\ \A j \in 1..(Len(d) - 1) : Sp!RemoveAt(d, 1)[j] = IF j < 1 THEN d[j] ELSE d[j + 1]
        BY <1>3, <4>0, RemovedIs
      <4> HIDE DEF a
      <4> QED BY <1>1, <1>3, <2>2, <4>1
    <3>2. CASE i > Len(a.effects)
      <4> HIDE DEF a
      <4> QED BY <1>1, <2>1, <3>1, <3>2, LoopedLater
    <3>3. CASE ~(i > Len(a.effects))
      <4> HIDE DEF a
      <4>1. i \in 1..(Len(effects) - 1) /\ i + 1 \in 2..Len(effects) /\ i + 1 > 2 /\ i + 1 \in 1..Len(effects)
        BY <1>1, <2>1, <3>1, <3>3
      <4>2. a.effects[i] = d[i + 1] /\ Len(a.effects) \in Nat
        BY <1>1, <3>1, <4>1
      <4>3. d[i + 1].startOn > 0 /\ d[i + 1].finishOn > 0
        BY <1>3, <4>1
      <4>4. d[i + 1].startOn \in Int /\ d[i + 1].finishOn \in Int
        BY <1>4, <4>1
      <4> HIDE DEF d
      <4> QED BY <2>1, <4>2, <4>3, <4>4, LoopedLater
    <3> QED BY <3>2, <3>3
  <2>3. CASE e.finishOn > 0 /\ (a.effects = [d EXCEPT ![1] = drawn.effect] \/ a.effects = d)
    <3>1. a.effects[i] = d[i] /\ Len(a.effects) = Len(d) /\ Len(d) \in Nat
      <4> HIDE DEF a, d, drawn
      <4> QED BY <1>1, <1>3, <2>1, <2>3
    <3>2. d[i].startOn > 0 /\ d[i].finishOn > 0
      <4>1. d[1].finishOn > 0 /\ d[1].finishOn <= d[i].startOn /\ d[i].finishOn > 0
        BY <1>3, <2>3
      <4>2. d[1].finishOn \in Int /\ d[i].startOn \in Int
        BY <1>4, <2>1
      <4> HIDE DEF d
      <4> QED BY <4>1, <4>2
    <3>3. d[i].startOn \in Int /\ d[i].finishOn \in Int
      BY <1>4, <2>1
    <3> HIDE DEF a, d
    <3> QED BY <2>1, <3>1, <3>2, <3>3, LoopedLater
  <2> QED BY <1>2, <2>2, <2>3 DEF HeadLooped
<1>6. PICK f : /\ f[0] = Begun(lag)
               /\ \A i \in 1..Len(effects) : f[i] = Sp!Looped(f[i - 1], i)
               /\ effects' = f[Len(effects)].effects
               /\ style' = f[Len(effects)].style
  BY <1>1, PassIs
<1> DEFINE T == {i \in 1..Len(effects) : f[i] # a}
<1>7. T = {}
  <2> SUFFICES ASSUME T # {} PROVE FALSE
    OBVIOUS
  <2>1. T \in SUBSET Nat
    OBVIOUS
  <2>2. PICK m \in T : \A k \in T : m <= k
    BY <2>1, LeastNat, Zenon
  <2>3. f[1] = a
    <3>1. 1 \in 1..Len(effects) /\ 1 - 1 = 0
      BY <1>1
    <3> QED BY <1>6, <3>1
  <2> HIDE DEF a
  <2>4. m \in 2..Len(effects) /\ m - 1 \in 1..Len(effects) /\ ~(m <= m - 1) /\ m \in 1..Len(effects)
    BY <1>1, <2>3
  <2>5. f[m - 1] = a
    BY <2>2, <2>4
  <2>6. f[m] = a
    BY <1>5, <1>6, <2>4, <2>5
  <2> QED BY <2>6
<1>8. Len(effects) \in 1..Len(effects)
  BY <1>1
<1>9. effects' = a.effects /\ style' = a.style
  <2> HIDE DEF a
  <2> QED BY <1>6, <1>7, <1>8
<1> QED BY <1>2, <1>9

\* The effects of a line stay in line as the first of them goes on.
LEMMA LineLooped ==
  ASSUME Sp!EffectAssumption, QueueTypes, NEW n, Line(effects, n), MaxLag <= Duration,
         NEW lag \in 1..MaxLag, effects # <<>>, NEW es, NEW s, HeadLooped(lag, es, s)
  PROVE  Line(es, n)
<1> DEFINE d == Aged(lag)
           e == d[1]
           drawn == Sp!Rendered(e, style, e.finishOn <= 0)
<1>1. /\ d \in Seq(Queued) /\ Len(d) = Len(effects) /\ Len(effects) \in Nat \ {0}
      /\ 1 \in 1..Len(effects) /\ e \in Queued
  BY AgedLater
<1>2. ASSUME NEW i \in 1..Len(effects)
      PROVE  /\ Sp!Effect(d[i].kind).then = "none"
             /\ d[i].id <= n /\ \A b \in d[i].behind : b <= n
             /\ i > 1 => d[i].state = "idle" /\ d[i].finishOn > 0
             /\ \A j \in 1..Len(effects) :
                  /\ i < j => d[i].finishOn <= d[j].startOn
                  /\ i <= j => d[j].id \notin d[i].behind
  <2>1. /\ Sp!Effect(effects[i].kind).then = "none"
        /\ effects[i].id <= n /\ \A b \in effects[i].behind : b <= n
        /\ i > 1 => effects[i].state = "idle"
        /\ \A j \in 1..Len(effects) :
                  /\ i < j => effects[i].finishOn <= effects[j].startOn
                  /\ i <= j => effects[j].id \notin effects[i].behind
    BY DEF Line
  <2>2. \A j \in 1..Len(effects) :
              /\ d[j].startOn = effects[j].startOn - lag
              /\ d[j].finishOn = effects[j].finishOn - lag
              /\ d[j].id = effects[j].id /\ d[j].kind = effects[j].kind
              /\ d[j].state = effects[j].state /\ d[j].behind = effects[j].behind
    BY AgedLater
  <2>3. i > 1 => d[i].finishOn > 0
    <3>1. i > 1 => i \in 2..Len(effects)
      OBVIOUS
    <3> QED BY <3>1, AgedLater
  <2>4. \A j \in 1..Len(effects) : effects[j].startOn \in Int /\ effects[j].finishOn \in Int
    <3>1. \A j \in 1..Len(effects) : effects[j] \in Queued
      BY DEF QueueTypes
    <3> QED BY <3>1 DEF Queued, Effects
  <2>5. lag \in Int
    BY DEF Sp!EffectAssumption
  <2> HIDE DEF d
  <2>6. ASSUME NEW j \in 1..Len(effects), i < j
        PROVE  d[i].finishOn <= d[j].startOn
    <3>1. effects[i].finishOn <= effects[j].startOn
      BY <2>1, <2>6
    <3>2. /\ d[i].finishOn = effects[i].finishOn - lag
          /\ d[j].startOn = effects[j].startOn - lag
      BY <2>2
    <3>3. effects[i].finishOn \in Int /\ effects[j].startOn \in Int
      BY <2>4
    <3> QED BY <2>5, <3>1, <3>2, <3>3
  <2>7. \A j \in 1..Len(effects) : i <= j => d[j].id \notin d[i].behind
    BY <2>1, <2>2
  <2>8. /\ Sp!Effect(d[i].kind).then = "none"
        /\ d[i].id <= n /\ \A b \in d[i].behind : b <= n
        /\ i > 1 => d[i].state = "idle"
    BY <2>1, <2>2
  <2> QED BY <2>3, <2>6, <2>7, <2>8
<1> HIDE DEF d
<1>3. CASE es = Sp!RemoveAt(d, 1)
  <2>1. /\ Len(es) = Len(effects) - 1
        /\ \A j \in 1..(Len(effects) - 1) : es[j] = d[j + 1]
    <3>1. 1 \in 1..Len(d)
      BY <1>1
    <3>2. /\ Len(Sp!RemoveAt(d, 1)) = Len(d) - 1
          /\ \A j \in 1..(Len(d) - 1) : Sp!RemoveAt(d, 1)[j] = IF j < 1 THEN d[j] ELSE d[j + 1]
      BY <1>1, <3>1, RemovedIs
    <3> QED BY <1>1, <1>3, <3>2
  <2>2. \A i \in 1..Len(es) : /\ i + 1 \in 1..Len(effects) /\ i + 1 > 1 /\ es[i] = d[i + 1]
    BY <1>1, <2>1
  <2>3. \A i \in 1..Len(es), j \in 1..Len(es) :
            /\ i < j => i + 1 < j + 1
            /\ i <= j => i + 1 <= j + 1
    BY <1>1, <2>1
  <2> SUFFICES ASSUME NEW i \in 1..Len(es)
               PROVE  /\ Sp!Effect(es[i].kind).then = "none"
                      /\ es[i].finishOn > 0
                      /\ es[i].id <= n /\ (\A b \in es[i].behind : b <= n)
                      /\ (i > 1 => es[i].state = "idle")
                      /\ \A j \in 1..Len(es) :
                          /\ i < j => es[i].finishOn <= es[j].startOn
                          /\ i <= j => es[j].id \notin es[i].behind
    BY DEF Line
  <2> QED BY <1>2, <2>2, <2>3
<1>4. CASE e.finishOn > 0 /\ es = d
  <2> SUFFICES ASSUME NEW i \in 1..Len(es)
               PROVE  es[i].finishOn > 0
    BY <1>1, <1>2, <1>4 DEF Line
  <2>1. i > 1 \/ i = 1
    OBVIOUS
  <2> QED BY <1>1, <1>2, <1>4, <2>1
<1>5. CASE e.finishOn > 0 /\ es = [d EXCEPT ![1] = drawn.effect]
  <2>1. Len(es) = Len(d) /\ es[1] = drawn.effect /\ \A j \in 1..Len(d) : j # 1 => es[j] = d[j]
    BY <1>1, <1>5
  <2>2. style \in Styles
    BY DEF QueueTypes
  <2>3. /\ drawn.effect.kind = e.kind /\ drawn.effect.finishOn = e.finishOn
        /\ drawn.effect.startOn = e.startOn /\ drawn.effect.id = e.id
        /\ drawn.effect.behind = e.behind
    <3> DEFINE late == e.finishOn <= 0
               x == Sp!Rendered(e, style, late)
    <3>1. e \in Queued
      BY <1>1
    <3> HIDE DEF e, late
    <3>2. /\ x.effect.kind = e.kind /\ x.effect.finishOn = e.finishOn
          /\ x.effect.startOn = e.startOn /\ x.effect.id = e.id
          /\ x.effect.behind = e.behind
      BY <2>2, <3>1, RenderedType
    <3> QED BY <3>2 DEF e, late
  <2> HIDE DEF drawn
  <2>4. \A j \in 1..Len(d) :
          /\ es[j].kind = d[j].kind /\ es[j].finishOn = d[j].finishOn
          /\ es[j].startOn = d[j].startOn /\ es[j].id = d[j].id
          /\ es[j].behind = d[j].behind
          /\ j > 1 => es[j].state = d[j].state
    <3> SUFFICES ASSUME NEW j \in 1..Len(d)
                 PROVE  /\ es[j].kind = d[j].kind /\ es[j].finishOn = d[j].finishOn
                        /\ es[j].startOn = d[j].startOn /\ es[j].id = d[j].id
                        /\ es[j].behind = d[j].behind
                        /\ j > 1 => es[j].state = d[j].state
      OBVIOUS
    <3>1. CASE j = 1
      BY <2>1, <2>3, <3>1
    <3>2. CASE j # 1
      BY <2>1, <3>2
    <3> QED BY <3>1, <3>2
  <2>5. ASSUME NEW i \in 1..Len(es)
        PROVE  es[i].finishOn > 0
    <3>1. i > 1 \/ i = 1
      OBVIOUS
    <3> QED BY <1>1, <1>2, <1>5, <2>1, <2>4, <3>1
  <2> SUFFICES ASSUME NEW i \in 1..Len(es)
               PROVE  /\ Sp!Effect(es[i].kind).then = "none"
                      /\ es[i].id <= n /\ (\A b \in es[i].behind : b <= n)
                      /\ (i > 1 => es[i].state = "idle")
                      /\ \A j \in 1..Len(es) :
                          /\ i < j => es[i].finishOn <= es[j].startOn
                          /\ i <= j => es[j].id \notin es[i].behind
    BY <2>5 DEF Line
  <2> QED BY <1>1, <1>2, <2>1, <2>4
<1> QED BY <1>3, <1>4, <1>5 DEF HeadLooped, d

----------------------------------------------------------------------------
(* Effects of one stage, queued at the end. *)

\* The effects of the queue wait in line, where pages use it that way.
InLine == /\ page.positions \subseteq {"end"}
          /\ \A k \in page.kinds : Sp!Effect(k).then = "none"
          /\ MaxLag <= Duration

LineInv == QueueTypes /\ (InLine => Line(effects, effectsMade))

\* The steps keep them in line.
LEMMA LineInitInv == ASSUME Sp!EffectAssumption, Sp!Init PROVE LineInv
BY QueueInitTypes DEF LineInv, Line, Sp!Init

LEMMA LineCreated ==
  ASSUME Sp!EffectAssumption, QueueTypes, Line(effects, effectsMade), NEW k \in Sp!FirstStages,
         Sp!Effect(k).then = "none", NEW limit, Sp!Create(k, "end", limit)
  PROVE  Line(effects', effectsMade')
<1> DEFINE x == Sp!Fresh(effectsMade + 1, k, style, style)
<1>1. effectsMade \in Nat /\ effectsMade + 1 \in Nat /\ k \in Sp!Kinds /\ style \in Styles
  BY PageKinds DEF QueueTypes, Sp!Kinds
<1>2. x \in Queued /\ x.id = effectsMade + 1 /\ x.kind = k /\ x.state = "idle"
  BY <1>1, FreshType
<1>3. effects \in Seq(Queued)
  BY DEF QueueTypes
<1>4. effects' = Sp!Added(effects, x, "end", limit) /\ effectsMade' = effectsMade + 1
  BY DEF Sp!Create
<1> HIDE DEF x
<1> QED BY <1>1, <1>2, <1>3, <1>4, LineAdded

LEMMA LineStepInv == ASSUME Sp!EffectAssumption, LineInv, [Sp!Next]_(Sp!vars) PROVE LineInv'
<1>1. QueueTypes'
  BY QueueStepTypes DEF LineInv
<1>2. ASSUME InLine' PROVE Line(effects', effectsMade')
  <2>1. page' = page
    BY DEF Sp!Next, Sp!NewEffect, Sp!Toggle, Sp!Create, Sp!Reload, Sp!Loop, Sp!vars
  <2>2. InLine
    BY <1>2, <2>1 DEF InLine
  <2>3. QueueTypes /\ Line(effects, effectsMade)
    BY <2>2 DEF LineInv
  <2>4. CASE UNCHANGED Sp!vars
    BY <2>3, <2>4 DEF Sp!vars
  <2>5. CASE Sp!NewEffect \/ Sp!Toggle
    <3>1. PICK k \in page.kinds, position \in Positions, limit \in Nat :
            /\ Sp!Create(k, position, limit)
            /\ position = "end" \/ position \in page.positions
      BY <2>3, <2>5, CreatedAs
    <3>2. position = "end" /\ Sp!Effect(k).then = "none"
      BY <2>2, <3>1 DEF InLine
    <3>3. k \in Sp!FirstStages
      BY <2>3, PageKinds
    <3> QED BY <2>3, <3>1, <3>2, <3>3, LineCreated
  <2>6. CASE Sp!Reload
    BY <2>6 DEF Sp!Reload, Line
  <2>7. ASSUME NEW lag \in 1..MaxLag, Sp!Loop(lag) PROVE Line(effects', effectsMade')
    <3>1. effects # <<>> /\ effectsMade' = effectsMade /\ MaxLag <= Duration
      BY <2>2, <2>7 DEF Sp!Loop, InLine
    <3>2. HeadLooped(lag, effects', style')
      BY <2>3, <2>7, <3>1, LinePass
    <3> QED BY <2>3, <3>1, <3>2, LineLooped
  <2> QED BY <2>4, <2>5, <2>6, <2>7 DEF Sp!Next
<1> QED BY <1>1, <1>2 DEF LineInv

\* What follows.
LEMMA LineInvFollows == ASSUME LineInv PROVE Sp!TypeOK /\ Sp!EndWaitsInLine
<1>1. Sp!TypeOK
  BY QueueTypesFollow DEF LineInv
<1>2. Sp!EndWaitsInLine
  BY LineWaits DEF LineInv, InLine, Sp!EndWaitsInLine
<1> QED BY <1>1, <1>2

\* effects.js L189-222, "start effect after last queued effect has finished":
\* an effect queued at the end runs only when those that were ahead of it have
\* gone, on pages that queue effects of one stage at the end, for any number of
\* them, if the interval is late by no more than an effect lasts.
THEOREM EffectsWaitInLine ==
  ASSUME Sp!EffectAssumption PROVE Sp!Spec => [](Sp!TypeOK /\ Sp!EndWaitsInLine)
<1>1. Sp!Init => LineInv
  BY LineInitInv
<1>2. LineInv /\ [Sp!Next]_(Sp!vars) => LineInv'
  BY LineStepInv
<1>3. LineInv => Sp!TypeOK /\ Sp!EndWaitsInLine
  BY LineInvFollows
<1> QED BY <1>1, <1>2, <1>3, PTL DEF Sp!Spec

----------------------------------------------------------------------------
(***************************************************************************)
(* What the effects leave behind. The argument: as long as no two          *)
(* unrelated effects were pending at once, at most one effect is pending,  *)
(* and what it may have left of the element is known from its kind and     *)
(* from how far it is. What a list of calls may leave is what was left     *)
(* before, less what some call of the list undoes, and what some call      *)
(* makes; effect by effect, all that creating, setting up and drawing it   *)
(* may leave is undone when it finishes, or is what its next stage undoes. *)
(***************************************************************************)

\* The style is bare but for what A names; shown is whatever it is.
Left(s, A) ==
  /\ s \in Styles
  /\ "opacity" \notin A => s.opacity = 2
  /\ "clipped" \notin A => s.clipped = FALSE
  /\ "relative" \notin A => s.position # "relative" /\ s.madePositioned = FALSE
  /\ "absolute" \notin A => s.position # "absolute"
  /\ s.position = "relative" => s.madePositioned = TRUE
  /\ "inner" \notin A => s.inner = "own"
  /\ "size" \notin A => s.size = "own"
  /\ "place" \notin A => s.place = "own"
  /\ "color" \notin A => s.color = "own"

\* Nothing is left of a bare style, and whatever may be left of it.
LEMMA LeftBare == \A s : Left(s, {}) => s \in Styles /\ s = Sp!Bare(s.shown)
BY DEF Left, Styles, Sp!Bare

LEMMA BareLeft == \A A : \A b \in BOOLEAN : Left(Sp!Bare(b), A) /\ Sp!Bare(b) \in Styles
BY DEF Left, Styles, Sp!Bare

LEMMA LeftMore == ASSUME NEW s, NEW A, NEW B, Left(s, A), A \subseteq B PROVE Left(s, B)
BY DEF Left

\* What may be left after each call.
LEMMA CallLeft ==
  ASSUME NEW s, NEW A, Left(s, A), NEW b \in BOOLEAN
  PROVE  /\ Left(Sp!Call(s, "show", Sp!Bare(b)), A)
         /\ Left(Sp!Call(s, "hide", Sp!Bare(b)), A)
         /\ Left(Sp!Call(s, "makeClipping", Sp!Bare(b)), A \cup {"clipped"})
         /\ Left(Sp!Call(s, "undoClipping", Sp!Bare(b)), A \ {"clipped"})
         /\ Left(Sp!Call(s, "makePositioned", Sp!Bare(b)), A \cup {"relative"})
         /\ Left(Sp!Call(s, "undoPositioned", Sp!Bare(b)), A \ {"relative"})
         /\ Left(Sp!Call(s, "absolutize", Sp!Bare(b)), A \cup {"absolute", "place", "size"})
         /\ Left(Sp!Call(s, "height 0px", Sp!Bare(b)), A \cup {"size"})
         /\ Left(Sp!Call(s, "inner.makePositioned", Sp!Bare(b)), A \cup {"inner"})
         /\ Left(Sp!Call(s, "inner.undoPositioned", Sp!Bare(b)), A \ {"inner"})
         /\ Left(Sp!Call(s, "old opacity", Sp!Bare(b)), A \ {"opacity"})
         /\ Left(Sp!Call(s, "old position", Sp!Bare(b)), A \ {"absolute"})
         /\ Left(Sp!Call(s, "old place", Sp!Bare(b)), A \ {"place"})
         /\ Left(Sp!Call(s, "old size", Sp!Bare(b)), A \ {"size"})
<1>1. s \in Styles
  BY DEF Left
<1> DEFINE was == Sp!Bare(b)
<1>2. was.opacity = 2 /\ was.position = "own" /\ was.place = "own" /\ was.size = "own"
  BY DEF Sp!Bare
<1> HIDE DEF was
<1>3. Left([s EXCEPT !.shown = TRUE], A) /\ Left([s EXCEPT !.shown = FALSE], A)
  BY ZenonT(60) DEF Left, Styles
<1>4. /\ Left([s EXCEPT !.clipped = TRUE], A \cup {"clipped"})
      /\ Left([s EXCEPT !.clipped = FALSE], A \ {"clipped"})
  BY ZenonT(60) DEF Left, Styles
<1>5. Left(Sp!MakePositioned(s), A \cup {"relative"})
  BY DEF Left, Styles, Sp!MakePositioned
<1>6. Left(Sp!UndoPositioned(s), A \ {"relative"})
  BY ZenonT(60) DEF Left, Styles, Sp!UndoPositioned
<1>7. Left([s EXCEPT !.position = "absolute", !.place = "other", !.size = "other"],
             A \cup {"absolute", "place", "size"})
  BY ZenonT(60) DEF Left, Styles
<1>8. Left([s EXCEPT !.size = "other"], A \cup {"size"}) /\ Left([s EXCEPT !.size = was.size], A \ {"size"})
  BY <1>2 DEF Left, Styles
<1>9. /\ Left([s EXCEPT !.inner = "positioned"], A \cup {"inner"})
      /\ Left([s EXCEPT !.inner = "own"], A \ {"inner"})
  BY DEF Left, Styles
<1>10. /\ Left([s EXCEPT !.opacity = was.opacity], A \ {"opacity"})
       /\ Left([s EXCEPT !.place = was.place], A \ {"place"})
  BY <1>2 DEF Left, Styles
<1>11. Left([s EXCEPT !.position = was.position], A \ {"absolute"})
  BY <1>2 DEF Left, Styles
<1>12. /\ Sp!Call(s, "show", was) = [s EXCEPT !.shown = TRUE]
       /\ Sp!Call(s, "hide", was) = [s EXCEPT !.shown = FALSE]
       /\ Sp!Call(s, "makeClipping", was) = [s EXCEPT !.clipped = TRUE]
       /\ Sp!Call(s, "undoClipping", was) = [s EXCEPT !.clipped = FALSE]
       /\ Sp!Call(s, "makePositioned", was) = Sp!MakePositioned(s)
       /\ Sp!Call(s, "undoPositioned", was) = Sp!UndoPositioned(s)
       /\ Sp!Call(s, "absolutize", was)
                = [s EXCEPT !.position = "absolute", !.place = "other", !.size = "other"]
       /\ Sp!Call(s, "height 0px", was) = [s EXCEPT !.size = "other"]
       /\ Sp!Call(s, "inner.makePositioned", was) = [s EXCEPT !.inner = "positioned"]
       /\ Sp!Call(s, "inner.undoPositioned", was) = [s EXCEPT !.inner = "own"]
       /\ Sp!Call(s, "old opacity", was) = [s EXCEPT !.opacity = was.opacity]
       /\ Sp!Call(s, "old position", was) = [s EXCEPT !.position = was.position]
       /\ Sp!Call(s, "old place", was) = [s EXCEPT !.place = was.place]
       /\ Sp!Call(s, "old size", was) = [s EXCEPT !.size = was.size]
  BY CallIs, Zenon
<1>13. /\ Left(Sp!Call(s, "show", was), A)
       /\ Left(Sp!Call(s, "hide", was), A)
       /\ Left(Sp!Call(s, "makeClipping", was), A \cup {"clipped"})
       /\ Left(Sp!Call(s, "undoClipping", was), A \ {"clipped"})
       /\ Left(Sp!Call(s, "makePositioned", was), A \cup {"relative"})
       /\ Left(Sp!Call(s, "undoPositioned", was), A \ {"relative"})
       /\ Left(Sp!Call(s, "absolutize", was), A \cup {"absolute", "place", "size"})
       /\ Left(Sp!Call(s, "height 0px", was), A \cup {"size"})
       /\ Left(Sp!Call(s, "inner.makePositioned", was), A \cup {"inner"})
       /\ Left(Sp!Call(s, "inner.undoPositioned", was), A \ {"inner"})
       /\ Left(Sp!Call(s, "old opacity", was), A \ {"opacity"})
       /\ Left(Sp!Call(s, "old position", was), A \ {"absolute"})
       /\ Left(Sp!Call(s, "old place", was), A \ {"place"})
       /\ Left(Sp!Call(s, "old size", was), A \ {"size"})
  BY <1>3, <1>4, <1>5, <1>6, <1>7, <1>8, <1>9, <1>10, <1>11, <1>12
<1> QED BY <1>13 DEF was

\* What a call leaves on the element, and what it undoes.
Makes(name) ==
  CASE name = "makeClipping" -> {"clipped"}
    [] name = "makePositioned" -> {"relative"}
    [] name = "absolutize" -> {"absolute", "place", "size"}
    [] name = "height 0px" -> {"size"}
    [] name = "inner.makePositioned" -> {"inner"}
    [] OTHER -> {}

Undoes(name) ==
  CASE name = "undoClipping" -> {"clipped"}
    [] name = "undoPositioned" -> {"relative"}
    [] name = "inner.undoPositioned" -> {"inner"}
    [] name = "old opacity" -> {"opacity"}
    [] name = "old position" -> {"absolute"}
    [] name = "old place" -> {"place"}
    [] name = "old size" -> {"size"}
    [] OTHER -> {}

MadeBy(names) == UNION {Makes(names[i]) : i \in DOMAIN names}
UndoneBy(names) == UNION {Undoes(names[i]) : i \in DOMAIN names}

\* What may be left after the calls of a list where A was.
Through(A, names) == (A \ UndoneBy(names)) \cup MadeBy(names)

\* Call by call.
LEMMA MakesAre ==
  /\ Makes("show") = {} /\ Undoes("show") = {}
  /\ Makes("hide") = {} /\ Undoes("hide") = {}
  /\ Makes("makeClipping") = {"clipped"} /\ Undoes("makeClipping") = {}
  /\ Makes("undoClipping") = {} /\ Undoes("undoClipping") = {"clipped"}
  /\ Makes("makePositioned") = {"relative"} /\ Undoes("makePositioned") = {}
  /\ Makes("undoPositioned") = {} /\ Undoes("undoPositioned") = {"relative"}
  /\ Makes("absolutize") = {"absolute", "place", "size"} /\ Undoes("absolutize") = {}
  /\ Makes("height 0px") = {"size"} /\ Undoes("height 0px") = {}
  /\ Makes("inner.makePositioned") = {"inner"} /\ Undoes("inner.makePositioned") = {}
  /\ Makes("inner.undoPositioned") = {} /\ Undoes("inner.undoPositioned") = {"inner"}
  /\ Makes("old opacity") = {} /\ Undoes("old opacity") = {"opacity"}
  /\ Makes("old position") = {} /\ Undoes("old position") = {"absolute"}
  /\ Makes("old place") = {} /\ Undoes("old place") = {"place"}
  /\ Makes("old size") = {} /\ Undoes("old size") = {"size"}
<1>1. Makes("show") = {} /\ Undoes("show") = {}
  BY DEF Makes, Undoes
<1>2. Makes("hide") = {} /\ Undoes("hide") = {}
  BY DEF Makes, Undoes
<1>3. Makes("makeClipping") = {"clipped"} /\ Undoes("makeClipping") = {}
  BY DEF Makes, Undoes
<1>4. Makes("undoClipping") = {} /\ Undoes("undoClipping") = {"clipped"}
  BY DEF Makes, Undoes
<1>5. Makes("makePositioned") = {"relative"} /\ Undoes("makePositioned") = {}
  BY DEF Makes, Undoes
<1>6. Makes("undoPositioned") = {} /\ Undoes("undoPositioned") = {"relative"}
  BY DEF Makes, Undoes
<1>7. Makes("absolutize") = {"absolute", "place", "size"} /\ Undoes("absolutize") = {}
  BY DEF Makes, Undoes
<1>8. Makes("height 0px") = {"size"} /\ Undoes("height 0px") = {}
  BY DEF Makes, Undoes
<1>9. Makes("inner.makePositioned") = {"inner"} /\ Undoes("inner.makePositioned") = {}
  BY DEF Makes, Undoes
<1>10. Makes("inner.undoPositioned") = {} /\ Undoes("inner.undoPositioned") = {"inner"}
  BY DEF Makes, Undoes
<1>11. Makes("old opacity") = {} /\ Undoes("old opacity") = {"opacity"}
  BY DEF Makes, Undoes
<1>12. Makes("old position") = {} /\ Undoes("old position") = {"absolute"}
  BY DEF Makes, Undoes
<1>13. Makes("old place") = {} /\ Undoes("old place") = {"place"}
  BY DEF Makes, Undoes
<1>14. Makes("old size") = {} /\ Undoes("old size") = {"size"}
  BY DEF Makes, Undoes
<1> QED BY <1>1, <1>2, <1>3, <1>4, <1>5, <1>6, <1>7, <1>8, <1>9, <1>10, <1>11, <1>12, <1>13, <1>14, Zenon

\* The style after one call.
LEMMA CallThrough ==
  ASSUME NEW s, NEW A, Left(s, A), NEW b \in BOOLEAN, NEW name \in CallNames
  PROVE  Left(Sp!Call(s, name, Sp!Bare(b)), (A \ Undoes(name)) \cup Makes(name))
<1> DEFINE r == Sp!Call(s, name, Sp!Bare(b))
           T == (A \ Undoes(name)) \cup Makes(name)
<1> SUFFICES Left(r, T)
  OBVIOUS
<1>1. CASE name = "show"
  <2>1. Left(r, A)
    BY <1>1, CallLeft, Zenon
  <2>2. Makes(name) = {} /\ Undoes(name) = {}
    BY <1>1, MakesAre, Zenon
  <2>3. A \subseteq T
    BY <2>2
  <2> HIDE DEF r, T
  <2> QED BY <2>1, <2>3, LeftMore
<1>2. CASE name = "hide"
  <2>1. Left(r, A)
    BY <1>2, CallLeft, Zenon
  <2>2. Makes(name) = {} /\ Undoes(name) = {}
    BY <1>2, MakesAre, Zenon
  <2>3. A \subseteq T
    BY <2>2
  <2> HIDE DEF r, T
  <2> QED BY <2>1, <2>3, LeftMore
<1>3. CASE name = "makeClipping"
  <2>1. Left(r, A \cup {"clipped"})
    BY <1>3, CallLeft, Zenon
  <2>2. Makes(name) = {"clipped"} /\ Undoes(name) = {}
    BY <1>3, MakesAre, Zenon
  <2>3. (A \cup {"clipped"}) \subseteq T
    BY <2>2
  <2> HIDE DEF r, T
  <2> QED BY <2>1, <2>3, LeftMore
<1>4. CASE name = "undoClipping"
  <2>1. Left(r, A \ {"clipped"})
    BY <1>4, CallLeft, Zenon
  <2>2. Makes(name) = {} /\ Undoes(name) = {"clipped"}
    BY <1>4, MakesAre, Zenon
  <2>3. (A \ {"clipped"}) \subseteq T
    BY <2>2
  <2> HIDE DEF r, T
  <2> QED BY <2>1, <2>3, LeftMore
<1>5. CASE name = "makePositioned"
  <2>1. Left(r, A \cup {"relative"})
    BY <1>5, CallLeft, Zenon
  <2>2. Makes(name) = {"relative"} /\ Undoes(name) = {}
    BY <1>5, MakesAre, Zenon
  <2>3. (A \cup {"relative"}) \subseteq T
    BY <2>2
  <2> HIDE DEF r, T
  <2> QED BY <2>1, <2>3, LeftMore
<1>6. CASE name = "undoPositioned"
  <2>1. Left(r, A \ {"relative"})
    BY <1>6, CallLeft, Zenon
  <2>2. Makes(name) = {} /\ Undoes(name) = {"relative"}
    BY <1>6, MakesAre, Zenon
  <2>3. (A \ {"relative"}) \subseteq T
    BY <2>2
  <2> HIDE DEF r, T
  <2> QED BY <2>1, <2>3, LeftMore
<1>7. CASE name = "absolutize"
  <2>1. Left(r, A \cup {"absolute", "place", "size"})
    BY <1>7, CallLeft, Zenon
  <2>2. Makes(name) = {"absolute", "place", "size"} /\ Undoes(name) = {}
    BY <1>7, MakesAre, Zenon
  <2>3. (A \cup {"absolute", "place", "size"}) \subseteq T
    BY <2>2
  <2> HIDE DEF r, T
  <2> QED BY <2>1, <2>3, LeftMore
<1>8. CASE name = "height 0px"
  <2>1. Left(r, A \cup {"size"})
    BY <1>8, CallLeft, Zenon
  <2>2. Makes(name) = {"size"} /\ Undoes(name) = {}
    BY <1>8, MakesAre, Zenon
  <2>3. (A \cup {"size"}) \subseteq T
    BY <2>2
  <2> HIDE DEF r, T
  <2> QED BY <2>1, <2>3, LeftMore
<1>9. CASE name = "inner.makePositioned"
  <2>1. Left(r, A \cup {"inner"})
    BY <1>9, CallLeft, Zenon
  <2>2. Makes(name) = {"inner"} /\ Undoes(name) = {}
    BY <1>9, MakesAre, Zenon
  <2>3. (A \cup {"inner"}) \subseteq T
    BY <2>2
  <2> HIDE DEF r, T
  <2> QED BY <2>1, <2>3, LeftMore
<1>10. CASE name = "inner.undoPositioned"
  <2>1. Left(r, A \ {"inner"})
    BY <1>10, CallLeft, Zenon
  <2>2. Makes(name) = {} /\ Undoes(name) = {"inner"}
    BY <1>10, MakesAre, Zenon
  <2>3. (A \ {"inner"}) \subseteq T
    BY <2>2
  <2> HIDE DEF r, T
  <2> QED BY <2>1, <2>3, LeftMore
<1>11. CASE name = "old opacity"
  <2>1. Left(r, A \ {"opacity"})
    BY <1>11, CallLeft, Zenon
  <2>2. Makes(name) = {} /\ Undoes(name) = {"opacity"}
    BY <1>11, MakesAre, Zenon
  <2>3. (A \ {"opacity"}) \subseteq T
    BY <2>2
  <2> HIDE DEF r, T
  <2> QED BY <2>1, <2>3, LeftMore
<1>12. CASE name = "old position"
  <2>1. Left(r, A \ {"absolute"})
    BY <1>12, CallLeft, Zenon
  <2>2. Makes(name) = {} /\ Undoes(name) = {"absolute"}
    BY <1>12, MakesAre, Zenon
  <2>3. (A \ {"absolute"}) \subseteq T
    BY <2>2
  <2> HIDE DEF r, T
  <2> QED BY <2>1, <2>3, LeftMore
<1>13. CASE name = "old place"
  <2>1. Left(r, A \ {"place"})
    BY <1>13, CallLeft, Zenon
  <2>2. Makes(name) = {} /\ Undoes(name) = {"place"}
    BY <1>13, MakesAre, Zenon
  <2>3. (A \ {"place"}) \subseteq T
    BY <2>2
  <2> HIDE DEF r, T
  <2> QED BY <2>1, <2>3, LeftMore
<1>14. CASE name = "old size"
  <2>1. Left(r, A \ {"size"})
    BY <1>14, CallLeft, Zenon
  <2>2. Makes(name) = {} /\ Undoes(name) = {"size"}
    BY <1>14, MakesAre, Zenon
  <2>3. (A \ {"size"}) \subseteq T
    BY <2>2
  <2> HIDE DEF r, T
  <2> QED BY <2>1, <2>3, LeftMore
<1> QED BY <1>1, <1>2, <1>3, <1>4, <1>5, <1>6, <1>7, <1>8, <1>9, <1>10, <1>11, <1>12, <1>13, <1>14, Zenon DEF CallNames

\* The style after the calls of a list.
LEMMA CallsThrough ==
  ASSUME NEW s, NEW A, Left(s, A), NEW b \in BOOLEAN, NEW names \in Seq(CallNames)
  PROVE  Left(Sp!Calls(s, names, Sp!Bare(b)), Through(A, names))
<1>1. Len(names) \in Nat /\ DOMAIN names = 1..Len(names)
  OBVIOUS
<1>2. PICK f : /\ f[0] = s
               /\ \A n \in 1..Len(names) : f[n] = Sp!Call(f[n - 1], names[n], Sp!Bare(b))
               /\ Sp!Calls(s, names, Sp!Bare(b)) = f[Len(names)]
  <2> DEFINE was == Sp!Bare(b)
  <2>1. \E f : /\ f[0] = s
               /\ \A n \in 1..Len(names) : f[n] = Sp!Call(f[n - 1], names[n], was)
               /\ Sp!Calls(s, names, was) = f[Len(names)]
    <3> HIDE DEF was
    <3>1. Len(names) \in Nat
      BY <1>1
    <3> QED BY <3>1, CallsAre
  <2> QED BY <2>1
<1> DEFINE U(n) == UNION {Undoes(names[i]) : i \in 1..n}
           M(n) == UNION {Makes(names[i]) : i \in 1..n}
           T == {n \in 0..Len(names) : ~Left(f[n], (A \ U(n)) \cup M(n))}
<1>3. T = {}
  <2> SUFFICES ASSUME T # {} PROVE FALSE
    OBVIOUS
  <2>1. T \in SUBSET Nat
    OBVIOUS
  <2>2. PICK m \in T : \A n \in T : m <= n
    BY <2>1, LeastNat, Zenon
  <2>3. m # 0
    <3> SUFFICES ASSUME m = 0 PROVE FALSE
      OBVIOUS
    <3>1. U(0) = {}
      OBVIOUS
    <3>2. A \subseteq (A \ U(0)) \cup M(0)
      BY <3>1
    <3>3. Left(f[0], (A \ U(0)) \cup M(0))
      <4> HIDE DEF U, M
      <4> QED BY <1>2, <3>2, LeftMore
    <3> QED BY <3>3
  <2>4. m \in 1..Len(names) /\ m - 1 \in 0..Len(names) /\ ~(m <= m - 1)
    BY <2>3
  <2>5. Left(f[m - 1], (A \ U(m - 1)) \cup M(m - 1))
    BY <2>2, <2>4
  <2>6. names[m] \in CallNames
    BY <2>4
  <2>7. f[m] = Sp!Call(f[m - 1], names[m], Sp!Bare(b))
    BY <1>2, <2>4
  <2>8. U(m) = U(m - 1) \cup Undoes(names[m]) /\ M(m) = M(m - 1) \cup Makes(names[m])
    <3>1. \A i : i \in 1..m <=> i \in 1..(m - 1) \/ i = m
      BY <2>4
    <3> QED BY <3>1
  <2> DEFINE C == (A \ U(m - 1)) \cup M(m - 1)
             B == (C \ Undoes(names[m])) \cup Makes(names[m])
  <2>9. Left(f[m], B)
    <3> DEFINE r == f[m - 1]
               c == names[m]
    <3>1. Left(r, C) /\ c \in CallNames
      BY <2>5, <2>6
    <3> HIDE DEF r, C, c
    <3>2. Left(Sp!Call(r, c, Sp!Bare(b)), (C \ Undoes(c)) \cup Makes(c))
      BY <3>1, CallThrough
    <3> QED BY <2>7, <3>2, Zenon DEF r, c
  <2>10. B \subseteq (A \ U(m)) \cup M(m)
    <3> HIDE DEF U, M
    <3> QED BY <2>8
  <2>11. Left(f[m], (A \ U(m)) \cup M(m))
    <3> HIDE DEF B, U, M
    <3> QED BY <2>9, <2>10, LeftMore
  <2> QED BY <2>11
<1>4. Left(f[Len(names)], (A \ U(Len(names))) \cup M(Len(names)))
  <2>1. Len(names) \in 0..Len(names)
    BY <1>1
  <2> HIDE DEF U, M
  <2> QED BY <1>3, <2>1
<1>5. U(Len(names)) = UndoneBy(names) /\ M(Len(names)) = MadeBy(names)
  BY <1>1 DEF UndoneBy, MadeBy
<1> HIDE DEF U, M
<1> QED BY <1>2, <1>4, <1>5 DEF Through

\* What may be left by the set-up.
LEMMA MakePositionedLeaves ==
  ASSUME NEW s, NEW A, NEW B, Left(s, A), A \cup {"relative"} \subseteq B
  PROVE  Left(Sp!MakePositioned(s), B)
<1>1. Left(Sp!MakePositioned(s), A \cup {"relative"})
  BY DEF Left, Styles, Sp!MakePositioned
<1> QED BY <1>1, LeftMore

\* What may be left by the core effects of fx.
LEMMA DrawnLeaves ==
  ASSUME NEW s, NEW A, NEW B, Left(s, A), NEW fx, NEW from, NEW atEnd, fx.to \in 0..2,
         A \subseteq B \cup {"opacity"},
         \/ "opacity" \notin fx.core /\ ("opacity" \in A => "opacity" \in B)
         \/ "opacity" \in fx.core /\ ("opacity" \in B \/ (atEnd /\ fx.to = 2)),
         fx.core \cap {"move", "center"} # {} => "place" \in B,
         "scale" \in fx.core => "size" \in B,
         "color" \in fx.core => "color" \in B
  PROVE  Left(Sp!Drawn(s, fx, from, atEnd), B)
<1> DEFINE core == fx.core
           to == fx.to
           o == IF "opacity" \notin core THEN s.opacity ELSE IF atEnd \/ from = to THEN to ELSE 1
           p == IF core \cap {"move", "center"} # {} THEN "other" ELSE s.place
           z == IF "scale" \in core THEN "other" ELSE s.size
           c == IF "color" \in core THEN "other" ELSE s.color
<1>1. s \in Styles
  BY DEF Left
<1>2. Sp!Drawn(s, fx, from, atEnd) = [s EXCEPT !.opacity = o, !.place = p, !.size = z, !.color = c]
  BY <1>1 DEF Sp!Drawn, Styles
<1>3. o \in 0..2 /\ p \in {"own", "other"} /\ z \in {"own", "other"} /\ c \in {"own", "other"}
  BY <1>1 DEF Styles
<1>4. /\ "opacity" \notin B => o = 2
      /\ "size" \notin B => z = "own"
      /\ "place" \notin B => p = "own"
      /\ "color" \notin B => c = "own"
  BY DEF Left
<1>5. /\ "clipped" \notin B => s.clipped = FALSE
      /\ "relative" \notin B => s.position # "relative" /\ s.madePositioned = FALSE
      /\ "absolute" \notin B => s.position # "absolute"
      /\ s.position = "relative" => s.madePositioned = TRUE
      /\ "inner" \notin B => s.inner = "own"
  BY DEF Left
<1> HIDE DEF o, p, z, c
<1> DEFINE y == [s EXCEPT !.opacity = o, !.place = p, !.size = z, !.color = c]
<1>6. /\ y \in Styles /\ y.opacity = o /\ y.size = z /\ y.place = p /\ y.color = c
      /\ y.clipped = s.clipped /\ y.position = s.position
      /\ y.madePositioned = s.madePositioned /\ y.inner = s.inner
  BY <1>1, <1>3 DEF Styles
<1> HIDE DEF y
<1>7. Left(y, B)
  BY <1>4, <1>5, <1>6 DEF Left
<1> QED BY <1>2, <1>7 DEF y

\* What finish() puts back.
Put(s, fx, orig) ==
  [s EXCEPT !.color = IF "color" \in fx.core THEN "own" ELSE @,
            !.size = IF fx.restore THEN orig.size ELSE @,
            !.place = IF fx.restore THEN orig.place ELSE @]

LEMMA PutLeaves ==
  ASSUME NEW s, NEW A, NEW B, Left(s, A), NEW fx, NEW orig, NEW O, Left(orig, O),
         A \subseteq B \cup {"color", "size", "place"},
         "color" \in A => "color" \in fx.core \/ "color" \in B,
         ~fx.restore => ("size" \in A => "size" \in B) /\ ("place" \in A => "place" \in B),
         fx.restore => ("size" \in O => "size" \in B) /\ ("place" \in O => "place" \in B)
  PROVE  Left(Put(s, fx, orig), B)
<1> DEFINE c == IF "color" \in fx.core THEN "own" ELSE s.color
           z == IF fx.restore THEN orig.size ELSE s.size
           p == IF fx.restore THEN orig.place ELSE s.place
<1>1. s \in Styles /\ orig \in Styles
  BY DEF Left
<1>2. Put(s, fx, orig) = [s EXCEPT !.color = c, !.size = z, !.place = p]
  BY <1>1 DEF Put, Styles
<1>3. p \in {"own", "other"} /\ z \in {"own", "other"} /\ c \in {"own", "other"}
  BY <1>1 DEF Styles
<1>4. /\ "size" \notin B => z = "own"
      /\ "place" \notin B => p = "own"
      /\ "color" \notin B => c = "own"
  BY DEF Left
<1>5. /\ "opacity" \notin B => s.opacity = 2
      /\ "clipped" \notin B => s.clipped = FALSE
      /\ "relative" \notin B => s.position # "relative" /\ s.madePositioned = FALSE
      /\ "absolute" \notin B => s.position # "absolute"
      /\ s.position = "relative" => s.madePositioned = TRUE
      /\ "inner" \notin B => s.inner = "own"
  BY DEF Left
<1> HIDE DEF p, z, c
<1> DEFINE y == [s EXCEPT !.color = c, !.size = z, !.place = p]
<1>6. /\ y \in Styles /\ y.opacity = s.opacity /\ y.size = z /\ y.place = p /\ y.color = c
      /\ y.clipped = s.clipped /\ y.position = s.position
      /\ y.madePositioned = s.madePositioned /\ y.inner = s.inner
  BY <1>1, <1>3 DEF Styles
<1> HIDE DEF y
<1>7. Left(y, B)
  BY <1>4, <1>5, <1>6 DEF Left
<1> QED BY <1>2, <1>7 DEF y

\* What may be left on the element while an effect waits,
IdleLeft(k) ==
  CASE k \in {"BlindUp", "BlindDown", "Fold"} -> {"clipped"}
    [] k = "Fold2" -> {"clipped", "size"}
    [] k \in {"Shake2", "Shake3"} -> {"relative", "place"}
    [] k = "Shrink" -> {"clipped", "relative"}
    [] k = "Grow2" -> {"clipped", "relative", "place"}
    [] OTHER -> {}

\* once it has been set up,
SetUpLeft(k) ==
  Through(IdleLeft(k), Sp!Effect(k).before)
    \cup (IF "move" \in Sp!Effect(k).core THEN {"relative"} ELSE {})

\* while it runs,
Draws(fx) ==
  (IF "opacity" \in fx.core THEN {"opacity"} ELSE {})
    \cup (IF "scale" \in fx.core THEN {"size"} ELSE {})
    \cup (IF fx.core \cap {"move", "center"} # {} THEN {"place"} ELSE {})
    \cup (IF "color" \in fx.core THEN {"color"} ELSE {})

RunLeft(k) == Through(SetUpLeft(k), Sp!Effect(k).after) \cup Draws(Sp!Effect(k))

\* and when it has been drawn for the last time and has put back what it does.
Restores(fx) == IF fx.restore THEN {"size", "place"} ELSE {}

Clears(fx) ==
  (IF "color" \in fx.core THEN {"color"} ELSE {})
    \cup (IF "opacity" \in fx.core /\ fx.to = 2 THEN {"opacity"} ELSE {})

PutLeft(k) ==
  LET fx == Sp!Effect(k)
  IN  ((RunLeft(k) \ Restores(fx)) \cup (SetUpLeft(k) \cap Restores(fx))) \ Clears(fx)

EndLeft(k) == Through(PutLeft(k), Sp!Effect(k).finish)

NextIdle(k) == IF Sp!Effect(k).then = "none" THEN {} ELSE IdleLeft(Sp!Effect(k).then)

\* An effect undoes all that it does, or leaves it to the next stage.
Cleans(k) ==
  /\ k \in Sp!FirstStages => Through({}, Sp!Effect(k).create) \subseteq IdleLeft(k)
  /\ EndLeft(k) \subseteq NextIdle(k)

\* The lists of calls.
LEMMA DoesNone == MadeBy(<<>>) = {} /\ UndoneBy(<<>>) = {}
BY DEF MadeBy, UndoneBy

LEMMA DoesOne ==
  ASSUME NEW a
  PROVE  /\ MadeBy(<<a>>) = Makes(a)
         /\ UndoneBy(<<a>>) = Undoes(a)
<1> DEFINE l == <<a>>
<1>1. DOMAIN l = 1..1 /\ l[1] = a
  OBVIOUS
<1> HIDE DEF l
<1>2. \A i : i \in 1..1 <=> i = 1
  OBVIOUS
<1>3. /\ MadeBy(l) = Makes(a)
      /\ UndoneBy(l) = Undoes(a)
  BY <1>1, <1>2 DEF MadeBy, UndoneBy
<1> QED BY <1>3 DEF l

LEMMA DoesTwo ==
  ASSUME NEW a, NEW b
  PROVE  /\ MadeBy(<<a, b>>) = Makes(a) \cup Makes(b)
         /\ UndoneBy(<<a, b>>) = Undoes(a) \cup Undoes(b)
<1> DEFINE l == <<a, b>>
<1>1. DOMAIN l = 1..2 /\ l[1] = a /\ l[2] = b
  OBVIOUS
<1> HIDE DEF l
<1>2. \A i : i \in 1..2 <=> i = 1 \/ i = 2
  OBVIOUS
<1>3. /\ MadeBy(l) = Makes(a) \cup Makes(b)
      /\ UndoneBy(l) = Undoes(a) \cup Undoes(b)
  BY <1>1, <1>2 DEF MadeBy, UndoneBy
<1> QED BY <1>3 DEF l

LEMMA DoesThree ==
  ASSUME NEW a, NEW b, NEW c
  PROVE  /\ MadeBy(<<a, b, c>>) = Makes(a) \cup Makes(b) \cup Makes(c)
         /\ UndoneBy(<<a, b, c>>) = Undoes(a) \cup Undoes(b) \cup Undoes(c)
<1> DEFINE l == <<a, b, c>>
<1>1. DOMAIN l = 1..3 /\ l[1] = a /\ l[2] = b /\ l[3] = c
  OBVIOUS
<1> HIDE DEF l
<1>2. \A i : i \in 1..3 <=> i = 1 \/ i = 2 \/ i = 3
  OBVIOUS
<1>3. /\ MadeBy(l) = Makes(a) \cup Makes(b) \cup Makes(c)
      /\ UndoneBy(l) = Undoes(a) \cup Undoes(b) \cup Undoes(c)
  BY <1>1, <1>2 DEF MadeBy, UndoneBy
<1> QED BY <1>3 DEF l

LEMMA DoesFour ==
  ASSUME NEW a, NEW b, NEW c, NEW d
  PROVE  /\ MadeBy(<<a, b, c, d>>) = Makes(a) \cup Makes(b) \cup Makes(c) \cup Makes(d)
         /\ UndoneBy(<<a, b, c, d>>) = Undoes(a) \cup Undoes(b) \cup Undoes(c) \cup Undoes(d)
<1> DEFINE l == <<a, b, c, d>>
<1>1. DOMAIN l = 1..4 /\ l[1] = a /\ l[2] = b /\ l[3] = c /\ l[4] = d
  OBVIOUS
<1> HIDE DEF l
<1>2. \A i : i \in 1..4 <=> i = 1 \/ i = 2 \/ i = 3 \/ i = 4
  OBVIOUS
<1>3. /\ MadeBy(l) = Makes(a) \cup Makes(b) \cup Makes(c) \cup Makes(d)
      /\ UndoneBy(l) = Undoes(a) \cup Undoes(b) \cup Undoes(c) \cup Undoes(d)
  BY <1>1, <1>2 DEF MadeBy, UndoneBy
<1> QED BY <1>3 DEF l

LEMMA DoesFive ==
  ASSUME NEW a, NEW b, NEW c, NEW d, NEW e
  PROVE  /\ MadeBy(<<a, b, c, d, e>>) = Makes(a) \cup Makes(b) \cup Makes(c) \cup Makes(d) \cup Makes(e)
         /\ UndoneBy(<<a, b, c, d, e>>) = Undoes(a) \cup Undoes(b) \cup Undoes(c) \cup Undoes(d) \cup Undoes(e)
<1> DEFINE l == <<a, b, c, d, e>>
<1>1. DOMAIN l = 1..5 /\ l[1] = a /\ l[2] = b /\ l[3] = c /\ l[4] = d /\ l[5] = e
  OBVIOUS
<1> HIDE DEF l
<1>2. \A i : i \in 1..5 <=> i = 1 \/ i = 2 \/ i = 3 \/ i = 4 \/ i = 5
  OBVIOUS
<1>3. /\ MadeBy(l) = Makes(a) \cup Makes(b) \cup Makes(c) \cup Makes(d) \cup Makes(e)
      /\ UndoneBy(l) = Undoes(a) \cup Undoes(b) \cup Undoes(c) \cup Undoes(d) \cup Undoes(e)
  BY <1>1, <1>2 DEF MadeBy, UndoneBy
<1> QED BY <1>3 DEF l

LEMMA DoesSix ==
  ASSUME NEW a, NEW b, NEW c, NEW d, NEW e, NEW g
  PROVE  /\ MadeBy(<<a, b, c, d, e, g>>) = Makes(a) \cup Makes(b) \cup Makes(c) \cup Makes(d) \cup Makes(e) \cup Makes(g)
         /\ UndoneBy(<<a, b, c, d, e, g>>) = Undoes(a) \cup Undoes(b) \cup Undoes(c) \cup Undoes(d) \cup Undoes(e) \cup Undoes(g)
<1> DEFINE l == <<a, b, c, d, e, g>>
<1>1. DOMAIN l = 1..6 /\ l[1] = a /\ l[2] = b /\ l[3] = c /\ l[4] = d /\ l[5] = e /\ l[6] = g
  OBVIOUS
<1> HIDE DEF l
<1>2. \A i : i \in 1..6 <=> i = 1 \/ i = 2 \/ i = 3 \/ i = 4 \/ i = 5 \/ i = 6
  OBVIOUS
<1>3. /\ MadeBy(l) = Makes(a) \cup Makes(b) \cup Makes(c) \cup Makes(d) \cup Makes(e) \cup Makes(g)
      /\ UndoneBy(l) = Undoes(a) \cup Undoes(b) \cup Undoes(c) \cup Undoes(d) \cup Undoes(e) \cup Undoes(g)
  BY <1>1, <1>2 DEF MadeBy, UndoneBy
<1> QED BY <1>3 DEF l

\* The lists the effects hold.
LEMMA ListsDo ==
  /\ MadeBy(<<>>) = {} /\ UndoneBy(<<>>) = {}
  /\ MadeBy(<<"absolutize">>) = {"absolute", "size", "place"}
  /\ UndoneBy(<<"absolutize">>) = {}
  /\ MadeBy(<<"makeClipping">>) = {"clipped"}
  /\ UndoneBy(<<"makeClipping">>) = {}
  /\ MadeBy(<<"makePositioned">>) = {"relative"}
  /\ UndoneBy(<<"makePositioned">>) = {}
  /\ MadeBy(<<"old opacity">>) = {}
  /\ UndoneBy(<<"old opacity">>) = {"opacity"}
  /\ MadeBy(<<"show">>) = {}
  /\ UndoneBy(<<"show">>) = {}
  /\ MadeBy(<<"undoClipping">>) = {}
  /\ UndoneBy(<<"undoClipping">>) = {"clipped"}
  /\ MadeBy(<<"height 0px", "show">>) = {"size"}
  /\ UndoneBy(<<"height 0px", "show">>) = {}
  /\ MadeBy(<<"hide", "old opacity">>) = {}
  /\ UndoneBy(<<"hide", "old opacity">>) = {"opacity"}
  /\ MadeBy(<<"hide", "undoClipping">>) = {}
  /\ UndoneBy(<<"hide", "undoClipping">>) = {"clipped"}
  /\ MadeBy(<<"makePositioned", "makeClipping">>) = {"clipped", "relative"}
  /\ UndoneBy(<<"makePositioned", "makeClipping">>) = {}
  /\ MadeBy(<<"undoPositioned", "old place">>) = {}
  /\ UndoneBy(<<"undoPositioned", "old place">>) = {"relative", "place"}
  /\ MadeBy(<<"hide", "makeClipping", "makePositioned">>) = {"clipped", "relative"}
  /\ UndoneBy(<<"hide", "makeClipping", "makePositioned">>) = {}
  /\ MadeBy(<<"makeClipping", "height 0px", "show">>) = {"clipped", "size"}
  /\ UndoneBy(<<"makeClipping", "height 0px", "show">>) = {}
  /\ MadeBy(<<"undoClipping", "undoPositioned", "inner.undoPositioned">>) = {}
  /\ UndoneBy(<<"undoClipping", "undoPositioned", "inner.undoPositioned">>) = {"clipped", "relative", "inner"}
  /\ MadeBy(<<"hide", "undoClipping", "old place", "old size">>) = {}
  /\ UndoneBy(<<"hide", "undoClipping", "old place", "old size">>) = {"clipped", "size", "place"}
  /\ MadeBy(<<"hide", "undoClipping", "undoPositioned", "inner.undoPositioned">>) = {}
  /\ UndoneBy(<<"hide", "undoClipping", "undoPositioned", "inner.undoPositioned">>) = {"clipped", "relative", "inner"}
  /\ MadeBy(<<"hide", "undoClipping", "undoPositioned", "old opacity">>) = {}
  /\ UndoneBy(<<"hide", "undoClipping", "undoPositioned", "old opacity">>) = {"opacity", "clipped", "relative"}
  /\ MadeBy(<<"hide", "undoPositioned", "old place", "old opacity">>) = {}
  /\ UndoneBy(<<"hide", "undoPositioned", "old place", "old opacity">>) = {"opacity", "relative", "place"}
  /\ MadeBy(<<"makePositioned", "inner.makePositioned", "makeClipping", "show">>) = {"clipped", "relative", "inner"}
  /\ UndoneBy(<<"makePositioned", "inner.makePositioned", "makeClipping", "show">>) = {}
  /\ MadeBy(<<"hide", "old opacity", "old position", "old place", "old size">>) = {}
  /\ UndoneBy(<<"hide", "old opacity", "old position", "old place", "old size">>) = {"opacity", "absolute", "size", "place"}
  /\ MadeBy(<<"makePositioned", "inner.makePositioned", "makeClipping", "height 0px", "show">>) = {"clipped", "relative", "inner", "size"}
  /\ UndoneBy(<<"makePositioned", "inner.makePositioned", "makeClipping", "height 0px", "show">>) = {}
  /\ MadeBy(<<"undoClipping", "undoPositioned", "old place", "old size", "old opacity">>) = {}
  /\ UndoneBy(<<"undoClipping", "undoPositioned", "old place", "old size", "old opacity">>) = {"opacity", "clipped", "relative", "size", "place"}
  /\ MadeBy(<<"hide", "undoClipping", "undoPositioned", "old place", "old size", "old opacity">>) = {}
  /\ UndoneBy(<<"hide", "undoClipping", "undoPositioned", "old place", "old size", "old opacity">>) = {"opacity", "clipped", "relative", "size", "place"}
<1>1. MadeBy(<<"absolutize">>) = {"absolute", "size", "place"} /\ UndoneBy(<<"absolutize">>) = {}
  <2> DEFINE a == "absolutize"
  <2>1. /\ MadeBy(<<a>>) = Makes(a)
        /\ UndoneBy(<<a>>) = Undoes(a)
    <3> HIDE DEF a
    <3> QED BY DoesOne
  <2>2. /\ Makes(a) = {"absolute", "size", "place"} /\ Undoes(a) = {}
    BY MakesAre, Zenon
  <2> QED BY <2>1, <2>2
<1>2. MadeBy(<<"makeClipping">>) = {"clipped"} /\ UndoneBy(<<"makeClipping">>) = {}
  <2> DEFINE a == "makeClipping"
  <2>1. /\ MadeBy(<<a>>) = Makes(a)
        /\ UndoneBy(<<a>>) = Undoes(a)
    <3> HIDE DEF a
    <3> QED BY DoesOne
  <2>2. /\ Makes(a) = {"clipped"} /\ Undoes(a) = {}
    BY MakesAre, Zenon
  <2> QED BY <2>1, <2>2
<1>3. MadeBy(<<"makePositioned">>) = {"relative"} /\ UndoneBy(<<"makePositioned">>) = {}
  <2> DEFINE a == "makePositioned"
  <2>1. /\ MadeBy(<<a>>) = Makes(a)
        /\ UndoneBy(<<a>>) = Undoes(a)
    <3> HIDE DEF a
    <3> QED BY DoesOne
  <2>2. /\ Makes(a) = {"relative"} /\ Undoes(a) = {}
    BY MakesAre, Zenon
  <2> QED BY <2>1, <2>2
<1>4. MadeBy(<<"old opacity">>) = {} /\ UndoneBy(<<"old opacity">>) = {"opacity"}
  <2> DEFINE a == "old opacity"
  <2>1. /\ MadeBy(<<a>>) = Makes(a)
        /\ UndoneBy(<<a>>) = Undoes(a)
    <3> HIDE DEF a
    <3> QED BY DoesOne
  <2>2. /\ Makes(a) = {} /\ Undoes(a) = {"opacity"}
    BY MakesAre, Zenon
  <2> QED BY <2>1, <2>2
<1>5. MadeBy(<<"show">>) = {} /\ UndoneBy(<<"show">>) = {}
  <2> DEFINE a == "show"
  <2>1. /\ MadeBy(<<a>>) = Makes(a)
        /\ UndoneBy(<<a>>) = Undoes(a)
    <3> HIDE DEF a
    <3> QED BY DoesOne
  <2>2. /\ Makes(a) = {} /\ Undoes(a) = {}
    BY MakesAre, Zenon
  <2> QED BY <2>1, <2>2
<1>6. MadeBy(<<"undoClipping">>) = {} /\ UndoneBy(<<"undoClipping">>) = {"clipped"}
  <2> DEFINE a == "undoClipping"
  <2>1. /\ MadeBy(<<a>>) = Makes(a)
        /\ UndoneBy(<<a>>) = Undoes(a)
    <3> HIDE DEF a
    <3> QED BY DoesOne
  <2>2. /\ Makes(a) = {} /\ Undoes(a) = {"clipped"}
    BY MakesAre, Zenon
  <2> QED BY <2>1, <2>2
<1>7. MadeBy(<<"height 0px", "show">>) = {"size"} /\ UndoneBy(<<"height 0px", "show">>) = {}
  <2> DEFINE a == "height 0px"
             b == "show"
  <2>1. /\ MadeBy(<<a, b>>) = Makes(a) \cup Makes(b)
        /\ UndoneBy(<<a, b>>) = Undoes(a) \cup Undoes(b)
    <3> HIDE DEF a, b
    <3> QED BY DoesTwo
  <2>2. /\ Makes(a) = {"size"} /\ Undoes(a) = {}
        /\ Makes(b) = {} /\ Undoes(b) = {}
    BY MakesAre, Zenon
  <2> QED BY <2>1, <2>2
<1>8. MadeBy(<<"hide", "old opacity">>) = {} /\ UndoneBy(<<"hide", "old opacity">>) = {"opacity"}
  <2> DEFINE a == "hide"
             b == "old opacity"
  <2>1. /\ MadeBy(<<a, b>>) = Makes(a) \cup Makes(b)
        /\ UndoneBy(<<a, b>>) = Undoes(a) \cup Undoes(b)
    <3> HIDE DEF a, b
    <3> QED BY DoesTwo
  <2>2. /\ Makes(a) = {} /\ Undoes(a) = {}
        /\ Makes(b) = {} /\ Undoes(b) = {"opacity"}
    BY MakesAre, Zenon
  <2> QED BY <2>1, <2>2
<1>9. MadeBy(<<"hide", "undoClipping">>) = {} /\ UndoneBy(<<"hide", "undoClipping">>) = {"clipped"}
  <2> DEFINE a == "hide"
             b == "undoClipping"
  <2>1. /\ MadeBy(<<a, b>>) = Makes(a) \cup Makes(b)
        /\ UndoneBy(<<a, b>>) = Undoes(a) \cup Undoes(b)
    <3> HIDE DEF a, b
    <3> QED BY DoesTwo
  <2>2. /\ Makes(a) = {} /\ Undoes(a) = {}
        /\ Makes(b) = {} /\ Undoes(b) = {"clipped"}
    BY MakesAre, Zenon
  <2> QED BY <2>1, <2>2
<1>10. MadeBy(<<"makePositioned", "makeClipping">>) = {"clipped", "relative"} /\ UndoneBy(<<"makePositioned", "makeClipping">>) = {}
  <2> DEFINE a == "makePositioned"
             b == "makeClipping"
  <2>1. /\ MadeBy(<<a, b>>) = Makes(a) \cup Makes(b)
        /\ UndoneBy(<<a, b>>) = Undoes(a) \cup Undoes(b)
    <3> HIDE DEF a, b
    <3> QED BY DoesTwo
  <2>2. /\ Makes(a) = {"relative"} /\ Undoes(a) = {}
        /\ Makes(b) = {"clipped"} /\ Undoes(b) = {}
    BY MakesAre, Zenon
  <2> QED BY <2>1, <2>2
<1>11. MadeBy(<<"undoPositioned", "old place">>) = {} /\ UndoneBy(<<"undoPositioned", "old place">>) = {"relative", "place"}
  <2> DEFINE a == "undoPositioned"
             b == "old place"
  <2>1. /\ MadeBy(<<a, b>>) = Makes(a) \cup Makes(b)
        /\ UndoneBy(<<a, b>>) = Undoes(a) \cup Undoes(b)
    <3> HIDE DEF a, b
    <3> QED BY DoesTwo
  <2>2. /\ Makes(a) = {} /\ Undoes(a) = {"relative"}
        /\ Makes(b) = {} /\ Undoes(b) = {"place"}
    BY MakesAre, Zenon
  <2> QED BY <2>1, <2>2
<1>12. MadeBy(<<"hide", "makeClipping", "makePositioned">>) = {"clipped", "relative"} /\ UndoneBy(<<"hide", "makeClipping", "makePositioned">>) = {}
  <2> DEFINE a == "hide"
             b == "makeClipping"
             c == "makePositioned"
  <2>1. /\ MadeBy(<<a, b, c>>) = Makes(a) \cup Makes(b) \cup Makes(c)
        /\ UndoneBy(<<a, b, c>>) = Undoes(a) \cup Undoes(b) \cup Undoes(c)
    <3> HIDE DEF a, b, c
    <3> QED BY DoesThree
  <2>2. /\ Makes(a) = {} /\ Undoes(a) = {}
        /\ Makes(b) = {"clipped"} /\ Undoes(b) = {}
        /\ Makes(c) = {"relative"} /\ Undoes(c) = {}
    BY MakesAre, Zenon
  <2> QED BY <2>1, <2>2
<1>13. MadeBy(<<"makeClipping", "height 0px", "show">>) = {"clipped", "size"} /\ UndoneBy(<<"makeClipping", "height 0px", "show">>) = {}
  <2> DEFINE a == "makeClipping"
             b == "height 0px"
             c == "show"
  <2>1. /\ MadeBy(<<a, b, c>>) = Makes(a) \cup Makes(b) \cup Makes(c)
        /\ UndoneBy(<<a, b, c>>) = Undoes(a) \cup Undoes(b) \cup Undoes(c)
    <3> HIDE DEF a, b, c
    <3> QED BY DoesThree
  <2>2. /\ Makes(a) = {"clipped"} /\ Undoes(a) = {}
        /\ Makes(b) = {"size"} /\ Undoes(b) = {}
        /\ Makes(c) = {} /\ Undoes(c) = {}
    BY MakesAre, Zenon
  <2> QED BY <2>1, <2>2
<1>14. MadeBy(<<"undoClipping", "undoPositioned", "inner.undoPositioned">>) = {} /\ UndoneBy(<<"undoClipping", "undoPositioned", "inner.undoPositioned">>) = {"clipped", "relative", "inner"}
  <2> DEFINE a == "undoClipping"
             b == "undoPositioned"
             c == "inner.undoPositioned"
  <2>1. /\ MadeBy(<<a, b, c>>) = Makes(a) \cup Makes(b) \cup Makes(c)
        /\ UndoneBy(<<a, b, c>>) = Undoes(a) \cup Undoes(b) \cup Undoes(c)
    <3> HIDE DEF a, b, c
    <3> QED BY DoesThree
  <2>2. /\ Makes(a) = {} /\ Undoes(a) = {"clipped"}
        /\ Makes(b) = {} /\ Undoes(b) = {"relative"}
        /\ Makes(c) = {} /\ Undoes(c) = {"inner"}
    BY MakesAre, Zenon
  <2> QED BY <2>1, <2>2
<1>15. MadeBy(<<"hide", "undoClipping", "old place", "old size">>) = {} /\ UndoneBy(<<"hide", "undoClipping", "old place", "old size">>) = {"clipped", "size", "place"}
  <2> DEFINE a == "hide"
             b == "undoClipping"
             c == "old place"
             d == "old size"
  <2>1. /\ MadeBy(<<a, b, c, d>>) = Makes(a) \cup Makes(b) \cup Makes(c) \cup Makes(d)
        /\ UndoneBy(<<a, b, c, d>>) = Undoes(a) \cup Undoes(b) \cup Undoes(c) \cup Undoes(d)
    <3> HIDE DEF a, b, c, d
    <3> QED BY DoesFour
  <2>2. /\ Makes(a) = {} /\ Undoes(a) = {}
        /\ Makes(b) = {} /\ Undoes(b) = {"clipped"}
        /\ Makes(c) = {} /\ Undoes(c) = {"place"}
        /\ Makes(d) = {} /\ Undoes(d) = {"size"}
    BY MakesAre, Zenon
  <2> QED BY <2>1, <2>2
<1>16. MadeBy(<<"hide", "undoClipping", "undoPositioned", "inner.undoPositioned">>) = {} /\ UndoneBy(<<"hide", "undoClipping", "undoPositioned", "inner.undoPositioned">>) = {"clipped", "relative", "inner"}
  <2> DEFINE a == "hide"
             b == "undoClipping"
             c == "undoPositioned"
             d == "inner.undoPositioned"
  <2>1. /\ MadeBy(<<a, b, c, d>>) = Makes(a) \cup Makes(b) \cup Makes(c) \cup Makes(d)
        /\ UndoneBy(<<a, b, c, d>>) = Undoes(a) \cup Undoes(b) \cup Undoes(c) \cup Undoes(d)
    <3> HIDE DEF a, b, c, d
    <3> QED BY DoesFour
  <2>2. /\ Makes(a) = {} /\ Undoes(a) = {}
        /\ Makes(b) = {} /\ Undoes(b) = {"clipped"}
        /\ Makes(c) = {} /\ Undoes(c) = {"relative"}
        /\ Makes(d) = {} /\ Undoes(d) = {"inner"}
    BY MakesAre, Zenon
  <2> QED BY <2>1, <2>2
<1>17. MadeBy(<<"hide", "undoClipping", "undoPositioned", "old opacity">>) = {} /\ UndoneBy(<<"hide", "undoClipping", "undoPositioned", "old opacity">>) = {"opacity", "clipped", "relative"}
  <2> DEFINE a == "hide"
             b == "undoClipping"
             c == "undoPositioned"
             d == "old opacity"
  <2>1. /\ MadeBy(<<a, b, c, d>>) = Makes(a) \cup Makes(b) \cup Makes(c) \cup Makes(d)
        /\ UndoneBy(<<a, b, c, d>>) = Undoes(a) \cup Undoes(b) \cup Undoes(c) \cup Undoes(d)
    <3> HIDE DEF a, b, c, d
    <3> QED BY DoesFour
  <2>2. /\ Makes(a) = {} /\ Undoes(a) = {}
        /\ Makes(b) = {} /\ Undoes(b) = {"clipped"}
        /\ Makes(c) = {} /\ Undoes(c) = {"relative"}
        /\ Makes(d) = {} /\ Undoes(d) = {"opacity"}
    BY MakesAre, Zenon
  <2> QED BY <2>1, <2>2
<1>18. MadeBy(<<"hide", "undoPositioned", "old place", "old opacity">>) = {} /\ UndoneBy(<<"hide", "undoPositioned", "old place", "old opacity">>) = {"opacity", "relative", "place"}
  <2> DEFINE a == "hide"
             b == "undoPositioned"
             c == "old place"
             d == "old opacity"
  <2>1. /\ MadeBy(<<a, b, c, d>>) = Makes(a) \cup Makes(b) \cup Makes(c) \cup Makes(d)
        /\ UndoneBy(<<a, b, c, d>>) = Undoes(a) \cup Undoes(b) \cup Undoes(c) \cup Undoes(d)
    <3> HIDE DEF a, b, c, d
    <3> QED BY DoesFour
  <2>2. /\ Makes(a) = {} /\ Undoes(a) = {}
        /\ Makes(b) = {} /\ Undoes(b) = {"relative"}
        /\ Makes(c) = {} /\ Undoes(c) = {"place"}
        /\ Makes(d) = {} /\ Undoes(d) = {"opacity"}
    BY MakesAre, Zenon
  <2> QED BY <2>1, <2>2
<1>19. MadeBy(<<"makePositioned", "inner.makePositioned", "makeClipping", "show">>) = {"clipped", "relative", "inner"} /\ UndoneBy(<<"makePositioned", "inner.makePositioned", "makeClipping", "show">>) = {}
  <2> DEFINE a == "makePositioned"
             b == "inner.makePositioned"
             c == "makeClipping"
             d == "show"
  <2>1. /\ MadeBy(<<a, b, c, d>>) = Makes(a) \cup Makes(b) \cup Makes(c) \cup Makes(d)
        /\ UndoneBy(<<a, b, c, d>>) = Undoes(a) \cup Undoes(b) \cup Undoes(c) \cup Undoes(d)
    <3> HIDE DEF a, b, c, d
    <3> QED BY DoesFour
  <2>2. /\ Makes(a) = {"relative"} /\ Undoes(a) = {}
        /\ Makes(b) = {"inner"} /\ Undoes(b) = {}
        /\ Makes(c) = {"clipped"} /\ Undoes(c) = {}
        /\ Makes(d) = {} /\ Undoes(d) = {}
    BY MakesAre, Zenon
  <2> QED BY <2>1, <2>2
<1>20. MadeBy(<<"hide", "old opacity", "old position", "old place", "old size">>) = {} /\ UndoneBy(<<"hide", "old opacity", "old position", "old place", "old size">>) = {"opacity", "absolute", "size", "place"}
  <2> DEFINE a == "hide"
             b == "old opacity"
             c == "old position"
             d == "old place"
             e == "old size"
  <2>1. /\ MadeBy(<<a, b, c, d, e>>) = Makes(a) \cup Makes(b) \cup Makes(c) \cup Makes(d) \cup Makes(e)
        /\ UndoneBy(<<a, b, c, d, e>>) = Undoes(a) \cup Undoes(b) \cup Undoes(c) \cup Undoes(d) \cup Undoes(e)
    <3> HIDE DEF a, b, c, d, e
    <3> QED BY DoesFive
  <2>2. /\ Makes(a) = {} /\ Undoes(a) = {}
        /\ Makes(b) = {} /\ Undoes(b) = {"opacity"}
        /\ Makes(c) = {} /\ Undoes(c) = {"absolute"}
        /\ Makes(d) = {} /\ Undoes(d) = {"place"}
        /\ Makes(e) = {} /\ Undoes(e) = {"size"}
    BY MakesAre, Zenon
  <2> QED BY <2>1, <2>2
<1>21. MadeBy(<<"makePositioned", "inner.makePositioned", "makeClipping", "height 0px", "show">>) = {"clipped", "relative", "inner", "size"} /\ UndoneBy(<<"makePositioned", "inner.makePositioned", "makeClipping", "height 0px", "show">>) = {}
  <2> DEFINE a == "makePositioned"
             b == "inner.makePositioned"
             c == "makeClipping"
             d == "height 0px"
             e == "show"
  <2>1. /\ MadeBy(<<a, b, c, d, e>>) = Makes(a) \cup Makes(b) \cup Makes(c) \cup Makes(d) \cup Makes(e)
        /\ UndoneBy(<<a, b, c, d, e>>) = Undoes(a) \cup Undoes(b) \cup Undoes(c) \cup Undoes(d) \cup Undoes(e)
    <3> HIDE DEF a, b, c, d, e
    <3> QED BY DoesFive
  <2>2. /\ Makes(a) = {"relative"} /\ Undoes(a) = {}
        /\ Makes(b) = {"inner"} /\ Undoes(b) = {}
        /\ Makes(c) = {"clipped"} /\ Undoes(c) = {}
        /\ Makes(d) = {"size"} /\ Undoes(d) = {}
        /\ Makes(e) = {} /\ Undoes(e) = {}
    BY MakesAre, Zenon
  <2> QED BY <2>1, <2>2
<1>22. MadeBy(<<"undoClipping", "undoPositioned", "old place", "old size", "old opacity">>) = {} /\ UndoneBy(<<"undoClipping", "undoPositioned", "old place", "old size", "old opacity">>) = {"opacity", "clipped", "relative", "size", "place"}
  <2> DEFINE a == "undoClipping"
             b == "undoPositioned"
             c == "old place"
             d == "old size"
             e == "old opacity"
  <2>1. /\ MadeBy(<<a, b, c, d, e>>) = Makes(a) \cup Makes(b) \cup Makes(c) \cup Makes(d) \cup Makes(e)
        /\ UndoneBy(<<a, b, c, d, e>>) = Undoes(a) \cup Undoes(b) \cup Undoes(c) \cup Undoes(d) \cup Undoes(e)
    <3> HIDE DEF a, b, c, d, e
    <3> QED BY DoesFive
  <2>2. /\ Makes(a) = {} /\ Undoes(a) = {"clipped"}
        /\ Makes(b) = {} /\ Undoes(b) = {"relative"}
        /\ Makes(c) = {} /\ Undoes(c) = {"place"}
        /\ Makes(d) = {} /\ Undoes(d) = {"size"}
        /\ Makes(e) = {} /\ Undoes(e) = {"opacity"}
    BY MakesAre, Zenon
  <2> QED BY <2>1, <2>2
<1>23. MadeBy(<<"hide", "undoClipping", "undoPositioned", "old place", "old size", "old opacity">>) = {} /\ UndoneBy(<<"hide", "undoClipping", "undoPositioned", "old place", "old size", "old opacity">>) = {"opacity", "clipped", "relative", "size", "place"}
  <2> DEFINE a == "hide"
             b == "undoClipping"
             c == "undoPositioned"
             d == "old place"
             e == "old size"
             g == "old opacity"
  <2>1. /\ MadeBy(<<a, b, c, d, e, g>>) = Makes(a) \cup Makes(b) \cup Makes(c) \cup Makes(d) \cup Makes(e) \cup Makes(g)
        /\ UndoneBy(<<a, b, c, d, e, g>>) = Undoes(a) \cup Undoes(b) \cup Undoes(c) \cup Undoes(d) \cup Undoes(e) \cup Undoes(g)
    <3> HIDE DEF a, b, c, d, e, g
    <3> QED BY DoesSix
  <2>2. /\ Makes(a) = {} /\ Undoes(a) = {}
        /\ Makes(b) = {} /\ Undoes(b) = {"clipped"}
        /\ Makes(c) = {} /\ Undoes(c) = {"relative"}
        /\ Makes(d) = {} /\ Undoes(d) = {"place"}
        /\ Makes(e) = {} /\ Undoes(e) = {"size"}
        /\ Makes(g) = {} /\ Undoes(g) = {"opacity"}
    BY MakesAre, Zenon
  <2> QED BY <2>1, <2>2
<1> QED BY DoesNone, <1>1, <1>2, <1>3, <1>4, <1>5, <1>6, <1>7, <1>8, <1>9, <1>10, <1>11, <1>12, <1>13, <1>14, <1>15, <1>16, <1>17, <1>18, <1>19, <1>20, <1>21, <1>22, <1>23, Zenon

\* The effects, one by one.
LEMMA FadeCleans == Cleans("Fade")
<1> DEFINE fx == Sp!Effect("Fade")
<1>1. /\ MadeBy(fx.before) = {} /\ UndoneBy(fx.before) = {}
      /\ MadeBy(fx.after) = {} /\ UndoneBy(fx.after) = {}
      /\ MadeBy(fx.finish) = {} /\ UndoneBy(fx.finish) = {"opacity"}
      /\ MadeBy(fx.create) = {} /\ UndoneBy(fx.create) = {}
  BY FadeIs, ListsDo, Zenon
<1>2. fx.core = {"opacity"} /\ fx.restore = FALSE /\ fx.to = 0
  BY FadeIs, Zenon
<1>3. IdleLeft("Fade") = {} /\ NextIdle("Fade") = {}
  <2>1. NextIdle("Fade") = {}
    BY FadeIs, Zenon DEF NextIdle
  <2> QED BY <2>1 DEF IdleLeft
<1> HIDE DEF fx
<1>4. SetUpLeft("Fade") = {}
  BY <1>1, <1>2, <1>3 DEF SetUpLeft, Through, fx
<1>5. Draws(fx) = {"opacity"} /\ Restores(fx) = {} /\ Clears(fx) = {}
  BY <1>2 DEF Draws, Restores, Clears
<1>6. RunLeft("Fade") = {"opacity"}
  BY <1>1, <1>4, <1>5 DEF RunLeft, Through, fx
<1>7. PutLeft("Fade") = {"opacity"}
  BY <1>4, <1>5, <1>6 DEF PutLeft, fx
<1>8. EndLeft("Fade") \subseteq {}
  BY <1>1, <1>7 DEF EndLeft, Through, fx
<1>9. Through({}, fx.create) \subseteq {}
  BY <1>1 DEF Through
<1> QED BY <1>3, <1>8, <1>9, Zenon DEF Cleans, fx

LEMMA AppearCleans == Cleans("Appear")
<1> DEFINE fx == Sp!Effect("Appear")
<1>1. /\ MadeBy(fx.before) = {} /\ UndoneBy(fx.before) = {}
      /\ MadeBy(fx.after) = {} /\ UndoneBy(fx.after) = {}
      /\ MadeBy(fx.finish) = {} /\ UndoneBy(fx.finish) = {}
      /\ MadeBy(fx.create) = {} /\ UndoneBy(fx.create) = {}
  BY AppearIs, ListsDo, Zenon
<1>2. fx.core = {"opacity"} /\ fx.restore = FALSE /\ fx.to = 2
  BY AppearIs, Zenon
<1>3. IdleLeft("Appear") = {} /\ NextIdle("Appear") = {}
  <2>1. NextIdle("Appear") = {}
    BY AppearIs, Zenon DEF NextIdle
  <2> QED BY <2>1 DEF IdleLeft
<1> HIDE DEF fx
<1>4. SetUpLeft("Appear") = {}
  BY <1>1, <1>2, <1>3 DEF SetUpLeft, Through, fx
<1>5. Draws(fx) = {"opacity"} /\ Restores(fx) = {} /\ Clears(fx) = {"opacity"}
  BY <1>2 DEF Draws, Restores, Clears
<1>6. RunLeft("Appear") = {"opacity"}
  BY <1>1, <1>4, <1>5 DEF RunLeft, Through, fx
<1>7. PutLeft("Appear") = {}
  BY <1>4, <1>5, <1>6 DEF PutLeft, fx
<1>8. EndLeft("Appear") \subseteq {}
  BY <1>1, <1>7 DEF EndLeft, Through, fx
<1>9. Through({}, fx.create) \subseteq {}
  BY <1>1 DEF Through
<1> QED BY <1>3, <1>8, <1>9, Zenon DEF Cleans, fx

LEMMA PuffCleans == Cleans("Puff")
<1> DEFINE fx == Sp!Effect("Puff")
<1>1. /\ MadeBy(fx.before) = {"absolute", "size", "place"} /\ UndoneBy(fx.before) = {}
      /\ MadeBy(fx.after) = {} /\ UndoneBy(fx.after) = {}
      /\ MadeBy(fx.finish) = {} /\ UndoneBy(fx.finish) = {"opacity", "absolute", "size", "place"}
      /\ MadeBy(fx.create) = {} /\ UndoneBy(fx.create) = {}
  BY PuffIs, ListsDo, Zenon
<1>2. fx.core = {"scale", "center", "opacity"} /\ fx.restore = TRUE /\ fx.to = 0
  BY PuffIs, Zenon
<1>3. IdleLeft("Puff") = {} /\ NextIdle("Puff") = {}
  <2>1. NextIdle("Puff") = {}
    BY PuffIs, Zenon DEF NextIdle
  <2> QED BY <2>1 DEF IdleLeft
<1> HIDE DEF fx
<1>4. SetUpLeft("Puff") = {"absolute", "size", "place"}
  BY <1>1, <1>2, <1>3 DEF SetUpLeft, Through, fx
<1>5. Draws(fx) = {"opacity", "size", "place"} /\ Restores(fx) = {"size", "place"} /\ Clears(fx) = {}
  BY <1>2 DEF Draws, Restores, Clears
<1>6. RunLeft("Puff") = {"opacity", "absolute", "size", "place"}
  BY <1>1, <1>4, <1>5 DEF RunLeft, Through, fx
<1>7. PutLeft("Puff") = {"opacity", "absolute", "size", "place"}
  BY <1>4, <1>5, <1>6 DEF PutLeft, fx
<1>8. EndLeft("Puff") \subseteq {}
  BY <1>1, <1>7 DEF EndLeft, Through, fx
<1>9. Through({}, fx.create) \subseteq {}
  BY <1>1 DEF Through
<1> QED BY <1>3, <1>8, <1>9, Zenon DEF Cleans, fx

LEMMA BlindUpCleans == Cleans("BlindUp")
<1> DEFINE fx == Sp!Effect("BlindUp")
<1>1. /\ MadeBy(fx.before) = {} /\ UndoneBy(fx.before) = {}
      /\ MadeBy(fx.after) = {} /\ UndoneBy(fx.after) = {}
      /\ MadeBy(fx.finish) = {} /\ UndoneBy(fx.finish) = {"clipped"}
      /\ MadeBy(fx.create) = {"clipped"} /\ UndoneBy(fx.create) = {}
  BY BlindUpIs, ListsDo, Zenon
<1>2. fx.core = {"scale"} /\ fx.restore = TRUE /\ fx.to = 2
  BY BlindUpIs, Zenon
<1>3. IdleLeft("BlindUp") = {"clipped"} /\ NextIdle("BlindUp") = {}
  <2>1. NextIdle("BlindUp") = {}
    BY BlindUpIs, Zenon DEF NextIdle
  <2> QED BY <2>1 DEF IdleLeft
<1> HIDE DEF fx
<1>4. SetUpLeft("BlindUp") = {"clipped"}
  BY <1>1, <1>2, <1>3 DEF SetUpLeft, Through, fx
<1>5. Draws(fx) = {"size"} /\ Restores(fx) = {"size", "place"} /\ Clears(fx) = {}
  BY <1>2 DEF Draws, Restores, Clears
<1>6. RunLeft("BlindUp") = {"clipped", "size"}
  BY <1>1, <1>4, <1>5 DEF RunLeft, Through, fx
<1>7. PutLeft("BlindUp") = {"clipped"}
  BY <1>4, <1>5, <1>6 DEF PutLeft, fx
<1>8. EndLeft("BlindUp") \subseteq {}
  BY <1>1, <1>7 DEF EndLeft, Through, fx
<1>9. Through({}, fx.create) \subseteq {"clipped"}
  BY <1>1 DEF Through
<1> QED BY <1>3, <1>8, <1>9, Zenon DEF Cleans, fx

LEMMA BlindDownCleans == Cleans("BlindDown")
<1> DEFINE fx == Sp!Effect("BlindDown")
<1>1. /\ MadeBy(fx.before) = {} /\ UndoneBy(fx.before) = {}
      /\ MadeBy(fx.after) = {"clipped", "size"} /\ UndoneBy(fx.after) = {}
      /\ MadeBy(fx.finish) = {} /\ UndoneBy(fx.finish) = {"clipped"}
      /\ MadeBy(fx.create) = {} /\ UndoneBy(fx.create) = {}
  BY BlindDownIs, ListsDo, Zenon
<1>2. fx.core = {"scale"} /\ fx.restore = TRUE /\ fx.to = 2
  BY BlindDownIs, Zenon
<1>3. IdleLeft("BlindDown") = {"clipped"} /\ NextIdle("BlindDown") = {}
  <2>1. NextIdle("BlindDown") = {}
    BY BlindDownIs, Zenon DEF NextIdle
  <2> QED BY <2>1 DEF IdleLeft
<1> HIDE DEF fx
<1>4. SetUpLeft("BlindDown") = {"clipped"}
  BY <1>1, <1>2, <1>3 DEF SetUpLeft, Through, fx
<1>5. Draws(fx) = {"size"} /\ Restores(fx) = {"size", "place"} /\ Clears(fx) = {}
  BY <1>2 DEF Draws, Restores, Clears
<1>6. RunLeft("BlindDown") = {"clipped", "size"}
  BY <1>1, <1>4, <1>5 DEF RunLeft, Through, fx
<1>7. PutLeft("BlindDown") = {"clipped"}
  BY <1>4, <1>5, <1>6 DEF PutLeft, fx
<1>8. EndLeft("BlindDown") \subseteq {}
  BY <1>1, <1>7 DEF EndLeft, Through, fx
<1>9. Through({}, fx.create) \subseteq {"clipped"}
  BY <1>1 DEF Through
<1> QED BY <1>3, <1>8, <1>9, Zenon DEF Cleans, fx

LEMMA SwitchOffCleans == Cleans("SwitchOff")
<1> DEFINE fx == Sp!Effect("SwitchOff")
<1>1. /\ MadeBy(fx.before) = {} /\ UndoneBy(fx.before) = {}
      /\ MadeBy(fx.after) = {} /\ UndoneBy(fx.after) = {}
      /\ MadeBy(fx.finish) = {} /\ UndoneBy(fx.finish) = {}
      /\ MadeBy(fx.create) = {} /\ UndoneBy(fx.create) = {}
  BY SwitchOffIs, ListsDo, Zenon
<1>2. fx.core = {"opacity"} /\ fx.restore = FALSE /\ fx.to = 2
  BY SwitchOffIs, Zenon
<1>3. IdleLeft("SwitchOff") = {} /\ NextIdle("SwitchOff") = {}
  <2>1. NextIdle("SwitchOff") = IdleLeft("SwitchOff2")
    BY SwitchOffIs DEF NextIdle
  <2> QED BY <2>1 DEF IdleLeft
<1> HIDE DEF fx
<1>4. SetUpLeft("SwitchOff") = {}
  BY <1>1, <1>2, <1>3 DEF SetUpLeft, Through, fx
<1>5. Draws(fx) = {"opacity"} /\ Restores(fx) = {} /\ Clears(fx) = {"opacity"}
  BY <1>2 DEF Draws, Restores, Clears
<1>6. RunLeft("SwitchOff") = {"opacity"}
  BY <1>1, <1>4, <1>5 DEF RunLeft, Through, fx
<1>7. PutLeft("SwitchOff") = {}
  BY <1>4, <1>5, <1>6 DEF PutLeft, fx
<1>8. EndLeft("SwitchOff") \subseteq {}
  BY <1>1, <1>7 DEF EndLeft, Through, fx
<1>9. Through({}, fx.create) \subseteq {}
  BY <1>1 DEF Through
<1> QED BY <1>3, <1>8, <1>9, Zenon DEF Cleans, fx

LEMMA SwitchOff2Cleans == Cleans("SwitchOff2")
<1> DEFINE fx == Sp!Effect("SwitchOff2")
<1>1. /\ MadeBy(fx.before) = {"clipped", "relative"} /\ UndoneBy(fx.before) = {}
      /\ MadeBy(fx.after) = {} /\ UndoneBy(fx.after) = {}
      /\ MadeBy(fx.finish) = {} /\ UndoneBy(fx.finish) = {"opacity", "clipped", "relative"}
      /\ MadeBy(fx.create) = {} /\ UndoneBy(fx.create) = {}
  BY SwitchOff2Is, ListsDo, Zenon
<1>2. fx.core = {"scale", "center"} /\ fx.restore = TRUE /\ fx.to = 2
  BY SwitchOff2Is, Zenon
<1>3. IdleLeft("SwitchOff2") = {} /\ NextIdle("SwitchOff2") = {}
  <2>1. NextIdle("SwitchOff2") = {}
    BY SwitchOff2Is, Zenon DEF NextIdle
  <2> QED BY <2>1 DEF IdleLeft
<1> HIDE DEF fx
<1>4. SetUpLeft("SwitchOff2") = {"clipped", "relative"}
  BY <1>1, <1>2, <1>3 DEF SetUpLeft, Through, fx
<1>5. Draws(fx) = {"size", "place"} /\ Restores(fx) = {"size", "place"} /\ Clears(fx) = {}
  BY <1>2 DEF Draws, Restores, Clears
<1>6. RunLeft("SwitchOff2") = {"clipped", "relative", "size", "place"}
  BY <1>1, <1>4, <1>5 DEF RunLeft, Through, fx
<1>7. PutLeft("SwitchOff2") = {"clipped", "relative"}
  BY <1>4, <1>5, <1>6 DEF PutLeft, fx
<1>8. EndLeft("SwitchOff2") \subseteq {}
  BY <1>1, <1>7 DEF EndLeft, Through, fx
<1>9. "SwitchOff2" \notin Sp!FirstStages
  BY DEF Sp!FirstStages
<1> QED BY <1>3, <1>8, <1>9, Zenon DEF Cleans, fx

LEMMA DropOutCleans == Cleans("DropOut")
<1> DEFINE fx == Sp!Effect("DropOut")
<1>1. /\ MadeBy(fx.before) = {"relative"} /\ UndoneBy(fx.before) = {}
      /\ MadeBy(fx.after) = {} /\ UndoneBy(fx.after) = {}
      /\ MadeBy(fx.finish) = {} /\ UndoneBy(fx.finish) = {"opacity", "relative", "place"}
      /\ MadeBy(fx.create) = {} /\ UndoneBy(fx.create) = {}
  BY DropOutIs, ListsDo, Zenon
<1>2. fx.core = {"move", "opacity"} /\ fx.restore = FALSE /\ fx.to = 0
  BY DropOutIs, Zenon
<1>3. IdleLeft("DropOut") = {} /\ NextIdle("DropOut") = {}
  <2>1. NextIdle("DropOut") = {}
    BY DropOutIs, Zenon DEF NextIdle
  <2> QED BY <2>1 DEF IdleLeft
<1> HIDE DEF fx
<1>4. SetUpLeft("DropOut") = {"relative"}
  BY <1>1, <1>2, <1>3 DEF SetUpLeft, Through, fx
<1>5. Draws(fx) = {"opacity", "place"} /\ Restores(fx) = {} /\ Clears(fx) = {}
  BY <1>2 DEF Draws, Restores, Clears
<1>6. RunLeft("DropOut") = {"opacity", "relative", "place"}
  BY <1>1, <1>4, <1>5 DEF RunLeft, Through, fx
<1>7. PutLeft("DropOut") = {"opacity", "relative", "place"}
  BY <1>4, <1>5, <1>6 DEF PutLeft, fx
<1>8. EndLeft("DropOut") \subseteq {}
  BY <1>1, <1>7 DEF EndLeft, Through, fx
<1>9. Through({}, fx.create) \subseteq {}
  BY <1>1 DEF Through
<1> QED BY <1>3, <1>8, <1>9, Zenon DEF Cleans, fx

LEMMA ShakeCleans == Cleans("Shake")
<1> DEFINE fx == Sp!Effect("Shake")
<1>1. /\ MadeBy(fx.before) = {} /\ UndoneBy(fx.before) = {}
      /\ MadeBy(fx.after) = {} /\ UndoneBy(fx.after) = {}
      /\ MadeBy(fx.finish) = {} /\ UndoneBy(fx.finish) = {}
      /\ MadeBy(fx.create) = {} /\ UndoneBy(fx.create) = {}
  BY ShakeIs, ListsDo, Zenon
<1>2. fx.core = {"move"} /\ fx.restore = FALSE /\ fx.to = 2
  BY ShakeIs, Zenon
<1>3. IdleLeft("Shake") = {} /\ NextIdle("Shake") = {"relative", "place"}
  <2>1. NextIdle("Shake") = IdleLeft("Shake2")
    BY ShakeIs DEF NextIdle
  <2> QED BY <2>1 DEF IdleLeft
<1> HIDE DEF fx
<1>4. SetUpLeft("Shake") = {"relative"}
  BY <1>1, <1>2, <1>3 DEF SetUpLeft, Through, fx
<1>5. Draws(fx) = {"place"} /\ Restores(fx) = {} /\ Clears(fx) = {}
  BY <1>2 DEF Draws, Restores, Clears
<1>6. RunLeft("Shake") = {"relative", "place"}
  BY <1>1, <1>4, <1>5 DEF RunLeft, Through, fx
<1>7. PutLeft("Shake") = {"relative", "place"}
  BY <1>4, <1>5, <1>6 DEF PutLeft, fx
<1>8. EndLeft("Shake") \subseteq {"relative", "place"}
  BY <1>1, <1>7 DEF EndLeft, Through, fx
<1>9. Through({}, fx.create) \subseteq {}
  BY <1>1 DEF Through
<1> QED BY <1>3, <1>8, <1>9, Zenon DEF Cleans, fx

LEMMA Shake2Cleans == Cleans("Shake2")
<1> DEFINE fx == Sp!Effect("Shake2")
<1>1. /\ MadeBy(fx.before) = {} /\ UndoneBy(fx.before) = {}
      /\ MadeBy(fx.after) = {} /\ UndoneBy(fx.after) = {}
      /\ MadeBy(fx.finish) = {} /\ UndoneBy(fx.finish) = {}
      /\ MadeBy(fx.create) = {} /\ UndoneBy(fx.create) = {}
  BY Shake2Is, ListsDo, Zenon
<1>2. fx.core = {"move"} /\ fx.restore = FALSE /\ fx.to = 2
  BY Shake2Is, Zenon
<1>3. IdleLeft("Shake2") = {"relative", "place"} /\ NextIdle("Shake2") = {"relative", "place"}
  <2>1. NextIdle("Shake2") = IdleLeft("Shake3")
    BY Shake2Is DEF NextIdle
  <2> QED BY <2>1 DEF IdleLeft
<1> HIDE DEF fx
<1>4. SetUpLeft("Shake2") = {"relative", "place"}
  BY <1>1, <1>2, <1>3 DEF SetUpLeft, Through, fx
<1>5. Draws(fx) = {"place"} /\ Restores(fx) = {} /\ Clears(fx) = {}
  BY <1>2 DEF Draws, Restores, Clears
<1>6. RunLeft("Shake2") = {"relative", "place"}
  BY <1>1, <1>4, <1>5 DEF RunLeft, Through, fx
<1>7. PutLeft("Shake2") = {"relative", "place"}
  BY <1>4, <1>5, <1>6 DEF PutLeft, fx
<1>8. EndLeft("Shake2") \subseteq {"relative", "place"}
  BY <1>1, <1>7 DEF EndLeft, Through, fx
<1>9. "Shake2" \notin Sp!FirstStages
  BY DEF Sp!FirstStages
<1> QED BY <1>3, <1>8, <1>9, Zenon DEF Cleans, fx

LEMMA Shake3Cleans == Cleans("Shake3")
<1> DEFINE fx == Sp!Effect("Shake3")
<1>1. /\ MadeBy(fx.before) = {} /\ UndoneBy(fx.before) = {}
      /\ MadeBy(fx.after) = {} /\ UndoneBy(fx.after) = {}
      /\ MadeBy(fx.finish) = {} /\ UndoneBy(fx.finish) = {"relative", "place"}
      /\ MadeBy(fx.create) = {} /\ UndoneBy(fx.create) = {}
  BY Shake3Is, ListsDo, Zenon
<1>2. fx.core = {"move"} /\ fx.restore = FALSE /\ fx.to = 2
  BY Shake3Is, Zenon
<1>3. IdleLeft("Shake3") = {"relative", "place"} /\ NextIdle("Shake3") = {}
  <2>1. NextIdle("Shake3") = {}
    BY Shake3Is, Zenon DEF NextIdle
  <2> QED BY <2>1 DEF IdleLeft
<1> HIDE DEF fx
<1>4. SetUpLeft("Shake3") = {"relative", "place"}
  BY <1>1, <1>2, <1>3 DEF SetUpLeft, Through, fx
<1>5. Draws(fx) = {"place"} /\ Restores(fx) = {} /\ Clears(fx) = {}
  BY <1>2 DEF Draws, Restores, Clears
<1>6. RunLeft("Shake3") = {"relative", "place"}
  BY <1>1, <1>4, <1>5 DEF RunLeft, Through, fx
<1>7. PutLeft("Shake3") = {"relative", "place"}
  BY <1>4, <1>5, <1>6 DEF PutLeft, fx
<1>8. EndLeft("Shake3") \subseteq {}
  BY <1>1, <1>7 DEF EndLeft, Through, fx
<1>9. "Shake3" \notin Sp!FirstStages
  BY DEF Sp!FirstStages
<1> QED BY <1>3, <1>8, <1>9, Zenon DEF Cleans, fx

LEMMA SlideDownCleans == Cleans("SlideDown")
<1> DEFINE fx == Sp!Effect("SlideDown")
<1>1. /\ MadeBy(fx.before) = {} /\ UndoneBy(fx.before) = {}
      /\ MadeBy(fx.after) = {"clipped", "relative", "inner", "size"} /\ UndoneBy(fx.after) = {}
      /\ MadeBy(fx.finish) = {} /\ UndoneBy(fx.finish) = {"clipped", "relative", "inner"}
      /\ MadeBy(fx.create) = {} /\ UndoneBy(fx.create) = {}
  BY SlideDownIs, ListsDo, Zenon
<1>2. fx.core = {"scale"} /\ fx.restore = TRUE /\ fx.to = 2
  BY SlideDownIs, Zenon
<1>3. IdleLeft("SlideDown") = {} /\ NextIdle("SlideDown") = {}
  <2>1. NextIdle("SlideDown") = {}
    BY SlideDownIs, Zenon DEF NextIdle
  <2> QED BY <2>1 DEF IdleLeft
<1> HIDE DEF fx
<1>4. SetUpLeft("SlideDown") = {}
  BY <1>1, <1>2, <1>3 DEF SetUpLeft, Through, fx
<1>5. Draws(fx) = {"size"} /\ Restores(fx) = {"size", "place"} /\ Clears(fx) = {}
  BY <1>2 DEF Draws, Restores, Clears
<1>6. RunLeft("SlideDown") = {"clipped", "relative", "inner", "size"}
  BY <1>1, <1>4, <1>5 DEF RunLeft, Through, fx
<1>7. PutLeft("SlideDown") = {"clipped", "relative", "inner"}
  BY <1>4, <1>5, <1>6 DEF PutLeft, fx
<1>8. EndLeft("SlideDown") \subseteq {}
  BY <1>1, <1>7 DEF EndLeft, Through, fx
<1>9. Through({}, fx.create) \subseteq {}
  BY <1>1 DEF Through
<1> QED BY <1>3, <1>8, <1>9, Zenon DEF Cleans, fx

LEMMA SlideUpCleans == Cleans("SlideUp")
<1> DEFINE fx == Sp!Effect("SlideUp")
<1>1. /\ MadeBy(fx.before) = {} /\ UndoneBy(fx.before) = {}
      /\ MadeBy(fx.after) = {"clipped", "relative", "inner"} /\ UndoneBy(fx.after) = {}
      /\ MadeBy(fx.finish) = {} /\ UndoneBy(fx.finish) = {"clipped", "relative", "inner"}
      /\ MadeBy(fx.create) = {} /\ UndoneBy(fx.create) = {}
  BY SlideUpIs, ListsDo, Zenon
<1>2. fx.core = {"scale"} /\ fx.restore = TRUE /\ fx.to = 2
  BY SlideUpIs, Zenon
<1>3. IdleLeft("SlideUp") = {} /\ NextIdle("SlideUp") = {}
  <2>1. NextIdle("SlideUp") = {}
    BY SlideUpIs, Zenon DEF NextIdle
  <2> QED BY <2>1 DEF IdleLeft
<1> HIDE DEF fx
<1>4. SetUpLeft("SlideUp") = {}
  BY <1>1, <1>2, <1>3 DEF SetUpLeft, Through, fx
<1>5. Draws(fx) = {"size"} /\ Restores(fx) = {"size", "place"} /\ Clears(fx) = {}
  BY <1>2 DEF Draws, Restores, Clears
<1>6. RunLeft("SlideUp") = {"clipped", "relative", "inner", "size"}
  BY <1>1, <1>4, <1>5 DEF RunLeft, Through, fx
<1>7. PutLeft("SlideUp") = {"clipped", "relative", "inner"}
  BY <1>4, <1>5, <1>6 DEF PutLeft, fx
<1>8. EndLeft("SlideUp") \subseteq {}
  BY <1>1, <1>7 DEF EndLeft, Through, fx
<1>9. Through({}, fx.create) \subseteq {}
  BY <1>1 DEF Through
<1> QED BY <1>3, <1>8, <1>9, Zenon DEF Cleans, fx

LEMMA SquishCleans == Cleans("Squish")
<1> DEFINE fx == Sp!Effect("Squish")
<1>1. /\ MadeBy(fx.before) = {"clipped"} /\ UndoneBy(fx.before) = {}
      /\ MadeBy(fx.after) = {} /\ UndoneBy(fx.after) = {}
      /\ MadeBy(fx.finish) = {} /\ UndoneBy(fx.finish) = {"clipped"}
      /\ MadeBy(fx.create) = {} /\ UndoneBy(fx.create) = {}
  BY SquishIs, ListsDo, Zenon
<1>2. fx.core = {"scale"} /\ fx.restore = TRUE /\ fx.to = 2
  BY SquishIs, Zenon
<1>3. IdleLeft("Squish") = {} /\ NextIdle("Squish") = {}
  <2>1. NextIdle("Squish") = {}
    BY SquishIs, Zenon DEF NextIdle
  <2> QED BY <2>1 DEF IdleLeft
<1> HIDE DEF fx
<1>4. SetUpLeft("Squish") = {"clipped"}
  BY <1>1, <1>2, <1>3 DEF SetUpLeft, Through, fx
<1>5. Draws(fx) = {"size"} /\ Restores(fx) = {"size", "place"} /\ Clears(fx) = {}
  BY <1>2 DEF Draws, Restores, Clears
<1>6. RunLeft("Squish") = {"clipped", "size"}
  BY <1>1, <1>4, <1>5 DEF RunLeft, Through, fx
<1>7. PutLeft("Squish") = {"clipped"}
  BY <1>4, <1>5, <1>6 DEF PutLeft, fx
<1>8. EndLeft("Squish") \subseteq {}
  BY <1>1, <1>7 DEF EndLeft, Through, fx
<1>9. Through({}, fx.create) \subseteq {}
  BY <1>1 DEF Through
<1> QED BY <1>3, <1>8, <1>9, Zenon DEF Cleans, fx

LEMMA GrowCleans == Cleans("Grow")
<1> DEFINE fx == Sp!Effect("Grow")
<1>1. /\ MadeBy(fx.before) = {"clipped", "relative"} /\ UndoneBy(fx.before) = {}
      /\ MadeBy(fx.after) = {} /\ UndoneBy(fx.after) = {}
      /\ MadeBy(fx.finish) = {} /\ UndoneBy(fx.finish) = {}
      /\ MadeBy(fx.create) = {} /\ UndoneBy(fx.create) = {}
  BY GrowIs, ListsDo, Zenon
<1>2. fx.core = {"move"} /\ fx.restore = FALSE /\ fx.to = 2
  BY GrowIs, Zenon
<1>3. IdleLeft("Grow") = {} /\ NextIdle("Grow") = {"clipped", "relative", "place"}
  <2>1. NextIdle("Grow") = IdleLeft("Grow2")
    BY GrowIs DEF NextIdle
  <2> QED BY <2>1 DEF IdleLeft
<1> HIDE DEF fx
<1>4. SetUpLeft("Grow") = {"clipped", "relative"}
  BY <1>1, <1>2, <1>3 DEF SetUpLeft, Through, fx
<1>5. Draws(fx) = {"place"} /\ Restores(fx) = {} /\ Clears(fx) = {}
  BY <1>2 DEF Draws, Restores, Clears
<1>6. RunLeft("Grow") = {"clipped", "relative", "place"}
  BY <1>1, <1>4, <1>5 DEF RunLeft, Through, fx
<1>7. PutLeft("Grow") = {"clipped", "relative", "place"}
  BY <1>4, <1>5, <1>6 DEF PutLeft, fx
<1>8. EndLeft("Grow") \subseteq {"clipped", "relative", "place"}
  BY <1>1, <1>7 DEF EndLeft, Through, fx
<1>9. Through({}, fx.create) \subseteq {}
  BY <1>1 DEF Through
<1> QED BY <1>3, <1>8, <1>9, Zenon DEF Cleans, fx

LEMMA Grow2Cleans == Cleans("Grow2")
<1> DEFINE fx == Sp!Effect("Grow2")
<1>1. /\ MadeBy(fx.before) = {"size"} /\ UndoneBy(fx.before) = {}
      /\ MadeBy(fx.after) = {} /\ UndoneBy(fx.after) = {}
      /\ MadeBy(fx.finish) = {} /\ UndoneBy(fx.finish) = {"opacity", "clipped", "relative", "size", "place"}
      /\ MadeBy(fx.create) = {} /\ UndoneBy(fx.create) = {}
  BY Grow2Is, ListsDo, Zenon
<1>2. fx.core = {"opacity", "move", "scale"} /\ fx.restore = TRUE /\ fx.to = 2
  BY Grow2Is, Zenon
<1>3. IdleLeft("Grow2") = {"clipped", "relative", "place"} /\ NextIdle("Grow2") = {}
  <2>1. NextIdle("Grow2") = {}
    BY Grow2Is, Zenon DEF NextIdle
  <2> QED BY <2>1 DEF IdleLeft
<1> HIDE DEF fx
<1>4. SetUpLeft("Grow2") = {"clipped", "relative", "size", "place"}
  BY <1>1, <1>2, <1>3 DEF SetUpLeft, Through, fx
<1>5. Draws(fx) = {"opacity", "size", "place"} /\ Restores(fx) = {"size", "place"} /\ Clears(fx) = {"opacity"}
  BY <1>2 DEF Draws, Restores, Clears
<1>6. RunLeft("Grow2") = {"opacity", "clipped", "relative", "size", "place"}
  BY <1>1, <1>4, <1>5 DEF RunLeft, Through, fx
<1>7. PutLeft("Grow2") = {"clipped", "relative", "size", "place"}
  BY <1>4, <1>5, <1>6 DEF PutLeft, fx
<1>8. EndLeft("Grow2") \subseteq {}
  BY <1>1, <1>7 DEF EndLeft, Through, fx
<1>9. "Grow2" \notin Sp!FirstStages
  BY DEF Sp!FirstStages
<1> QED BY <1>3, <1>8, <1>9, Zenon DEF Cleans, fx

LEMMA ShrinkCleans == Cleans("Shrink")
<1> DEFINE fx == Sp!Effect("Shrink")
<1>1. /\ MadeBy(fx.before) = {} /\ UndoneBy(fx.before) = {}
      /\ MadeBy(fx.after) = {} /\ UndoneBy(fx.after) = {}
      /\ MadeBy(fx.finish) = {} /\ UndoneBy(fx.finish) = {"opacity", "clipped", "relative", "size", "place"}
      /\ MadeBy(fx.create) = {"clipped", "relative"} /\ UndoneBy(fx.create) = {}
  BY ShrinkIs, ListsDo, Zenon
<1>2. fx.core = {"opacity", "scale", "move"} /\ fx.restore = TRUE /\ fx.to = 0
  BY ShrinkIs, Zenon
<1>3. IdleLeft("Shrink") = {"clipped", "relative"} /\ NextIdle("Shrink") = {}
  <2>1. NextIdle("Shrink") = {}
    BY ShrinkIs, Zenon DEF NextIdle
  <2> QED BY <2>1 DEF IdleLeft
<1> HIDE DEF fx
<1>4. SetUpLeft("Shrink") = {"clipped", "relative"}
  BY <1>1, <1>2, <1>3 DEF SetUpLeft, Through, fx
<1>5. Draws(fx) = {"opacity", "size", "place"} /\ Restores(fx) = {"size", "place"} /\ Clears(fx) = {}
  BY <1>2 DEF Draws, Restores, Clears
<1>6. RunLeft("Shrink") = {"opacity", "clipped", "relative", "size", "place"}
  BY <1>1, <1>4, <1>5 DEF RunLeft, Through, fx
<1>7. PutLeft("Shrink") = {"opacity", "clipped", "relative"}
  BY <1>4, <1>5, <1>6 DEF PutLeft, fx
<1>8. EndLeft("Shrink") \subseteq {}
  BY <1>1, <1>7 DEF EndLeft, Through, fx
<1>9. Through({}, fx.create) \subseteq {"clipped", "relative"}
  BY <1>1 DEF Through
<1> QED BY <1>3, <1>8, <1>9, Zenon DEF Cleans, fx

LEMMA PulsateCleans == Cleans("Pulsate")
<1> DEFINE fx == Sp!Effect("Pulsate")
<1>1. /\ MadeBy(fx.before) = {} /\ UndoneBy(fx.before) = {}
      /\ MadeBy(fx.after) = {} /\ UndoneBy(fx.after) = {}
      /\ MadeBy(fx.finish) = {} /\ UndoneBy(fx.finish) = {"opacity"}
      /\ MadeBy(fx.create) = {} /\ UndoneBy(fx.create) = {}
  BY PulsateIs, ListsDo, Zenon
<1>2. fx.core = {"opacity"} /\ fx.restore = FALSE /\ fx.to = 2
  BY PulsateIs, Zenon
<1>3. IdleLeft("Pulsate") = {} /\ NextIdle("Pulsate") = {}
  <2>1. NextIdle("Pulsate") = {}
    BY PulsateIs, Zenon DEF NextIdle
  <2> QED BY <2>1 DEF IdleLeft
<1> HIDE DEF fx
<1>4. SetUpLeft("Pulsate") = {}
  BY <1>1, <1>2, <1>3 DEF SetUpLeft, Through, fx
<1>5. Draws(fx) = {"opacity"} /\ Restores(fx) = {} /\ Clears(fx) = {"opacity"}
  BY <1>2 DEF Draws, Restores, Clears
<1>6. RunLeft("Pulsate") = {"opacity"}
  BY <1>1, <1>4, <1>5 DEF RunLeft, Through, fx
<1>7. PutLeft("Pulsate") = {}
  BY <1>4, <1>5, <1>6 DEF PutLeft, fx
<1>8. EndLeft("Pulsate") \subseteq {}
  BY <1>1, <1>7 DEF EndLeft, Through, fx
<1>9. Through({}, fx.create) \subseteq {}
  BY <1>1 DEF Through
<1> QED BY <1>3, <1>8, <1>9, Zenon DEF Cleans, fx

LEMMA FoldCleans == Cleans("Fold")
<1> DEFINE fx == Sp!Effect("Fold")
<1>1. /\ MadeBy(fx.before) = {} /\ UndoneBy(fx.before) = {}
      /\ MadeBy(fx.after) = {} /\ UndoneBy(fx.after) = {}
      /\ MadeBy(fx.finish) = {} /\ UndoneBy(fx.finish) = {}
      /\ MadeBy(fx.create) = {"clipped"} /\ UndoneBy(fx.create) = {}
  BY FoldIs, ListsDo, Zenon
<1>2. fx.core = {"scale"} /\ fx.restore = FALSE /\ fx.to = 2
  BY FoldIs, Zenon
<1>3. IdleLeft("Fold") = {"clipped"} /\ NextIdle("Fold") = {"clipped", "size"}
  <2>1. NextIdle("Fold") = IdleLeft("Fold2")
    BY FoldIs DEF NextIdle
  <2> QED BY <2>1 DEF IdleLeft
<1> HIDE DEF fx
<1>4. SetUpLeft("Fold") = {"clipped"}
  BY <1>1, <1>2, <1>3 DEF SetUpLeft, Through, fx
<1>5. Draws(fx) = {"size"} /\ Restores(fx) = {} /\ Clears(fx) = {}
  BY <1>2 DEF Draws, Restores, Clears
<1>6. RunLeft("Fold") = {"clipped", "size"}
  BY <1>1, <1>4, <1>5 DEF RunLeft, Through, fx
<1>7. PutLeft("Fold") = {"clipped", "size"}
  BY <1>4, <1>5, <1>6 DEF PutLeft, fx
<1>8. EndLeft("Fold") \subseteq {"clipped", "size"}
  BY <1>1, <1>7 DEF EndLeft, Through, fx
<1>9. Through({}, fx.create) \subseteq {"clipped"}
  BY <1>1 DEF Through
<1> QED BY <1>3, <1>8, <1>9, Zenon DEF Cleans, fx

LEMMA Fold2Cleans == Cleans("Fold2")
<1> DEFINE fx == Sp!Effect("Fold2")
<1>1. /\ MadeBy(fx.before) = {} /\ UndoneBy(fx.before) = {}
      /\ MadeBy(fx.after) = {} /\ UndoneBy(fx.after) = {}
      /\ MadeBy(fx.finish) = {} /\ UndoneBy(fx.finish) = {"clipped", "size", "place"}
      /\ MadeBy(fx.create) = {} /\ UndoneBy(fx.create) = {}
  BY Fold2Is, ListsDo, Zenon
<1>2. fx.core = {"scale"} /\ fx.restore = FALSE /\ fx.to = 2
  BY Fold2Is, Zenon
<1>3. IdleLeft("Fold2") = {"clipped", "size"} /\ NextIdle("Fold2") = {}
  <2>1. NextIdle("Fold2") = {}
    BY Fold2Is, Zenon DEF NextIdle
  <2> QED BY <2>1 DEF IdleLeft
<1> HIDE DEF fx
<1>4. SetUpLeft("Fold2") = {"clipped", "size"}
  BY <1>1, <1>2, <1>3 DEF SetUpLeft, Through, fx
<1>5. Draws(fx) = {"size"} /\ Restores(fx) = {} /\ Clears(fx) = {}
  BY <1>2 DEF Draws, Restores, Clears
<1>6. RunLeft("Fold2") = {"clipped", "size"}
  BY <1>1, <1>4, <1>5 DEF RunLeft, Through, fx
<1>7. PutLeft("Fold2") = {"clipped", "size"}
  BY <1>4, <1>5, <1>6 DEF PutLeft, fx
<1>8. EndLeft("Fold2") \subseteq {}
  BY <1>1, <1>7 DEF EndLeft, Through, fx
<1>9. "Fold2" \notin Sp!FirstStages
  BY DEF Sp!FirstStages
<1> QED BY <1>3, <1>8, <1>9, Zenon DEF Cleans, fx

LEMMA HighlightCleans == Cleans("Highlight")
<1> DEFINE fx == Sp!Effect("Highlight")
<1>1. /\ MadeBy(fx.before) = {} /\ UndoneBy(fx.before) = {}
      /\ MadeBy(fx.after) = {} /\ UndoneBy(fx.after) = {}
      /\ MadeBy(fx.finish) = {} /\ UndoneBy(fx.finish) = {}
      /\ MadeBy(fx.create) = {} /\ UndoneBy(fx.create) = {}
  BY HighlightIs, ListsDo, Zenon
<1>2. fx.core = {"color"} /\ fx.restore = FALSE /\ fx.to = 2
  BY HighlightIs, Zenon
<1>3. IdleLeft("Highlight") = {} /\ NextIdle("Highlight") = {}
  <2>1. NextIdle("Highlight") = {}
    BY HighlightIs, Zenon DEF NextIdle
  <2> QED BY <2>1 DEF IdleLeft
<1> HIDE DEF fx
<1>4. SetUpLeft("Highlight") = {}
  BY <1>1, <1>2, <1>3 DEF SetUpLeft, Through, fx
<1>5. Draws(fx) = {"color"} /\ Restores(fx) = {} /\ Clears(fx) = {"color"}
  BY <1>2 DEF Draws, Restores, Clears
<1>6. RunLeft("Highlight") = {"color"}
  BY <1>1, <1>4, <1>5 DEF RunLeft, Through, fx
<1>7. PutLeft("Highlight") = {}
  BY <1>4, <1>5, <1>6 DEF PutLeft, fx
<1>8. EndLeft("Highlight") \subseteq {}
  BY <1>1, <1>7 DEF EndLeft, Through, fx
<1>9. Through({}, fx.create) \subseteq {}
  BY <1>1 DEF Through
<1> QED BY <1>3, <1>8, <1>9, Zenon DEF Cleans, fx

\* All of them.
LEMMA KindsClean == \A k \in Sp!Kinds : Cleans(k)
BY FadeCleans, AppearCleans, PuffCleans, BlindUpCleans, BlindDownCleans, SwitchOffCleans,
   SwitchOff2Cleans, DropOutCleans, ShakeCleans, Shake2Cleans, Shake3Cleans, SlideDownCleans,
   SlideUpCleans, SquishCleans, GrowCleans, Grow2Cleans, ShrinkCleans, PulsateCleans, FoldCleans,
   Fold2Cleans, HighlightCleans, Zenon DEF Sp!Kinds, Sp!FirstStages, Sp!LaterStages

\* The element, as the one effect that is pending has left it.
LeftAs(e, s) ==
  \E b \in BOOLEAN :
    /\ e.old = Sp!Bare(b)
    /\ e.state = "idle" => Left(s, IdleLeft(e.kind))
    /\ e.state = "running" => Left(s, RunLeft(e.kind)) /\ Left(e.orig, SetUpLeft(e.kind))

\* An effect that is set up, drawn and finished leaves no more than it may.
LEMMA RenderedLeaves ==
  ASSUME NEW e \in Queued, NEW s \in Styles, LeftAs(e, s), NEW atEnd
  PROVE  LET r == Sp!Rendered(e, s, atEnd)
         IN  /\ LeftAs(r.effect, r.style)
             /\ atEnd => Left(Sp!Finished(r.effect, r.style), NextIdle(e.kind))
<1> DEFINE k == e.kind
           fx == Sp!Effect(k)
           before == IF e.state = "idle" THEN Sp!Calls(s, fx.before, e.old) ELSE s
           setup == IF e.state = "idle" /\ "move" \in fx.core THEN Sp!MakePositioned(before) ELSE before
           after == IF e.state = "idle" THEN Sp!Calls(setup, fx.after, e.old) ELSE setup
           orig == IF e.state = "idle" THEN setup ELSE e.orig
           d == Sp!Drawn(after, fx, e.from, atEnd)
           x == [e EXCEPT !.state = "running", !.orig = orig]
           r == Sp!Rendered(e, s, atEnd)
<1>1. /\ e \in Effects /\ k \in Sp!Kinds /\ e.state \in {"idle", "running"} /\ e.from \in 0..2
  BY DEF Queued, Effects
<1>2. /\ fx.before \in Seq(CallNames) /\ fx.after \in Seq(CallNames) /\ fx.finish \in Seq(CallNames)
      /\ fx.to \in 0..2
  BY <1>1, KindTypesAre DEF KindTypes
<1>3. r.effect = x /\ r.style = d
  <2>1. [e EXCEPT !.state = "running", !.orig = IF e.state = "idle" THEN setup ELSE @] = x
    BY <1>1 DEF Effects
  <2>2. r = [effect |-> x, style |-> d]
    BY <2>1, Zenon DEF Sp!Rendered
  <2> HIDE DEF x, d, r
  <2> QED BY <2>2
<1>4. x.state = "running" /\ x.kind = k /\ x.old = e.old /\ x.orig = orig
  <2> HIDE DEF orig
  <2> QED BY <1>1 DEF Effects
<1>5. PICK b \in BOOLEAN :
        /\ e.old = Sp!Bare(b)
        /\ e.state = "idle" => Left(s, IdleLeft(k))
        /\ e.state = "running" => Left(s, RunLeft(k)) /\ Left(e.orig, SetUpLeft(k))
  BY DEF LeftAs
<1>6. Cleans(k)
  BY <1>1, KindsClean
<1> DEFINE A == IF e.state = "idle" THEN Through(SetUpLeft(k), fx.after) ELSE RunLeft(k)
<1>7. Left(after, A) /\ Left(orig, SetUpLeft(k))
  <2>1. CASE e.state = "idle"
    <3>1. Left(Sp!Calls(s, fx.before, Sp!Bare(b)), Through(IdleLeft(k), fx.before))
      BY <1>2, <1>5, <2>1, CallsThrough
    <3>2. before = Sp!Calls(s, fx.before, Sp!Bare(b))
      BY <1>5, <2>1
    <3>3. Left(setup, SetUpLeft(k))
      <4> DEFINE B == Through(IdleLeft(k), fx.before)
      <4>1. Left(before, B)
        BY <3>1, <3>2, Zenon
      <4>2. SetUpLeft(k) = B \cup (IF "move" \in fx.core THEN {"relative"} ELSE {})
        BY DEF SetUpLeft
      <4>3. CASE "move" \in fx.core
        <5>1. setup = Sp!MakePositioned(before)
          BY <2>1, <4>3
        <5>2. B \cup {"relative"} \subseteq SetUpLeft(k)
          BY <4>2, <4>3
        <5> HIDE DEF setup, before, B
        <5> QED BY <4>1, <5>1, <5>2, MakePositionedLeaves
      <4>4. CASE "move" \notin fx.core
        <5>1. setup = before /\ B \subseteq SetUpLeft(k)
          BY <4>2, <4>4
        <5> HIDE DEF setup, before, B
        <5> QED BY <4>1, <5>1, LeftMore
      <4> QED BY <4>3, <4>4
    <3>4. after = Sp!Calls(setup, fx.after, Sp!Bare(b)) /\ orig = setup /\ A = Through(SetUpLeft(k), fx.after)
      BY <1>5, <2>1
    <3> HIDE DEF setup, after, orig, A, fx
    <3>5. Left(Sp!Calls(setup, fx.after, Sp!Bare(b)), Through(SetUpLeft(k), fx.after))
      BY <1>2, <3>3, CallsThrough
    <3> QED BY <3>3, <3>4, <3>5
  <2>2. CASE e.state = "running"
    <3>1. after = s /\ orig = e.orig /\ A = RunLeft(k)
      BY <2>2
    <3> HIDE DEF after, orig, A
    <3> QED BY <1>5, <2>2, <3>1
  <2> QED BY <1>1, <2>1, <2>2
<1>8. A \cup Draws(fx) \subseteq RunLeft(k)
  <2>1. Draws(fx) \subseteq RunLeft(k) /\ Through(SetUpLeft(k), fx.after) \subseteq RunLeft(k)
    BY DEF RunLeft
  <2> QED BY <2>1
<1>9. /\ "opacity" \in fx.core => "opacity" \in RunLeft(k)
      /\ "scale" \in fx.core => "size" \in RunLeft(k)
      /\ fx.core \cap {"move", "center"} # {} => "place" \in RunLeft(k)
      /\ "color" \in fx.core => "color" \in RunLeft(k)
  BY <1>8 DEF Draws
<1> HIDE DEF before, setup, after, orig, A
<1>10. Left(d, RunLeft(k))
  <2> HIDE DEF fx
  <2> QED BY <1>2, <1>7, <1>8, <1>9, DrawnLeaves
<1>11. LeftAs(x, d)
  <2> HIDE DEF x, d
  <2> QED BY <1>4, <1>5, <1>7, <1>10 DEF LeftAs
<1>12. ASSUME atEnd PROVE Left(Sp!Finished(x, d), NextIdle(k))
  <2> DEFINE B == RunLeft(k) \ (IF "opacity" \in fx.core /\ fx.to = 2 THEN {"opacity"} ELSE {})
             p == Put(d, fx, orig)
  <2>1. Left(d, B)
    <3> HIDE DEF fx
    <3>1. CASE "opacity" \in fx.core /\ fx.to = 2
      <4>1. /\ A \subseteq B \cup {"opacity"}
            /\ fx.core \cap {"move", "center"} # {} => "place" \in B
            /\ "scale" \in fx.core => "size" \in B
            /\ "color" \in fx.core => "color" \in B
        BY <1>8, <1>9, <3>1
      <4> HIDE DEF B
      <4> QED BY <1>2, <1>7, <1>12, <3>1, <4>1, DrawnLeaves
    <3>2. CASE ~("opacity" \in fx.core /\ fx.to = 2)
      BY <1>10, <3>2
    <3> QED BY <3>1, <3>2
  <2>2. Left(p, PutLeft(k))
    <3>1. PutLeft(k) = ((RunLeft(k) \ Restores(fx)) \cup (SetUpLeft(k) \cap Restores(fx))) \ Clears(fx)
      BY DEF PutLeft
    <3> HIDE DEF fx, d
    <3>2. /\ B \subseteq PutLeft(k) \cup {"color", "size", "place"}
          /\ "color" \in B => "color" \in fx.core \/ "color" \in PutLeft(k)
          /\ ~fx.restore => ("size" \in B => "size" \in PutLeft(k)) /\ ("place" \in B => "place" \in PutLeft(k))
          /\ fx.restore => /\ "size" \in SetUpLeft(k) => "size" \in PutLeft(k)
                           /\ "place" \in SetUpLeft(k) => "place" \in PutLeft(k)
      BY <3>1 DEF Restores, Clears
    <3> HIDE DEF B
    <3> QED BY <1>7, <2>1, <3>2, PutLeaves
  <2>3. Sp!Finished(x, d) = Sp!Calls(p, fx.finish, Sp!Bare(b))
    <3> HIDE DEF d, x
    <3> QED BY <1>4, <1>5 DEF Sp!Finished, Put
  <2> HIDE DEF p, d, x
  <2>4. Left(Sp!Calls(p, fx.finish, Sp!Bare(b)), EndLeft(k))
    <3>1. EndLeft(k) = Through(PutLeft(k), fx.finish)
      BY DEF EndLeft
    <3> HIDE DEF fx
    <3> QED BY <1>2, <2>2, <3>1, CallsThrough
  <2>5. EndLeft(k) \subseteq NextIdle(k)
    BY <1>6 DEF Cleans
  <2> HIDE DEF fx
  <2> QED BY <2>3, <2>4, <2>5, LeftMore
<1> HIDE DEF d, x, r
<1> QED BY <1>3, <1>11, <1>12 DEF r

\* A blind clips the element from its creation to its end.
LEMMA BlindsClip ==
  /\ "clipped" \in IdleLeft("BlindUp") /\ "clipped" \in RunLeft("BlindUp")
  /\ "clipped" \in IdleLeft("BlindDown") /\ "clipped" \in RunLeft("BlindDown")
<1>1. /\ UndoneBy(Sp!Effect("BlindUp").before) = {} /\ UndoneBy(Sp!Effect("BlindUp").after) = {}
      /\ UndoneBy(Sp!Effect("BlindDown").before) = {} /\ UndoneBy(Sp!Effect("BlindDown").after) = {}
  BY BlindUpIs, BlindDownIs, ListsDo, Zenon
<1>2. "clipped" \in IdleLeft("BlindUp") /\ "clipped" \in IdleLeft("BlindDown")
  BY DEF IdleLeft
<1>3. "clipped" \in SetUpLeft("BlindUp") /\ "clipped" \in SetUpLeft("BlindDown")
  BY <1>1, <1>2 DEF SetUpLeft, Through
<1> QED BY <1>1, <1>2, <1>3 DEF RunLeft, Through

\* An effect that is created while its counterpart of toggle() is pending, and
\* then dropped, makes no more than the element was already.
LEMMA CreateAgain ==
  ASSUME NEW k, NEW h, Sp!Related(k, h), NEW s, NEW A, Left(s, A), A \in {IdleLeft(h), RunLeft(h)}, NEW was
  PROVE  Left(Sp!Calls(s, Sp!Effect(k).create, was), A)
<1>1. \/ k \in {"SlideDown", "SlideUp", "BlindDown", "Appear", "Fade"}
      \/ k = "BlindUp" /\ h \in {"BlindUp", "BlindDown"}
  BY DEF Sp!Related, Sp!Pairs
<1>2. CASE k \in {"SlideDown", "SlideUp", "BlindDown", "Appear", "Fade"}
  <2>1. Sp!Effect(k).create = <<>>
    BY <1>2, SlideDownIs, SlideUpIs, BlindDownIs, AppearIs, FadeIs, Zenon
  <2> QED BY <2>1, CallsNone
<1>3. CASE k = "BlindUp" /\ h \in {"BlindUp", "BlindDown"}
  <2>1. Sp!Effect(k).create = <<"makeClipping">>
    BY <1>3, BlindUpIs, Zenon
  <2>2. Sp!Calls(s, <<"makeClipping">>, was) = Sp!Call(s, "makeClipping", was)
    BY CallsOne, Zenon
  <2>3. Sp!Call(s, "makeClipping", was) = [s EXCEPT !.clipped = TRUE]
    BY CallIs, Zenon
  <2>4. "clipped" \in A
    BY <1>3, BlindsClip
  <2>5. Left([s EXCEPT !.clipped = TRUE], A)
    BY <2>4 DEF Left, Styles
  <2> QED BY <2>1, <2>2, <2>3, <2>5
<1> QED BY <1>1, <1>2, <1>3

----------------------------------------------------------------------------
(* No effect leaves a trace. *)

\* While no two unrelated effects have been pending, at most one is.
Tidy(es, s) == \/ es = <<>> /\ Left(s, {})
               \/ Len(es) = 1 /\ LeftAs(es[1], s)

TraceInv == QueueTypes /\ (apart => Tidy(effects, style))

\* At the start.
LEMMA TraceInitInv == ASSUME Sp!EffectAssumption, Sp!Init PROVE TraceInv
BY QueueInitTypes, BareLeft DEF TraceInv, Tidy, Sp!Init

\* What add() leaves of an effect that is pending.
LEMMA PostponedSame ==
  ASSUME Sp!EffectAssumption, NEW es \in Seq(Queued), NEW i \in 1..Len(es)
  PROVE  LET x == Sp!Postponed(es)[i]
         IN  x.kind = es[i].kind /\ x.state = es[i].state /\ x.old = es[i].old /\ x.orig = es[i].orig
<1> DEFINE e == es[i]
           t == e.startOn + Duration
           u == e.finishOn + Duration
           x == Sp!Postponed(es)[i]
<1>1. e \in Effects /\ i \in DOMAIN es
  BY DEF Queued
<1>2. x = IF e.state = "idle" THEN [e EXCEPT !.startOn = @ + Duration, !.finishOn = @ + Duration] ELSE e
  BY <1>1 DEF Sp!Postponed
<1>3. [e EXCEPT !.startOn = @ + Duration, !.finishOn = @ + Duration] = [e EXCEPT !.startOn = t, !.finishOn = u]
  <2> HIDE DEF e
  <2> QED BY <1>1 DEF Effects
<1> HIDE DEF e, t, u, x
<1>4. x.kind = e.kind /\ x.state = e.state /\ x.old = e.old /\ x.orig = e.orig
  BY <1>1, <1>2, <1>3 DEF Effects
<1> QED BY <1>4 DEF e, x

\* An effect whose times alone change.
LEMMA SameLeft ==
  ASSUME NEW e, NEW x, NEW s, LeftAs(e, s),
         x.kind = e.kind, x.state = e.state, x.old = e.old, x.orig = e.orig
  PROVE  LeftAs(x, s)
BY DEF LeftAs

\* A script creates an effect.
LEMMA CreatedTidy ==
  ASSUME Sp!EffectAssumption, TraceInv, NEW k \in Sp!FirstStages, NEW position \in Positions,
         NEW limit \in Nat, Sp!Create(k, position, limit), apart'
  PROVE  Tidy(effects', style')
<1> DEFINE create == Sp!Effect(k).create
           x == Sp!Fresh(effectsMade + 1, k, style, style)
           t == Sp!StartOn(effects, position)
           b == IF position = "end" THEN {effects[i].id : i \in DOMAIN effects} ELSE {}
           moved == IF position = "front" THEN Sp!Postponed(effects) ELSE effects
           timed == [x EXCEPT !.startOn = t, !.finishOn = t + Duration, !.behind = b]
<1>1. /\ QueueTypes /\ Tidy(effects, style)
      /\ effects = <<>> \/ (limit = 1 /\ \A i \in DOMAIN effects : Sp!Related(k, effects[i].kind))
  BY DEF TraceInv, Sp!Create
<1>2. style' = Sp!Calls(style, create, style)
  BY DEF Sp!Create
<1>3. effects' = IF limit = 0 \/ Len(effects) < limit THEN Append(moved, timed) ELSE moved
  BY Zenon DEF Sp!Create, Sp!Added
<1>4. /\ k \in Sp!Kinds /\ create \in Seq(CallNames) /\ style \in Styles
      /\ effectsMade + 1 \in Nat /\ effects \in Seq(Queued)
  BY <1>1, PageKinds, KindTypesAre DEF KindTypes, Sp!Kinds, QueueTypes
<1>5. x \in Effects /\ x.kind = k /\ x.state = "idle" /\ x.old = style
  BY <1>4, FreshType DEF Queued
<1>6. moved \in Seq(Queued) /\ Len(moved) = Len(effects)
  BY <1>4, PostponedType
<1>7. CASE effects = <<>>
  <2>1. Left(style, {}) /\ style = Sp!Bare(style.shown) /\ style.shown \in BOOLEAN
    <3>1. Left(style, {})
      BY <1>1, <1>7 DEF Tidy
    <3> QED BY <1>4, <3>1, LeftBare DEF Styles
  <2>2. moved = <<>> /\ effects' = <<timed>>
    <3>1. Len(effects) = 0 /\ (limit = 0 \/ 0 < limit)
      BY <1>7
    <3>2. moved = <<>>
      BY <1>6, <3>1
    <3> HIDE DEF moved, timed
    <3> QED BY <1>3, <3>1, <3>2
  <2>3. timed.kind = k /\ timed.state = "idle" /\ timed.old = style
    <3> HIDE DEF x, t, b
    <3> QED BY <1>5 DEF Effects
  <2>4. Left(Sp!Calls(style, create, Sp!Bare(style.shown)), Through({}, create))
    <3> HIDE DEF create
    <3> QED BY <1>4, <2>1, CallsThrough
  <2>5. Through({}, create) \subseteq IdleLeft(k)
    BY <1>4, KindsClean DEF Cleans
  <2>6. Left(style', IdleLeft(k))
    <3>1. style' = Sp!Calls(style, create, Sp!Bare(style.shown))
      BY <1>2, <2>1, Zenon
    <3> HIDE DEF create
    <3> QED BY <2>4, <2>5, <3>1, LeftMore
  <2> HIDE DEF timed
  <2>7. LeftAs(timed, style')
    BY <2>1, <2>3, <2>6 DEF LeftAs
  <2>8. Len(effects') = 1 /\ effects'[1] = timed
    BY <2>2
  <2> QED BY <2>7, <2>8 DEF Tidy
<1>8. CASE effects # <<>>
  <2>1. /\ limit = 1 /\ Len(effects) = 1 /\ LeftAs(effects[1], style)
        /\ 1 \in DOMAIN effects /\ Sp!Related(k, effects[1].kind)
    BY <1>1, <1>4, <1>8 DEF Tidy
  <2>2. effects' = moved
    BY <1>3, <2>1
  <2> DEFINE e == effects[1]
             y == moved[1]
  <2>3. y.kind = e.kind /\ y.state = e.state /\ y.old = e.old /\ y.orig = e.orig
    <3>1. 1 \in 1..Len(effects)
      BY <2>1
    <3> DEFINE z == Sp!Postponed(effects)[1]
    <3>2. z.kind = e.kind /\ z.state = e.state /\ z.old = e.old /\ z.orig = e.orig
      BY <1>4, <3>1, PostponedSame
    <3>3. y = z \/ y = e
      OBVIOUS
    <3> HIDE DEF y, z, e
    <3> QED BY <3>2, <3>3
  <2>4. ASSUME NEW A \in {IdleLeft(e.kind), RunLeft(e.kind)}, Left(style, A) PROVE Left(style', A)
    <3> HIDE DEF create, e
    <3>1. Sp!Related(k, e.kind)
      BY <2>1 DEF e
    <3> QED BY <1>2, <2>4, <3>1, CreateAgain DEF create
  <2>5. LeftAs(e, style')
    <3>1. LeftAs(e, style)
      BY <2>1
    <3> HIDE DEF e
    <3> QED BY <2>4, <3>1 DEF LeftAs
  <2>6. LeftAs(y, style')
    <3> HIDE DEF e, y
    <3> QED BY <2>3, <2>5, SameLeft
  <2> QED BY <1>6, <2>1, <2>2, <2>6 DEF Tidy
<1> QED BY <1>7, <1>8

\* What the pass of the interval leaves of an effect that is the only one.
LEMMA OnlyLooped ==
  ASSUME Sp!EffectAssumption, NEW a, PassTypes(a), ~a.raised, Len(a.effects) = 1,
         LeftAs(a.effects[1], a.style)
  PROVE  Tidy(Sp!Looped(a, 1).effects, Sp!Looped(a, 1).style)
<1> DEFINE e == a.effects[1]
           fx == Sp!Effect(e.kind)
           z == Sp!Looped(a, 1)
           late == e.finishOn <= 0
           drawn == Sp!Rendered(e, a.style, late)
           rest == Sp!RemoveAt(a.effects, 1)
           next == Sp!Fresh(e.id + Sp!NextStage, fx.then, a.style, e.old)
           run == [a.effects EXCEPT ![1] = drawn.effect]
           fin == Sp!Finished(drawn.effect, drawn.style)
<1> SUFFICES Tidy(z.effects, z.style)
  OBVIOUS
<1>1. 1 \in 1..Len(a.effects) /\ a.effects \in Seq(Queued) /\ a.style \in Styles
  BY DEF PassTypes
<1>2. e \in Queued /\ e \in Effects /\ e.kind \in Sp!Kinds /\ e.id \in Nat
  BY <1>1 DEF Queued, Effects
<1>3. \/ e.kind = "Highlight" /\ e.state = "idle" /\ z.effects = rest /\ z.style = a.style
      \/ /\ late /\ z.effects = IF fx.then = "none" THEN rest ELSE Append(rest, next)
         /\ z.style = fin
      \/ e.finishOn > 0 /\ e.startOn < 0 /\ z.effects = run /\ z.style = drawn.style
      \/ e.finishOn > 0 /\ z.effects = a.effects /\ z.style = a.style
  BY <1>1, LoopedIs
<1>4. rest = <<>>
  <2>1. rest \in Seq(Queued) /\ Len(rest) = 0
    BY <1>1, RemovedIs
  <2> HIDE DEF rest
  <2> QED BY <2>1
<1>5. /\ LeftAs(drawn.effect, drawn.style)
      /\ late => Left(fin, NextIdle(e.kind))
  <2>1. LeftAs(e, a.style)
    OBVIOUS
  <2> HIDE DEF e, late
  <2> QED BY <1>1, <1>2, <2>1, RenderedLeaves
<1>6. CASE e.kind = "Highlight" /\ e.state = "idle" /\ z.effects = rest /\ z.style = a.style
  <2>1. Left(a.style, IdleLeft("Highlight"))
    <3> HIDE DEF e
    <3> QED BY <1>6 DEF LeftAs, e
  <2>2. IdleLeft("Highlight") = {}
    BY DEF IdleLeft
  <2> HIDE DEF z
  <2> QED BY <1>4, <1>6, <2>1, <2>2 DEF Tidy
<1>7. CASE late /\ z.effects = (IF fx.then = "none" THEN rest ELSE Append(rest, next)) /\ z.style = fin
  <2> HIDE DEF fin, next, rest, z, drawn, late
  <2>1. CASE fx.then = "none"
    <3>1. NextIdle(e.kind) = {}
      BY <2>1 DEF NextIdle
    <3> HIDE DEF fx
    <3> QED BY <1>4, <1>5, <1>7, <2>1, <3>1 DEF Tidy
  <2>2. CASE fx.then # "none"
    <3>1. NextIdle(e.kind) = IdleLeft(fx.then)
      BY <2>2 DEF NextIdle
    <3>2. fx.then \in Sp!Kinds
      BY <1>2, <2>2, KindTypesAre DEF KindTypes, Sp!Kinds
    <3>3. e.id + Sp!NextStage \in Nat /\ e.old \in Styles
      BY <1>2 DEF Effects, Sp!NextStage
    <3>4. next.state = "idle" /\ next.kind = fx.then /\ next.old = e.old
      <4> HIDE DEF fx, e
      <4> QED BY <1>1, <3>2, <3>3, FreshType DEF next
    <3>5. Left(fin, IdleLeft(next.kind))
      BY <1>5, <1>7, <3>1, <3>4
    <3>6. \E b \in BOOLEAN : e.old = Sp!Bare(b)
      BY DEF LeftAs
    <3> HIDE DEF fx, e
    <3>7. LeftAs(next, fin)
      BY <3>4, <3>5, <3>6 DEF LeftAs
    <3>8. z.effects = <<next>> /\ z.style = fin
      BY <1>4, <1>7, <2>2
    <3>9. Len(z.effects) = 1 /\ z.effects[1] = next
      BY <3>8
    <3> QED BY <3>7, <3>8, <3>9 DEF Tidy
  <2> QED BY <2>1, <2>2
<1>8. CASE e.finishOn > 0 /\ e.startOn < 0 /\ z.effects = run /\ z.style = drawn.style
  <2>1. Len(run) = 1 /\ run[1] = drawn.effect
    <3> HIDE DEF drawn
    <3> QED BY <1>1
  <2> HIDE DEF z, run, drawn
  <2> QED BY <1>5, <1>8, <2>1 DEF Tidy
<1>9. CASE e.finishOn > 0 /\ z.effects = a.effects /\ z.style = a.style
  <2> HIDE DEF z
  <2> QED BY <1>9 DEF Tidy
<1> HIDE DEF z, e, rest, next, fin, run, drawn, late, fx
<1> QED BY <1>3, <1>6, <1>7, <1>8, <1>9

\* The interval changes the times of an effect alone.
LEMMA AgedSame ==
  ASSUME QueueTypes, NEW lag \in Int, Duration \in Int, NEW i \in 1..Len(effects)
  PROVE  LET x == Aged(lag)[i]
         IN  /\ x.kind = effects[i].kind /\ x.state = effects[i].state
             /\ x.old = effects[i].old /\ x.orig = effects[i].orig
<1> DEFINE e == effects[i]
           t == e.startOn - lag
           u == e.finishOn - lag
           x == Aged(lag)[i]
<1>1. e \in Effects
  BY DEF QueueTypes, Queued
<1>2. x = [e EXCEPT !.startOn = @ - lag, !.finishOn = @ - lag]
  BY BegunTypes
<1> HIDE DEF e, x
<1>3. x = [e EXCEPT !.startOn = t, !.finishOn = u]
  BY <1>1, <1>2 DEF Effects
<1> HIDE DEF t, u
<1>4. x.kind = e.kind /\ x.state = e.state /\ x.old = e.old /\ x.orig = e.orig
  BY <1>1, <1>3 DEF Effects
<1> QED BY <1>4 DEF e, x

\* The interval.
LEMMA LoopTidy ==
  ASSUME Sp!EffectAssumption, TraceInv, NEW lag \in 1..MaxLag, Sp!Loop(lag), apart
  PROVE  Tidy(effects', style')
<1>1. /\ QueueTypes /\ lag \in Int /\ Duration \in Int
      /\ effects \in Seq(Queued) /\ effects # <<>> /\ Len(effects) \in Nat
  <2>1. QueueTypes /\ lag \in Int /\ Duration \in Int
    BY DEF Sp!EffectAssumption, TraceInv
  <2>2. effects \in Seq(Queued) /\ effects # <<>>
    BY <2>1 DEF QueueTypes, Sp!Loop
  <2> QED BY <2>1, <2>2
<1>2. Len(effects) = 1 /\ LeftAs(effects[1], style)
  BY <1>1 DEF TraceInv, Tidy
<1>3. PICK f : /\ f[0] = Begun(lag)
               /\ \A i \in 1..Len(effects) : f[i] = Sp!Looped(f[i - 1], i)
               /\ effects' = f[Len(effects)].effects
               /\ style' = f[Len(effects)].style
  BY <1>1, PassIs
<1>4. effects' = Sp!Looped(Begun(lag), 1).effects /\ style' = Sp!Looped(Begun(lag), 1).style
  <2>1. 1 \in 1..Len(effects) /\ 1 - 1 = 0
    BY <1>2
  <2>2. f[1] = Sp!Looped(Begun(lag), 1)
    BY <1>3, <2>1
  <2> QED BY <1>2, <1>3, <2>2
<1> DEFINE a == Begun(lag)
<1>5. /\ PassTypes(a) /\ Len(Aged(lag)) = 1 /\ a.effects = Aged(lag)
      /\ a.style = style /\ a.raised = FALSE
  <2>1. PassTypes(a) /\ Len(Aged(lag)) = Len(effects)
    BY <1>1, BegunTypes
  <2> QED BY <1>2, <2>1 DEF Begun
<1>6. LeftAs(Aged(lag)[1], style)
  <2> DEFINE x == Aged(lag)[1]
             e == effects[1]
  <2>1. 1 \in 1..Len(effects)
    BY <1>2
  <2>2. x.kind = e.kind /\ x.state = e.state /\ x.old = e.old /\ x.orig = e.orig
    BY <1>1, <2>1, AgedSame
  <2>3. LeftAs(e, style)
    BY <1>2
  <2> HIDE DEF x, e
  <2>4. LeftAs(x, style)
    BY <2>2, <2>3, SameLeft
  <2> QED BY <2>4 DEF x
<1> HIDE DEF a
<1>7. Tidy(Sp!Looped(a, 1).effects, Sp!Looped(a, 1).style)
  BY <1>5, <1>6, OnlyLooped
<1> QED BY <1>4, <1>7 DEF a

\* Every step.
LEMMA TraceStepInv == ASSUME Sp!EffectAssumption, TraceInv, [Sp!Next]_(Sp!vars) PROVE TraceInv'
<1>1. QueueTypes /\ QueueTypes'
  BY QueueStepTypes DEF TraceInv
<1>2. ASSUME apart' PROVE Tidy(effects', style')
  <2>1. CASE UNCHANGED Sp!vars
    BY <1>2, <2>1 DEF Sp!vars, TraceInv
  <2>2. CASE Sp!NewEffect \/ Sp!Toggle
    <3>1. PICK k \in page.kinds, position \in Positions, limit \in Nat : Sp!Create(k, position, limit)
      BY <1>1, <2>2, CreatedAs
    <3>2. k \in Sp!FirstStages
      BY <1>1, PageKinds
    <3> QED BY <1>2, <3>1, <3>2, CreatedTidy
  <2>3. CASE Sp!Reload
    <3>1. PICK b \in BOOLEAN : style' = Sp!Bare(b)
      BY <2>3 DEF Sp!Reload
    <3>2. Left(style', {})
      BY <3>1, BareLeft
    <3> QED BY <2>3, <3>2 DEF Sp!Reload, Tidy
  <2>4. ASSUME NEW lag \in 1..MaxLag, Sp!Loop(lag) PROVE Tidy(effects', style')
    <3>1. apart
      BY <1>2, <2>4 DEF Sp!Loop
    <3> QED BY <2>4, <3>1, LoopTidy
  <2> QED BY <2>1, <2>2, <2>3, <2>4 DEF Sp!Next
<1> QED BY <1>1, <1>2 DEF TraceInv

\* What follows.
LEMMA TraceInvFollows == ASSUME TraceInv PROVE Sp!TypeOK /\ Sp!NoTrace
<1>1. Sp!TypeOK
  BY QueueTypesFollow DEF TraceInv
<1>2. ASSUME apart, effects = <<>> PROVE style = Sp!Bare(style.shown)
  <2>1. Left(style, {})
    BY <1>2 DEF TraceInv, Tidy
  <2> QED BY <2>1, LeftBare
<1> QED BY <1>1, <1>2 DEF Sp!NoTrace

\* effects.js L527-913: as long as no two unrelated effects were pending at
\* once, when the queue is empty the element looks as it did, but for being
\* visible or not; whatever the lag of the interval and the pages' effects.
THEOREM EffectsLeaveNoTrace ==
  ASSUME Sp!EffectAssumption PROVE Sp!Spec => [](Sp!TypeOK /\ Sp!NoTrace)
<1>1. Sp!Init => TraceInv
  BY TraceInitInv
<1>2. TraceInv /\ [Sp!Next]_(Sp!vars) => TraceInv'
  BY TraceStepInv
<1>3. TraceInv => Sp!TypeOK /\ Sp!NoTrace
  BY TraceInvFollows
<1> QED BY <1>1, <1>2, <1>3, PTL DEF Sp!Spec

----------------------------------------------------------------------------
(***************************************************************************)
(* Proofs about Spinner for any number of requests. The argument: the      *)
(* effect queued last is the one that fits the count of requests, the      *)
(* effects are in line, so it is the last one to draw; and the count is    *)
(* that of the requests under way as long as nothing has raised.           *)
(***************************************************************************)

\* What showing, hiding and drawing make of the style.
LEMMA StyleShown ==
  ASSUME NEW s \in Styles, NEW was
  PROVE  /\ Sp!Call(s, "show", was).shown = TRUE /\ Sp!Call(s, "show", was) \in Styles
         /\ Sp!Call(s, "hide", was).shown = FALSE /\ Sp!Call(s, "hide", was) \in Styles
<1>1. /\ [s EXCEPT !.shown = TRUE].shown = TRUE /\ [s EXCEPT !.shown = TRUE] \in Styles
      /\ [s EXCEPT !.shown = FALSE].shown = FALSE /\ [s EXCEPT !.shown = FALSE] \in Styles
  BY DEF Styles
<1>2. Sp!Call(s, "show", was) = [s EXCEPT !.shown = TRUE] /\ Sp!Call(s, "hide", was) = [s EXCEPT !.shown = FALSE]
  BY CallIs, Zenon
<1> QED BY <1>1, <1>2

LEMMA StyleOpaque ==
  ASSUME NEW s \in Styles, NEW o \in 0..2
  PROVE  [s EXCEPT !.opacity = o].shown = s.shown /\ [s EXCEPT !.opacity = o].opacity = o
BY DEF Styles

\* What the two effects of the spinner do.
LEMMA AppearDraws ==
  ASSUME NEW e \in Queued, e.kind = "Appear", NEW s \in Styles, e.state = "idle" \/ s.shown,
         NEW atEnd \in BOOLEAN
  PROVE  LET drawn == Sp!Rendered(e, s, atEnd)
         IN  /\ drawn.style.shown = TRUE /\ drawn.effect.kind = "Appear"
             /\ drawn.effect.state = "running"
             /\ atEnd => /\ Sp!Finished(drawn.effect, drawn.style).shown = TRUE
                         /\ Sp!Finished(drawn.effect, drawn.style).opacity = 2
<1> DEFINE fx == Sp!Effect("Appear")
           before == IF e.state = "idle" THEN Sp!Calls(s, fx.before, e.old) ELSE s
           setup == IF e.state = "idle" /\ "move" \in fx.core THEN Sp!MakePositioned(before) ELSE before
           after == IF e.state = "idle" THEN Sp!Calls(setup, fx.after, e.old) ELSE setup
           drawn == Sp!Rendered(e, s, atEnd)
           done == Sp!Finished(drawn.effect, drawn.style)
<1>1. /\ fx.core = {"opacity"} /\ fx.to = 2 /\ fx.restore = FALSE
      /\ fx.before = <<"show">> /\ fx.after = <<>> /\ fx.finish = <<>>
  BY AppearIs, Zenon
<1>2. before \in Styles /\ before.shown = TRUE
  <2>1. CASE e.state = "idle"
    <3>1. before = Sp!Call(s, "show", e.old)
      BY <1>1, <2>1, CallsOne
    <3>2. Sp!Call(s, "show", e.old) \in Styles /\ Sp!Call(s, "show", e.old).shown = TRUE
      BY StyleShown
    <3> QED BY <3>1, <3>2, Zenon
  <2>2. CASE e.state # "idle"
    BY <2>2 DEF Styles
  <2> QED BY <2>1, <2>2
<1>3. setup = before /\ after = before
  <2>1. "move" \notin fx.core
    BY <1>1
  <2>2. setup = before
    BY <2>1
  <2> HIDE DEF setup, before
  <2> QED BY <1>1, <2>2, CallsNone
<1>4. drawn.style = Sp!Drawn(after, fx, e.from, atEnd)
  <2> HIDE DEF fx
  <2> QED BY DEF Sp!Rendered, fx
<1> DEFINE o == IF atEnd \/ e.from = 2 THEN 2 ELSE 1
<1>5. Sp!Drawn(before, fx, e.from, atEnd) = [before EXCEPT !.opacity = o]
  <2> HIDE DEF before, fx
  <2>1. /\ "opacity" \in fx.core /\ fx.core \cap {"move", "center"} = {}
        /\ "scale" \notin fx.core /\ "color" \notin fx.core
    BY <1>1
  <2> QED BY <1>1, <1>2, <2>1, ZenonT(60) DEF Sp!Drawn, Styles
<1>6. o \in 0..2 /\ (atEnd => o = 2)
  OBVIOUS
<1>7. /\ drawn.effect \in Queued /\ drawn.style \in Styles
      /\ drawn.effect.kind = "Appear" /\ drawn.effect.state = "running"
  BY RenderedType, Zenon
<1> HIDE DEF before, setup, after, o, drawn
<1>8. /\ drawn.style = [before EXCEPT !.opacity = o]
  BY <1>3, <1>4, <1>5
<1>9. drawn.style.shown = TRUE /\ drawn.style.opacity = o
  BY <1>2, <1>6, <1>8, StyleOpaque
<1>10. drawn.effect.kind = "Appear" /\ drawn.effect.state = "running"
  BY <1>7
<1>11. done = drawn.style
  <2> DEFINE d == drawn.style
             put == [d EXCEPT !.color = IF "color" \in fx.core THEN "own" ELSE @,
                              !.size = IF fx.restore THEN drawn.effect.orig.size ELSE @,
                              !.place = IF fx.restore THEN drawn.effect.orig.place ELSE @]
  <2>1. Sp!Finished(drawn.effect, d) = Sp!Calls(put, fx.finish, drawn.effect.old)
    BY <1>10 DEF Sp!Finished
  <2>2. "color" \notin fx.core
    BY <1>1
  <2> HIDE DEF fx
  <2>3. d \in Styles
    BY <1>7
  <2> HIDE DEF d
  <2>4. put = d
    BY <1>1, <2>2, <2>3 DEF Styles
  <2> HIDE DEF put
  <2>5. Sp!Calls(put, <<>>, drawn.effect.old) = put
    BY CallsNone
  <2> QED BY <1>1, <2>1, <2>4, <2>5 DEF d
<1> HIDE DEF done
<1>12. atEnd => done.shown = TRUE /\ done.opacity = 2
  BY <1>6, <1>9, <1>11
<1> QED BY <1>9, <1>10, <1>12 DEF drawn, done

\* Of two calls.
LEMMA CallsTwo ==
  ASSUME NEW s, NEW was, NEW a, NEW b
  PROVE  Sp!Calls(s, <<a, b>>, was) = Sp!Call(Sp!Call(s, a, was), b, was)
<1> DEFINE names == <<a, b>>
<1>1. Len(names) = 2 /\ names[1] = a /\ names[2] = b
  OBVIOUS
<1> HIDE DEF names
<1>2. Len(names) \in Nat
  BY <1>1
<1>3. PICK f : /\ f[0] = s
               /\ \A n \in 1..Len(names) : f[n] = Sp!Call(f[n - 1], names[n], was)
               /\ Sp!Calls(s, names, was) = f[Len(names)]
  BY <1>2, CallsAre
<1>4. f[1] = Sp!Call(f[0], a, was) /\ f[2] = Sp!Call(f[1], b, was)
  BY <1>1, <1>3
<1> QED BY <1>1, <1>3, <1>4 DEF names

LEMMA FadeHides ==
  ASSUME NEW e \in Queued, e.kind = "Fade", NEW s \in Styles, NEW atEnd \in BOOLEAN
  PROVE  LET drawn == Sp!Rendered(e, s, atEnd)
         IN  /\ drawn.effect.kind = "Fade"
             /\ Sp!Finished(drawn.effect, drawn.style).shown = FALSE
<1> DEFINE fx == Sp!Effect("Fade")
           drawn == Sp!Rendered(e, s, atEnd)
           x == drawn.effect
           d == drawn.style
           put == [d EXCEPT !.color = IF "color" \in fx.core THEN "own" ELSE @,
                            !.size = IF fx.restore THEN x.orig.size ELSE @,
                            !.place = IF fx.restore THEN x.orig.place ELSE @]
<1>1. fx.core = {"opacity"} /\ fx.restore = FALSE /\ fx.finish = <<"hide", "old opacity">>
  BY FadeIs, Zenon
<1>2. x \in Queued /\ d \in Styles /\ x.kind = "Fade"
  <2>1. /\ drawn.effect \in Queued /\ drawn.style \in Styles
        /\ drawn.effect.kind = e.kind
    BY RenderedType, Zenon
  <2> QED BY <2>1
<1> HIDE DEF drawn, d, x
<1>3. x.kind = "Fade" /\ x.old \in Styles
  BY <1>2 DEF Queued, Effects
<1>4. Sp!Finished(x, d) = Sp!Calls(put, fx.finish, x.old)
  BY <1>3 DEF Sp!Finished
<1>5. "color" \notin fx.core
  BY <1>1
<1> HIDE DEF fx
<1>6. put = d
  BY <1>1, <1>2, <1>5 DEF Styles
<1> HIDE DEF put
<1>7. Sp!Finished(x, d) = Sp!Call(Sp!Call(d, "hide", x.old), "old opacity", x.old)
  <2>1. Sp!Finished(x, d) = Sp!Calls(d, <<"hide", "old opacity">>, x.old)
    BY <1>1, <1>4, <1>6, Zenon
  <2> QED BY <2>1, CallsTwo, Zenon
<1>8. x.old.opacity \in 0..2
  BY <1>3 DEF Styles
<1>9. Sp!Finished(x, d).shown = FALSE
  <2>1. Sp!Call(d, "hide", x.old) \in Styles /\ Sp!Call(d, "hide", x.old).shown = FALSE
    BY <1>2, StyleShown, Zenon
  <2> DEFINE h == Sp!Call(d, "hide", x.old)
  <2>2. Sp!Call(h, "old opacity", x.old) = [h EXCEPT !.opacity = x.old.opacity]
    BY CallIs, Zenon
  <2> HIDE DEF h
  <2>3. h \in Styles /\ h.shown = FALSE
    BY <2>1 DEF h
  <2>4. [h EXCEPT !.opacity = x.old.opacity].shown = FALSE
    BY <1>8, <2>3 DEF Styles
  <2> QED BY <1>7, <2>2, <2>4 DEF h
<1> QED BY <1>3, <1>9 DEF drawn, x, d

\* The effect that is queued last decides what the spinner comes to rest as.
ComesToRest(es, s, n) ==
  /\ \A i \in 1..Len(es) : es[i].kind \in {"Fade", "Appear"}
  /\ es # <<>> => /\ es[1].kind = "Appear" /\ es[1].state = "running" => s.shown
                  /\ es[Len(es)].kind = IF n > 0 THEN "Appear" ELSE "Fade"
  /\ es = <<>> => (s.shown <=> n > 0) /\ (s.shown => s.opacity = 2)

\* What holds of the page with its requests and its spinner: where the
\* interval is late by no more than an effect lasts, the effects are in line.
SpinnerInv ==
  /\ RequestsInv /\ QueueTypes
  /\ page.kinds = {"Fade", "Appear"} /\ page.positions = {"end"}
  /\ MaxLag <= Duration => Line(effects, effectsMade) /\ ComesToRest(effects, style, count)

\* The spinner appears and fades, each in one stage.
LEMMA SpinnerKinds ==
  /\ "Fade" \in Sp!FirstStages /\ Sp!Effect("Fade").then = "none"
  /\ "Appear" \in Sp!FirstStages /\ Sp!Effect("Appear").then = "none"
<1>1. "Fade" \in Sp!FirstStages /\ "Appear" \in Sp!FirstStages
  BY DEF Sp!FirstStages
<1> QED BY <1>1, FadeIs, AppearIs, Zenon

LEMMA SpinnerInitInv ==
  ASSUME Sp!EffectAssumption, Sp!Ajax!AjaxAssumption, Sp!SpinnerInit PROVE SpinnerInv
<1>1. RequestsInv /\ QueueTypes
  BY RequestsInitInv, QueueInitTypes DEF Sp!SpinnerInit
<1>2. effects = <<>> /\ count = 0 /\ ~style.shown
  BY DEF Sp!SpinnerInit, Sp!Init, Sp!Ajax!Init
<1>3. Line(effects, effectsMade) /\ ComesToRest(effects, style, count)
  BY <1>2 DEF Line, ComesToRest
<1> QED BY <1>1, <1>3 DEF SpinnerInv, Sp!SpinnerInit

\* A responder queues an effect.
LEMMA SpinnerCreates ==
  ASSUME Sp!EffectAssumption, SpinnerInv, RequestsInv', NEW k \in {"Fade", "Appear"},
         Sp!Create(k, "end", 0), k = IF count' > 0 THEN "Appear" ELSE "Fade"
  PROVE  SpinnerInv'
<1> DEFINE x == Sp!Fresh(effectsMade + 1, k, style, style)
<1>1. k \in Sp!FirstStages /\ Sp!Effect(k).then = "none" /\ k \in Sp!Kinds
  BY SpinnerKinds DEF Sp!Kinds
<1>2. QueueTypes' /\ page' = page
  <2>1. "end" \in Positions
    BY DEF Positions
  <2> QED BY <1>1, <2>1, CreateTypes DEF SpinnerInv, Sp!Create
<1>3. ASSUME MaxLag <= Duration
      PROVE  Line(effects', effectsMade') /\ ComesToRest(effects', style', count')
  <2>1. QueueTypes /\ Line(effects, effectsMade) /\ ComesToRest(effects, style, count)
    BY <1>3 DEF SpinnerInv
  <2>2. Line(effects', effectsMade')
    BY <1>1, <2>1, LineCreated
  <2>3. effectsMade \in Nat /\ effectsMade + 1 \in Nat /\ style \in Styles
    BY PageKinds DEF SpinnerInv, QueueTypes
  <2>4. x \in Queued /\ x.id = effectsMade + 1 /\ x.kind = k /\ x.state = "idle"
    BY <1>1, <2>3, FreshType
  <2>5. effects \in Seq(Queued) /\ Len(effects) \in Nat
    BY DEF SpinnerInv, QueueTypes
  <2>6. effects' = Sp!Added(effects, x, "end", 0)
    BY DEF Sp!Create
  <2> HIDE DEF x
  <2>7. /\ Len(effects') = Len(effects) + 1
        /\ \A i \in 1..Len(effects) : effects'[i] = effects[i]
        /\ effects'[Len(effects')].kind = k /\ effects'[Len(effects')].state = "idle"
    BY <1>1, <2>1, <2>3, <2>4, <2>5, <2>6, LineAdded
  <2>8. style' = style
    <3>1. Sp!Effect(k).create = <<>>
      BY FadeIs, AppearIs, Zenon
    <3>2. style' = Sp!Calls(style, Sp!Effect(k).create, style)
      BY DEF Sp!Create
    <3> QED BY <3>1, <3>2, CallsNone
  <2>9. ASSUME NEW i \in 1..Len(effects') PROVE effects'[i].kind \in {"Fade", "Appear"}
    <3>1. CASE i = Len(effects')
      BY <2>7, <3>1
    <3>2. CASE i # Len(effects')
      <4>1. i \in 1..Len(effects)
        BY <2>5, <2>7, <3>2
      <4> QED BY <2>1, <2>7, <4>1 DEF ComesToRest
    <3> QED BY <3>1, <3>2
  <2>10. effects'[1].kind = "Appear" /\ effects'[1].state = "running" => style'.shown
    <3>1. CASE effects = <<>>
      <4>1. Len(effects') = 1
        BY <2>7, <3>1
      <4> QED BY <2>7, <4>1
    <3>2. CASE effects # <<>>
      <4>1. 1 \in 1..Len(effects)
        BY <2>5, <3>2
      <4> QED BY <2>1, <2>7, <2>8, <3>2, <4>1 DEF ComesToRest
    <3> QED BY <3>1, <3>2
  <2>11. effects' # <<>>
    BY <2>5, <2>7
  <2> QED BY <2>2, <2>7, <2>9, <2>10, <2>11 DEF ComesToRest
<1> QED BY <1>2, <1>3 DEF SpinnerInv

\* The interval.
LEMMA SpinnerDrawn ==
  ASSUME Sp!EffectAssumption, SpinnerInv, NEW lag \in 1..MaxLag, Sp!Loop(lag), MaxLag <= Duration
  PROVE  ComesToRest(effects', style', count)
<1> DEFINE d == Aged(lag)
           e == d[1]
           late == e.finishOn <= 0
           drawn == Sp!Rendered(e, style, late)
<1>1. QueueTypes /\ Line(effects, effectsMade) /\ ComesToRest(effects, style, count)
  BY DEF SpinnerInv
<1>2. HeadLooped(lag, effects', style') /\ effects # <<>>
  BY <1>1, LinePass DEF Sp!Loop
<1>3. /\ d \in Seq(Queued) /\ Len(d) = Len(effects) /\ Len(effects) \in Nat \ {0}
      /\ \A i \in 1..Len(effects) :
            d[i] \in Queued /\ d[i].kind = effects[i].kind /\ d[i].state = effects[i].state
  BY <1>1, <1>2, AgedLater
<1>4. /\ 1 \in 1..Len(effects) /\ Len(effects) \in 1..Len(effects)
      /\ \A i \in 2..Len(effects) : i \in 1..Len(effects)
  BY <1>3
<1>5. /\ \A i \in 1..Len(effects) : d[i].kind \in {"Fade", "Appear"}
      /\ e.kind = "Appear" /\ e.state = "running" => style.shown
      /\ d[Len(d)].kind = IF count > 0 THEN "Appear" ELSE "Fade"
      /\ \A i \in 2..Len(effects) : d[i].state = "idle"
  BY <1>1, <1>2, <1>3, <1>4 DEF ComesToRest, Line
<1>6. e \in Queued /\ e.state \in {"idle", "running"} /\ style \in Styles /\ late \in BOOLEAN
  <2>1. e \in Queued /\ style \in Styles
    BY <1>1, <1>3, <1>4 DEF QueueTypes
  <2> HIDE DEF e
  <2> QED BY <2>1 DEF Queued, Effects
<1>7. e.kind = "Appear" =>
         /\ drawn.style.shown = TRUE /\ drawn.effect.kind = "Appear"
         /\ late => /\ Sp!Finished(drawn.effect, drawn.style).shown = TRUE
                    /\ Sp!Finished(drawn.effect, drawn.style).opacity = 2
  <2> SUFFICES ASSUME e.kind = "Appear"
               PROVE  /\ drawn.style.shown = TRUE /\ drawn.effect.kind = "Appear"
                      /\ late => /\ Sp!Finished(drawn.effect, drawn.style).shown = TRUE
                                 /\ Sp!Finished(drawn.effect, drawn.style).opacity = 2
    OBVIOUS
  <2>1. e.state = "idle" \/ style.shown
    BY <1>5, <1>6
  <2> HIDE DEF e, late
  <2> QED BY <1>6, <2>1, AppearDraws, Zenon
<1>8. e.kind = "Fade" =>
         /\ drawn.effect.kind = "Fade"
         /\ Sp!Finished(drawn.effect, drawn.style).shown = FALSE
  <2> HIDE DEF e, late
  <2> QED BY <1>6, FadeHides, Zenon
<1>9. \/ late /\ effects' = Sp!RemoveAt(d, 1) /\ style' = Sp!Finished(drawn.effect, drawn.style)
      \/ ~late /\ effects' = [d EXCEPT ![1] = drawn.effect] /\ style' = drawn.style
      \/ effects' = d /\ style' = style
  <2>1. e.kind # "Highlight"
    BY <1>4, <1>5
  <2>2. e.finishOn > 0 => ~late
    <3>1. e.finishOn \in Int
      BY <1>6 DEF Queued, Effects
    <3> QED BY <3>1
  <2> QED BY <1>2, <2>1, <2>2, Zenon DEF HeadLooped
<1>10. e.kind \in {"Fade", "Appear"}
  BY <1>4, <1>5
<1> HIDE DEF d, e, late, drawn
<1>11. e = d[1]
  BY DEF e
<1> HIDE DEF e
<1>12. CASE late /\ effects' = Sp!RemoveAt(d, 1) /\ style' = Sp!Finished(drawn.effect, drawn.style)
  <2>1. /\ Len(effects') = Len(effects) - 1
        /\ \A j \in 1..(Len(effects) - 1) : effects'[j] = d[j + 1]
        /\ effects' \in Seq(Queued)
    <3>1. 1 \in 1..Len(d)
      BY <1>3, <1>4
    <3>2. /\ Len(Sp!RemoveAt(d, 1)) = Len(d) - 1 /\ Sp!RemoveAt(d, 1) \in Seq(Queued)
          /\ \A j \in 1..(Len(d) - 1) : Sp!RemoveAt(d, 1)[j] = IF j < 1 THEN d[j] ELSE d[j + 1]
      BY <1>3, <3>1, RemovedIs
    <3> QED BY <1>3, <1>12, <3>2
  <2>2. \A i \in 1..Len(effects') : i + 1 \in 2..Len(effects) /\ effects'[i] = d[i + 1]
    BY <1>3, <2>1
  <2>3. \A i \in 1..Len(effects') : effects'[i].kind \in {"Fade", "Appear"} /\ effects'[i].state = "idle"
    BY <1>4, <1>5, <2>2
  <2>4. CASE Len(effects) = 1
    <3>1. effects' = <<>>
      BY <2>1, <2>4
    <3>2. e.kind = IF count > 0 THEN "Appear" ELSE "Fade"
      BY <1>3, <1>5, <1>11, <2>4
    <3>3. (style'.shown <=> count > 0) /\ (style'.shown => style'.opacity = 2)
      BY <1>7, <1>8, <1>12, <3>2
    <3> QED BY <3>1, <3>3 DEF ComesToRest
  <2>5. CASE Len(effects) # 1
    <3>1. /\ Len(effects') \in 1..Len(effects') /\ Len(effects') + 1 = Len(d)
          /\ 1 \in 1..Len(effects') /\ effects' # <<>>
      BY <1>3, <2>1, <2>5
    <3>2. effects'[Len(effects')].kind = IF count > 0 THEN "Appear" ELSE "Fade"
      BY <1>5, <2>2, <3>1
    <3>3. effects'[1].state # "running"
      BY <2>3, <3>1
    <3> QED BY <2>3, <3>1, <3>2, <3>3 DEF ComesToRest
  <2> QED BY <2>4, <2>5
<1>13. CASE ~late /\ effects' = [d EXCEPT ![1] = drawn.effect] /\ style' = drawn.style
  <2>1. Len(effects') = Len(d) /\ effects'[1] = drawn.effect /\ \A j \in 1..Len(d) : j # 1 => effects'[j] = d[j]
    BY <1>3, <1>4, <1>13
  <2>2. drawn.effect.kind = e.kind
    BY <1>7, <1>8, <1>10
  <2>3. \A j \in 1..Len(d) : effects'[j].kind = d[j].kind
    BY <1>11, <2>1, <2>2
  <2>4. effects'[1].kind = "Appear" => style'.shown
    BY <1>7, <1>8, <1>10, <1>13, <2>1
  <2>5. effects' # <<>>
    BY <1>3, <2>1
  <2> QED BY <1>3, <1>4, <1>5, <2>1, <2>3, <2>4, <2>5 DEF ComesToRest
<1>14. CASE effects' = d /\ style' = style
  <2>1. effects' # <<>>
    BY <1>3, <1>14
  <2> QED BY <1>3, <1>5, <1>11, <1>14, <2>1 DEF ComesToRest
<1> QED BY <1>9, <1>12, <1>13, <1>14

\* What holds of the requests holds while they rest.
LEMMA RequestsRest == ASSUME RequestsInv, UNCHANGED Sp!ajaxVars PROVE RequestsInv'
BY DEF Sp!ajaxVars, RequestsInv, Sp!Ajax!TypeOK, CountInv, Unheard, PollInv, GoesOn

\* The spinner rests while requests move.
LEMMA SpinnerRests ==
  ASSUME SpinnerInv, RequestsInv', UNCHANGED Sp!vars, count' > 0 <=> count > 0
  PROVE  SpinnerInv'
<1>1. QueueTypes' /\ page' = page /\ effects' = effects /\ effectsMade' = effectsMade /\ style' = style
  BY DEF Sp!vars, SpinnerInv, QueueTypes
<1>2. ComesToRest(effects, style, count) => ComesToRest(effects', style', count')
  BY <1>1 DEF ComesToRest
<1> QED BY <1>1, <1>2 DEF SpinnerInv

\* onCreate, onComplete and Reload.
LEMMA NewRequestStep ==
  ASSUME Sp!EffectAssumption, Sp!Ajax!AjaxAssumption, SpinnerInv, NEW r \in Requests, Sp!NewRequest(r)
  PROVE  SpinnerInv'
<1>1. RequestsInv' /\ count' = count + 1 - req'[r].told /\ req'[r].told = 0
  BY RequestStep DEF Sp!NewRequest, SpinnerInv
<1>2. count \in Nat
  BY DEF SpinnerInv, RequestsInv, Sp!Ajax!TypeOK
<1>3. count' > 0
  BY <1>1, <1>2
<1>4. Sp!Create("Appear", "end", 0)
  BY <1>3 DEF Sp!NewRequest, Sp!onCreate
<1> QED BY <1>1, <1>3, <1>4, SpinnerCreates

LEMMA AnswerStep ==
  ASSUME Sp!EffectAssumption, Sp!Ajax!AjaxAssumption, SpinnerInv, NEW r \in Requests, Sp!Answer(r)
  PROVE  SpinnerInv'
<1>1. RequestsInv' /\ count' = count + req[r].told - req'[r].told /\ req[r].told <= req'[r].told
  BY ChangeStep DEF Sp!Answer, SpinnerInv
<1>2. /\ count \in Nat /\ count' \in Nat /\ req[r].told \in 0..1 /\ req'[r].told \in 0..1
  BY <1>1 DEF SpinnerInv, RequestsInv, Sp!Ajax!TypeOK, Sp!Ajax!AjaxRequest
<1>3. CASE req'[r].told > req[r].told
  <2>1. Sp!onComplete /\ count > 0
    BY <1>1, <1>2, <1>3 DEF Sp!Answer
  <2>2. CASE count' = 0
    <3>1. Sp!Create("Fade", "end", 0)
      BY <2>1, <2>2 DEF Sp!onComplete
    <3> QED BY <1>1, <2>2, <3>1, SpinnerCreates
  <2>3. CASE count' # 0
    <3>1. UNCHANGED Sp!vars /\ count' > 0
      BY <1>2, <2>1, <2>3 DEF Sp!onComplete
    <3> QED BY <1>1, <2>1, <3>1, SpinnerRests
  <2> QED BY <2>2, <2>3
<1>4. CASE ~(req'[r].told > req[r].told)
  <2>1. UNCHANGED Sp!vars /\ count' = count
    BY <1>1, <1>2, <1>4 DEF Sp!Answer
  <2> QED BY <1>1, <2>1, SpinnerRests
<1> QED BY <1>3, <1>4

LEMMA SpinnerLeaves ==
  ASSUME Sp!EffectAssumption, Sp!Ajax!AjaxAssumption, SpinnerInv, Sp!Leave
  PROVE  SpinnerInv'
<1>1. /\ Sp!Reload /\ ~style'.shown /\ req' = [r \in Requests |-> Sp!Ajax!Unused]
      /\ count' = 0 /\ clean' = TRUE /\ periodic' = periodic /\ container' = container
  BY DEF Sp!Leave
<1>2. /\ req' \in [Requests -> Sp!Ajax!AjaxRequest]
      /\ \A r \in Requests : /\ RequestInv(req'[r]) /\ ~Reschedules(req'[r])
                             /\ req'[r].kind = "unused" /\ ~req'[r].broken
  BY <1>1, UnusedFacts
<1>3. RequestsInv'
  <2>1. Sp!Ajax!TypeOK'
    BY <1>1, <1>2 DEF SpinnerInv, RequestsInv, Sp!Ajax!TypeOK, Sp!Ajax!AjaxAssumption
  <2>2. Unheard' = {}
    BY <1>2 DEF Unheard
  <2>3. CountInv'
    BY <1>1, <1>2, <2>2, FS_EmptySet DEF CountInv
  <2>4. PollInv'
    BY <1>1, <1>2 DEF SpinnerInv, RequestsInv, PollInv, GoesOn
  <2> QED BY <1>2, <2>1, <2>3, <2>4 DEF RequestsInv
<1>4. QueueTypes'
  BY <1>1, ReloadTypes DEF SpinnerInv
<1>5. effects' = <<>> /\ page' = page
  BY <1>1 DEF Sp!Reload
<1>6. Line(effects', effectsMade') /\ ComesToRest(effects', style', count')
  BY <1>1, <1>5 DEF Line, ComesToRest
<1> QED BY <1>3, <1>4, <1>5, <1>6 DEF SpinnerInv

\* Every step keeps what holds of the spinner,
LEMMA SpinnerStepInv ==
  ASSUME Sp!EffectAssumption, Sp!Ajax!AjaxAssumption, SpinnerInv, [Sp!SpinnerNext]_(Sp!spinnerVars)
  PROVE  SpinnerInv'
<1>1. CASE UNCHANGED Sp!spinnerVars
  BY <1>1, RequestsRest, SpinnerRests DEF Sp!spinnerVars, Sp!ajaxVars, SpinnerInv
<1>2. ASSUME NEW r \in Requests, Sp!Late(r) PROVE SpinnerInv'
  <2>1. RequestsInv' /\ count' = count /\ UNCHANGED Sp!vars
    BY <1>2, DeferredStep DEF Sp!Late, SpinnerInv, Sp!Ajax!DeferredLoading
  <2> QED BY <2>1, SpinnerRests
<1>3. CASE Sp!Interval
  <2>1. PICK lag \in 1..MaxLag : Sp!Loop(lag)
    BY <1>3 DEF Sp!Interval
  <2>2. RequestsInv' /\ count' = count
    BY <1>3, RequestsRest DEF Sp!Interval, SpinnerInv, Sp!ajaxVars
  <2>3. QueueTypes' /\ page' = page /\ effectsMade' = effectsMade /\ effects # <<>>
    BY <2>1, LoopTypes DEF SpinnerInv, Sp!Loop
  <2>4. ASSUME MaxLag <= Duration
        PROVE  Line(effects', effectsMade') /\ ComesToRest(effects', style', count')
    <3>1. QueueTypes /\ Line(effects, effectsMade)
      BY <2>4 DEF SpinnerInv
    <3>2. HeadLooped(lag, effects', style')
      BY <2>1, <2>4, <3>1, LinePass
    <3>3. Line(effects', effectsMade)
      BY <2>3, <2>4, <3>1, <3>2, LineLooped
    <3> QED BY <2>1, <2>2, <2>3, <2>4, <3>3, SpinnerDrawn
  <2> QED BY <2>2, <2>3, <2>4 DEF SpinnerInv
<1> QED BY <1>1, <1>2, <1>3, NewRequestStep, AnswerStep, SpinnerLeaves DEF Sp!SpinnerNext

\* from which the property follows: the count is that of the requests under way.
LEMMA SpinnerFacts ==
  ASSUME Sp!Ajax!AjaxAssumption, SpinnerInv PROVE Sp!TypeOK /\ Sp!SpinnerFollows
<1>1. Sp!TypeOK
  BY QueueTypesFollow DEF SpinnerInv
<1> SUFFICES ASSUME effects = <<>>, clean, MaxLag <= Duration
             PROVE  (style.shown <=> Sp!UnderWay # {}) /\ (style.shown => style.opacity = 2)
  BY <1>1 DEF Sp!SpinnerFollows
<1> DEFINE underway == {r \in Requests : Sp!Ajax!UnderWay(r)}
<1>2. (style.shown <=> count > 0) /\ (style.shown => style.opacity = 2)
  BY DEF SpinnerInv, ComesToRest
<1>3. count = Cardinality(underway) /\ count \in Nat
  <2>1. count = Sp!Ajax!Cardinality(underway)
    BY CountFollows DEF SpinnerInv, Sp!Ajax!CountIsExact
  <2>2. Sp!Ajax!Cardinality(underway) = Cardinality(underway)
    BY SameCardinality
  <2> QED BY <2>1, <2>2 DEF SpinnerInv, RequestsInv, Sp!Ajax!TypeOK
<1>4. IsFiniteSet(underway)
  BY RequestsAreFinite, FS_Subset
<1>5. Sp!UnderWay = underway
  BY DEF Sp!UnderWay
<1> HIDE DEF underway
<1>6. count > 0 <=> underway # {}
  BY <1>3, <1>4, FS_EmptySet
<1> QED BY <1>2, <1>5, <1>6

\* application.js L1-13: when its effects are over the spinner is shown exactly
\* while a request is under way, for any number of requests, as long as nothing
\* has raised.
THEOREM SpinnerShowsRequests ==
  ASSUME Sp!EffectAssumption, Sp!Ajax!AjaxAssumption PROVE Sp!SpinnerSpec => []Sp!SpinnerFollows
<1>1. Sp!SpinnerInit => SpinnerInv
  BY SpinnerInitInv
<1>2. SpinnerInv /\ [Sp!SpinnerNext]_(Sp!spinnerVars) => SpinnerInv'
  BY SpinnerStepInv
<1>3. SpinnerInv => Sp!SpinnerFollows
  BY SpinnerFacts
<1> QED BY <1>1, <1>2, <1>3, PTL DEF Sp!SpinnerSpec

----------------------------------------------------------------------------
(***************************************************************************)
(* Proofs about FormObservers for any fields, texts and options. The       *)
(* argument: an observer by time was told the value of its last tick; one  *)
(* by events knows what was committed, that is the form as it was when the *)
(* field in focus was entered; a delayed one will be told when its timer   *)
(* comes.                                                                  *)
(***************************************************************************)

\* The form as the browser last told of it: a text field counts with the text
\* it had when it was entered.
Committed == IF focus = Nothing THEN content ELSE [content EXCEPT ![focus] = entered]

\* What an observer knows.
FormKnown ==
    /\ observer.kind # "delayed" /\ ~raised => told = lastValue
    /\ observer.kind = "timed" /\ ~missed /\ ~raised => told = Fo!Value
    /\ observer.kind = "event" /\ ~missed /\ ~raised =>
            told = Fo!ValueOf(observer, Committed, disabled)
    /\ observer.kind = "event" /\ focus # Nothing /\ focus \in disabled => missed
    /\ observer.kind = "delayed" /\ ~missed => lastValue = Fo!Value
    /\ observer.kind = "delayed" /\ ~missed /\ ~timer => told = Fo!Value

OnlyIfNew == again => observer.kind = "delayed" \/ (observer.kind = "event" /\ observer.of \in FieldLists)

ObserverInv ==
    /\ Fo!FormTypeOK
    /\ content = [f \in Fo!Fields |-> content[f]]
    /\ FormKnown
    /\ OnlyIfNew

----------------------------------------------------------------------------
(* Values. *)

LEMMA ValueType ==
  ASSUME NEW o, NEW c, NEW off, \A f \in Fo!Fields : c[f] \in Fo!Contents(f)
  PROVE  Fo!ValueOf(o, c, off) \in SUBSET (Fo!Fields \X (FieldTexts \cup {On} \cup FieldOptions))
<1>1. \A f \in Fo!Fields : c[f] \in SUBSET (FieldTexts \cup {On} \cup FieldOptions)
  BY DEF Fo!Contents, Fo!Fields
<1>2. ASSUME NEW d, NEW away, \A f \in Fo!Fields : d[f] \in SUBSET (FieldTexts \cup {On} \cup FieldOptions)
      PROVE  Fo!Pairs(d, away) \in SUBSET (Fo!Fields \X (FieldTexts \cup {On} \cup FieldOptions))
  BY <1>2 DEF Fo!Pairs
<1>3. CASE o.of = Form
  BY <1>1, <1>2, <1>3 DEF Fo!ValueOf
<1>4. CASE o.of # Form
  <2> DEFINE d == [f \in Fo!Fields |-> IF f = o.of THEN c[f] ELSE {}]
  <2>1. \A f \in Fo!Fields : d[f] \in SUBSET (FieldTexts \cup {On} \cup FieldOptions)
    BY <1>1
  <2> HIDE DEF d
  <2>2. Fo!Pairs(d, {}) \in SUBSET (Fo!Fields \X (FieldTexts \cup {On} \cup FieldOptions))
    BY <1>2, <2>1
  <2> QED BY <1>4, <2>2 DEF Fo!ValueOf, d
<1> QED BY <1>3, <1>4

\* The value of one element does not depend on what is in another.
LEMMA ValueElsewhere ==
  ASSUME NEW o, NEW c, NEW d, NEW off, NEW f,
         o.of # f, o.of # Form, \A g \in Fo!Fields \ {f} : d[g] = c[g]
  PROVE  Fo!ValueOf(o, d, off) = Fo!ValueOf(o, c, off)
<1>1. [g \in Fo!Fields |-> IF g = o.of THEN d[g] ELSE {}]
        = [g \in Fo!Fields |-> IF g = o.of THEN c[g] ELSE {}]
  OBVIOUS
<1> QED BY <1>1, Zenon DEF Fo!ValueOf

LEMMA FormInitInv == ASSUME Fo!FormAssumption, Fo!FormInit PROVE ObserverInv
<1>1. /\ \A f \in Fo!Fields : content[f] \in Fo!Contents(f)
      /\ content = [f \in Fo!Fields |-> content[f]]
  BY DEF Fo!FormInit
<1>2. Fo!Value \in SUBSET (Fo!Fields \X (FieldTexts \cup {On} \cup FieldOptions))
  BY <1>1, ValueType DEF Fo!Value
<1>3. Fo!FormTypeOK
  BY <1>1, <1>2 DEF Fo!FormInit, Fo!FormTypeOK
<1>4. FormKnown
  BY DEF Fo!FormInit, FormKnown, Committed, Fo!Value
<1> QED BY <1>1, <1>3, <1>4 DEF Fo!FormInit, ObserverInv, OnlyIfNew

----------------------------------------------------------------------------
(* What is reported. *)

\* execute() and onElementEvent(), which let an observer know the value of now.
LEMMA ReportStep ==
  ASSUME ObserverInv, observer.kind # "delayed", UNCHANGED <<observer>>,
         Fo!Value' \in SUBSET (Fo!Fields \X (FieldTexts \cup {On} \cup FieldOptions)),
         \/ Fo!Reported(Fo!Value')
            /\ (lastValue # Fo!Value' \/ (observer.kind = "event" /\ observer.of \in FieldLists))
         \/ Fo!NotReported /\ lastValue = Fo!Value'
  PROVE  /\ ~raised' => told' = lastValue' /\ told' = Fo!Value'
         /\ OnlyIfNew'
         /\ {lastValue', told'} \subseteq SUBSET (Fo!Fields \X (FieldTexts \cup {On} \cup FieldOptions))
         /\ {raised', again'} \subseteq BOOLEAN
<1> DEFINE new == Fo!Value'
<1>1. /\ ~raised => told = lastValue
      /\ {lastValue, told} \subseteq SUBSET (Fo!Fields \X (FieldTexts \cup {On} \cup FieldOptions))
      /\ {raised, again} \subseteq BOOLEAN /\ OnlyIfNew
  BY DEF ObserverInv, FormKnown, Fo!FormTypeOK
<1> HIDE DEF new
<1>2. CASE Fo!Reported(new) /\ (lastValue # new \/ (observer.kind = "event" /\ observer.of \in FieldLists))
  <2>1. PICK raises \in BOOLEAN :
            /\ told' = new /\ raised' = raises /\ again' = (again \/ (new = told /\ ~raised))
            /\ lastValue' = IF raises THEN lastValue ELSE new
    BY <1>2 DEF Fo!Reported, Fo!Callback
  <2> QED BY <1>1, <1>2, <2>1 DEF OnlyIfNew, new
<1>3. CASE Fo!NotReported /\ lastValue = new
  BY <1>1, <1>3 DEF Fo!NotReported, OnlyIfNew, new
<1> QED BY <1>2, <1>3 DEF new

\* registerCallback() and onElementEvent() for an event of f, after which the
\* field in focus, if there is one, has been left.
LEMMA ElementEventStep ==
  ASSUME ObserverInv, NEW f \in Fo!Fields, Fo!ElementEvent(f), Fo!FormAssumption,
         UNCHANGED <<observer, disabled, timer>>, focus' = Nothing,
         \A g \in Fo!Fields : content'[g] \in Fo!Contents(g),
         content' = [g \in Fo!Fields |-> content'[g]],
         \A g \in Fo!Fields \ {f} : content'[g] = Committed[g],
         observer.kind = "delayed" => Fo!Value' = Fo!Value
  PROVE  ObserverInv'
<1>1. Fo!Value' \in SUBSET (Fo!Fields \X (FieldTexts \cup {On} \cup FieldOptions))
  BY ValueType DEF Fo!Value
<1>2. Committed' = content'
  BY DEF Committed
<1>3. Fo!FormTypeOK /\ FormKnown /\ OnlyIfNew /\ missed \in BOOLEAN /\ focus \in TextFields \cup {Nothing}
  BY DEF ObserverInv, Fo!FormTypeOK
<1>4. CASE observer.kind = "event" /\ observer.of \in {f, Form}
  <2>1. /\ \/ Fo!Reported(Fo!Value')
              /\ (lastValue # Fo!Value' \/ (observer.kind = "event" /\ observer.of \in FieldLists))
           \/ Fo!NotReported /\ lastValue = Fo!Value'
        /\ missed' = FALSE
    BY <1>4 DEF Fo!ElementEvent
  <2>2. /\ ~raised' => told' = lastValue' /\ told' = Fo!Value'
        /\ OnlyIfNew'
        /\ {lastValue', told'} \subseteq SUBSET (Fo!Fields \X (FieldTexts \cup {On} \cup FieldOptions))
        /\ {raised', again'} \subseteq BOOLEAN
    BY <1>1, <1>4, <2>1, ReportStep
  <2>3. Fo!FormTypeOK'
    BY <1>3, <2>1, <2>2 DEF Fo!FormTypeOK
  <2>4. FormKnown'
    BY <1>2, <1>4, <2>2 DEF FormKnown, Fo!Value
  <2> QED BY <2>2, <2>3, <2>4 DEF ObserverInv
<1>5. CASE ~(observer.kind = "event" /\ observer.of \in {f, Form})
  <2>1. UNCHANGED <<lastValue, told, raised, again>> /\ missed' = (observer.kind = "timed" \/ missed)
    BY <1>5 DEF Fo!ElementEvent, Fo!NotReported
  <2>2. Fo!FormTypeOK'
    BY <1>3, <2>1 DEF Fo!FormTypeOK
  <2>3. observer.kind = "event" =>
            Fo!ValueOf(observer, content', disabled) = Fo!ValueOf(observer, Committed, disabled)
    BY <1>5, ValueElsewhere
  <2>4. FormKnown'
    BY <1>2, <1>3, <2>1, <2>3 DEF FormKnown
  <2> QED BY <1>3, <2>1, <2>2, <2>4 DEF ObserverInv, OnlyIfNew
<1> QED BY <1>4, <1>5

----------------------------------------------------------------------------
(* The steps. *)

LEMMA TickStep == ASSUME Fo!FormAssumption, ObserverInv, Fo!Tick PROVE ObserverInv'
<1>1. /\ observer.kind = "timed" /\ missed' = FALSE
      /\ UNCHANGED <<observer, content, disabled, focus, entered, timer>>
      /\ IF lastValue # Fo!Value THEN Fo!Reported(Fo!Value) ELSE Fo!NotReported
  BY DEF Fo!Tick
<1>2. Fo!Value' = Fo!Value /\ Fo!FormTypeOK
  BY <1>1 DEF Fo!Value, ObserverInv
<1>3. Fo!Value' \in SUBSET (Fo!Fields \X (FieldTexts \cup {On} \cup FieldOptions))
  BY <1>2, ValueType DEF Fo!Value, Fo!FormTypeOK
<1>4. \/ Fo!Reported(Fo!Value') /\ lastValue # Fo!Value'
      \/ Fo!NotReported /\ lastValue = Fo!Value'
  BY <1>1, <1>2
<1>5. /\ ~raised' => told' = lastValue' /\ told' = Fo!Value'
      /\ OnlyIfNew'
      /\ {lastValue', told'} \subseteq SUBSET (Fo!Fields \X (FieldTexts \cup {On} \cup FieldOptions))
      /\ {raised', again'} \subseteq BOOLEAN
  BY <1>1, <1>3, <1>4, ReportStep
<1>6. Fo!FormTypeOK'
  BY <1>1, <1>2, <1>5 DEF Fo!FormTypeOK
<1>7. FormKnown'
  BY <1>1, <1>5 DEF FormKnown
<1> QED BY <1>1, <1>5, <1>6, <1>7 DEF ObserverInv

LEMMA DelayOverStep == ASSUME Fo!FormAssumption, ObserverInv, Fo!TimerEvent PROVE ObserverInv'
<1>1. /\ observer.kind = "delayed" /\ timer' = FALSE
      /\ UNCHANGED <<observer, content, disabled, focus, entered, lastValue, missed>>
  BY DEF Fo!TimerEvent
<1>2. told' = Fo!Value /\ {raised', again'} \subseteq BOOLEAN
  BY DEF Fo!TimerEvent, Fo!Callback, ObserverInv, Fo!FormTypeOK
<1>3. Fo!Value' = Fo!Value /\ Fo!FormTypeOK
  BY <1>1 DEF Fo!Value, ObserverInv
<1>4. Fo!Value \in SUBSET (Fo!Fields \X (FieldTexts \cup {On} \cup FieldOptions))
  BY <1>3, ValueType DEF Fo!Value, Fo!FormTypeOK
<1>5. Fo!FormTypeOK'
  BY <1>1, <1>2, <1>3, <1>4 DEF Fo!FormTypeOK
<1>6. FormKnown'
  BY <1>1, <1>2, <1>3 DEF FormKnown, ObserverInv
<1>7. OnlyIfNew'
  BY <1>1 DEF OnlyIfNew
<1> QED BY <1>1, <1>5, <1>6, <1>7 DEF ObserverInv

LEMMA KeyStep ==
  ASSUME Fo!FormAssumption, ObserverInv, NEW f \in TextFields, NEW c \in Fo!Contents(f), Fo!Key(f, c)
  PROVE  ObserverInv'
<1>1. /\ focus \in {f, Nothing} /\ focus' = f /\ f \notin disabled
      /\ entered' = IF focus = f THEN entered ELSE content[f]
      /\ content' = [content EXCEPT ![f] = c]
      /\ UNCHANGED <<observer, disabled, told, raised, again>>
  BY DEF Fo!Key
<1>2. /\ Fo!FormTypeOK /\ FormKnown /\ OnlyIfNew /\ f \in Fo!Fields /\ f # Nothing
      /\ content = [g \in Fo!Fields |-> content[g]]
  BY DEF ObserverInv, Fo!Fields, Fo!FormAssumption
<1>3. /\ content' = [g \in Fo!Fields |-> content'[g]]
      /\ content'[f] = c /\ \A g \in Fo!Fields \ {f} : content'[g] = content[g]
      /\ \A g \in Fo!Fields : content'[g] \in Fo!Contents(g)
  BY <1>1, <1>2 DEF Fo!FormTypeOK
<1>4. Fo!Value' \in SUBSET (Fo!Fields \X (FieldTexts \cup {On} \cup FieldOptions))
  BY <1>3, ValueType DEF Fo!Value
<1>5. Committed' = Committed
  BY <1>1, <1>2 DEF Committed
<1>6. CASE observer.kind = "delayed" /\ observer.of = f
  <2>1. IF lastValue = Fo!Value' THEN UNCHANGED <<lastValue, timer, missed>>
        ELSE lastValue' = Fo!Value' /\ timer' = TRUE /\ missed' = FALSE
    BY <1>6 DEF Fo!Key, Fo!KeyUp
  <2>2. Fo!FormTypeOK'
    <3>1. /\ lastValue' \in SUBSET (Fo!Fields \X (FieldTexts \cup {On} \cup FieldOptions))
          /\ {timer', missed'} \subseteq BOOLEAN
      BY <1>2, <1>4, <2>1 DEF Fo!FormTypeOK
    <3> QED BY <1>1, <1>2, <1>3, <3>1 DEF Fo!FormTypeOK
  <2>3. FormKnown'
    BY <1>1, <1>2, <1>6, <2>1 DEF FormKnown
  <2> QED BY <1>1, <1>2, <1>3, <2>2, <2>3 DEF ObserverInv, OnlyIfNew
<1>7. CASE ~(observer.kind = "delayed" /\ observer.of = f)
  <2>1. UNCHANGED <<lastValue, timer>> /\ missed' = (observer.kind = "timed" \/ missed)
    BY <1>7 DEF Fo!Key, Fo!KeyUp
  <2>2. Fo!FormTypeOK'
    BY <1>1, <1>2, <1>3, <2>1 DEF Fo!FormTypeOK
  <2>3. observer.kind = "delayed" => observer.of # f /\ observer.of # Form
    BY <1>2, <1>7 DEF Fo!FormTypeOK, Fo!Observers, Fo!FormAssumption, Fo!Fields
  <2>4. observer.kind = "delayed" => Fo!Value' = Fo!Value
    <3>1. observer.kind = "delayed" =>
              Fo!ValueOf(observer, content', disabled) = Fo!ValueOf(observer, content, disabled)
      BY <1>3, <2>3, ValueElsewhere
    <3> QED BY <1>1, <3>1 DEF Fo!Value
  <2>5. FormKnown'
    BY <1>1, <1>2, <1>5, <2>1, <2>4 DEF FormKnown
  <2> QED BY <1>1, <1>2, <1>3, <2>2, <2>5 DEF ObserverInv, OnlyIfNew
<1> QED BY <1>6, <1>7

LEMMA LeaveStep == ASSUME Fo!FormAssumption, ObserverInv, Fo!Leave PROVE ObserverInv'
<1>1. /\ focus # Nothing /\ focus' = Nothing /\ UNCHANGED <<observer, content, disabled, timer>>
      /\ IF content[focus] # entered /\ focus \notin disabled THEN Fo!ElementEvent(focus)
         ELSE Fo!NotReported /\ UNCHANGED missed
  BY DEF Fo!Leave
<1>2. /\ Fo!FormTypeOK /\ FormKnown /\ OnlyIfNew /\ focus \in Fo!Fields
      /\ content = [g \in Fo!Fields |-> content[g]]
  BY <1>1 DEF ObserverInv, Fo!Fields, Fo!FormTypeOK
<1>3. Fo!Value' = Fo!Value
  BY <1>1 DEF Fo!Value
<1>4. CASE content[focus] # entered /\ focus \notin disabled
  <2>1. \A g \in Fo!Fields \ {focus} : content'[g] = Committed[g]
    BY <1>1, <1>2 DEF Committed
  <2>2. \A g \in Fo!Fields : content'[g] \in Fo!Contents(g)
    BY <1>1, <1>2 DEF Fo!FormTypeOK
  <2> QED BY <1>1, <1>2, <1>3, <1>4, <2>1, <2>2, ElementEventStep
<1>5. CASE ~(content[focus] # entered /\ focus \notin disabled)
  <2>1. UNCHANGED <<lastValue, told, raised, again, missed>>
    BY <1>1, <1>5 DEF Fo!NotReported
  <2>2. Fo!FormTypeOK'
    BY <1>1, <1>2, <2>1 DEF Fo!FormTypeOK
  <2>3. Committed' = content
    BY <1>1 DEF Committed
  <2>4. content[focus] = entered => Committed = content
    BY <1>1, <1>2 DEF Committed
  <2>5. FormKnown'
    BY <1>1, <1>2, <1>3, <1>5, <2>1, <2>3, <2>4 DEF FormKnown
  <2> QED BY <1>1, <1>2, <2>1, <2>2, <2>5 DEF ObserverInv, OnlyIfNew
<1> QED BY <1>4, <1>5

LEMMA ClickStep ==
  ASSUME Fo!FormAssumption, ObserverInv, NEW f \in Fo!Fields \ TextFields, NEW c \in Fo!Contents(f), Fo!Click(f, c)
  PROVE  ObserverInv'
<1>1. /\ focus = Nothing /\ content' = [content EXCEPT ![f] = c] /\ Fo!ElementEvent(f)
      /\ UNCHANGED <<observer, disabled, focus, entered, timer>>
  BY DEF Fo!Click
<1>2. Fo!FormTypeOK /\ content = [g \in Fo!Fields |-> content[g]]
  BY DEF ObserverInv
<1>3. /\ content' = [g \in Fo!Fields |-> content'[g]]
      /\ content'[f] = c /\ \A g \in Fo!Fields \ {f} : content'[g] = content[g]
      /\ \A g \in Fo!Fields : content'[g] \in Fo!Contents(g)
  BY <1>1, <1>2 DEF Fo!FormTypeOK
<1>4. observer.kind = "delayed" => observer.of # f /\ observer.of # Form
  BY <1>2 DEF Fo!FormTypeOK, Fo!Observers, Fo!FormAssumption, Fo!Fields
<1>5. observer.kind = "delayed" => Fo!Value' = Fo!Value
  BY <1>1, <1>3, <1>4, ValueElsewhere DEF Fo!Value
<1>6. \A g \in Fo!Fields \ {f} : content'[g] = Committed[g]
  BY <1>1, <1>3 DEF Committed
<1> QED BY <1>1, <1>3, <1>5, <1>6, ElementEventStep

LEMMA PageEditStep == ASSUME Fo!FormAssumption, ObserverInv, Fo!PageEdit PROVE ObserverInv'
<1>1. missed' = TRUE /\ UNCHANGED <<observer, focus, lastValue, timer, told, raised, again>>
  BY DEF Fo!PageEdit
<1>2. Fo!FormTypeOK /\ FormKnown /\ OnlyIfNew /\ content = [g \in Fo!Fields |-> content[g]]
  BY DEF ObserverInv
<1>3. /\ content' = [g \in Fo!Fields |-> content'[g]]
      /\ \A g \in Fo!Fields : content'[g] \in Fo!Contents(g)
      /\ disabled' \subseteq Fo!Fields
  BY <1>2 DEF Fo!PageEdit, Fo!FormTypeOK
<1>4. Fo!FormTypeOK'
  BY <1>1, <1>2, <1>3 DEF Fo!FormTypeOK
<1>5. FormKnown'
  BY <1>1, <1>2 DEF FormKnown
<1> QED BY <1>1, <1>2, <1>3, <1>4, <1>5 DEF ObserverInv, OnlyIfNew

LEMMA FormStepInv ==
  ASSUME Fo!FormAssumption, ObserverInv, [Fo!FormNext]_(Fo!formVars)
  PROVE  ObserverInv'
<1>1. CASE UNCHANGED Fo!formVars
  BY <1>1 DEF Fo!formVars, ObserverInv, Fo!FormTypeOK, FormKnown, OnlyIfNew, Fo!Value, Committed
<1>2. CASE Fo!Stop
  BY <1>2 DEF Fo!Stop, ObserverInv, Fo!FormTypeOK, FormKnown, OnlyIfNew, Fo!Value, Committed
<1> QED BY <1>1, <1>2, TickStep, DelayOverStep, LeaveStep, PageEditStep, KeyStep, ClickStep
    DEF Fo!FormNext

LEMMA FormReported == ObserverInv => Fo!FormIsReported
BY DEF ObserverInv, FormKnown, OnlyIfNew, Fo!FormIsReported, Fo!Settled, Committed, Fo!Value,
    Fo!FormTypeOK, Fo!Observers

\* prototype.js L4183-4260, controls.js L946-965: what is in a form is what its
\* observer was told, once the timer and the events have come, whatever is
\* typed, clicked and disabled meanwhile; for any form.
THEOREM FormStaysReported ==
  ASSUME Fo!FormAssumption
  PROVE  Fo!FormSpec => [](Fo!FormTypeOK /\ Fo!FormIsReported)
<1>1. ObserverInv => Fo!FormTypeOK
  BY DEF ObserverInv
<1> QED BY <1>1, FormReported, FormInitInv, FormStepInv, PTL DEF Fo!FormSpec
=============================================================================
