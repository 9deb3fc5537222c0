----------------------------- MODULE EventBusProofs -----------------------------
(*****************************************************************************)
(* Proofs about EventBus.  The dispatch of an event stands at a position in  *)
(* the list of local subscribers: what lies before it has been invoked, once *)
(* each, and what lies behind it has not, so that a dispatch that ends has   *)
(* been everywhere.  The server has what it says it has, if no two events    *)
(* share a message identifier, and the last callback the client has yet to   *)
(* run tells the state of the connection.                                    *)
(*****************************************************************************)
EXTENDS EventBus, TLAPS, WellFoundedInduction, FiniteSetTheorems, SequenceTheorems

--------------------------------------------------------------------------------
(* Searching the list of subscribers.                                        *)

\* A set of natural numbers has a least element: of the intervals that end in
\* its members, one has no other as a proper subset.
LEMMA LeastElement ==
  ASSUME NEW T, T \subseteq Nat, T # {}
  PROVE  Min(T) \in T /\ \A y \in T : Min(T) <= y
<1> DEFINE Ends == {0..k : k \in T}
<1>1. Ends \subseteq FiniteSubsetsOf(Nat) /\ Ends # {}
  <2>1. \A k \in T : IsFiniteSet(0..k) /\ 0..k \subseteq Nat
    BY FS_Interval
  <2> QED
    BY <2>1 DEF FiniteSubsetsOf
<1> HIDE DEF Ends
<1>2. PICK X \in Ends : \A Y \in Ends : ~(<<Y, X>> \in StrictSubsetOrdering(Nat))
  BY <1>1, WFMin, FS_StrictSubsetOrderingWellFounded
<1>3. PICK x \in T : X = 0..x
  BY DEF Ends
<1>4. \A y \in T : x <= y
  <2> SUFFICES ASSUME NEW y \in T, y < x PROVE FALSE
    OBVIOUS
  <2>1. 0..y \in Ends /\ 0..y \subseteq 0..x /\ 0..y # 0..x
    BY DEF Ends
  <2> QED
    BY <1>1, <1>2, <1>3, <2>1 DEF StrictSubsetOrdering, FiniteSubsetsOf
<1> QED
  BY <1>4 DEF Min

\* MatchFrom finds the first entry from i on that hears e, if there is one.
LEMMA FirstMatch ==
  ASSUME NEW e, NEW i \in Nat, Len(subs) \in Nat, i > 0
  PROVE  \/ /\ MatchFrom(e, i) = 0
            /\ \A j \in i..Len(subs) : e \notin Hears[subs[j].pattern]
         \/ /\ MatchFrom(e, i) \in i..Len(subs)
            /\ e \in Hears[subs[MatchFrom(e, i)].pattern]
            /\ \A j \in i..(MatchFrom(e, i) - 1) : e \notin Hears[subs[j].pattern]
<1> DEFINE I == {j \in i..Len(subs) : e \in Hears[subs[j].pattern]}
<1>1. MatchFrom(e, i) = IF I # {} THEN Min(I) ELSE 0
  BY DEF MatchFrom, SelectInSubSeq
<1>2. CASE I = {}
  BY <1>1, <1>2
<1>3. CASE I # {}
  <2>1. I \subseteq Nat
    OBVIOUS
  <2>2. PICK m \in I : m = Min(I) /\ \A y \in I : m <= y
    BY <1>3, <2>1, LeastElement
  <2>3. MatchFrom(e, i) = m
    BY <1>1, <1>3, <2>2
  <2>4. m \in i..Len(subs) /\ e \in Hears[subs[m].pattern]
    OBVIOUS
  <2>5. \A j \in i..(m - 1) : j \in i..Len(subs) /\ j \notin I
    BY <2>2, <2>4
  <2>6. \A j \in i..(m - 1) : e \notin Hears[subs[j].pattern]
    BY <2>5
  <2> HIDE DEF I
  <2> QED
    BY <2>3, <2>4, <2>6
<1> QED
  BY <1>2, <1>3

\* A pattern is looked up in the dict before it is added to it.
LEMMA PatternLookup ==
  ASSUME NEW p, Len(subs) \in Nat
  PROVE  LET i == SelectInSeq(subs, LAMBDA s : s.pattern = p)
         IN \/ i = 0 /\ \A j \in 1..Len(subs) : subs[j].pattern # p
            \/ i \in 1..Len(subs) /\ subs[i].pattern = p
<1> DEFINE I == {j \in 1..Len(subs) : subs[j].pattern = p}
<1>1. SelectInSeq(subs, LAMBDA s : s.pattern = p) = IF I # {} THEN Min(I) ELSE 0
  BY DEF SelectInSeq
<1>2. I # {} => Min(I) \in I
  <2>1. I \subseteq Nat
    OBVIOUS
  <2> HIDE DEF I
  <2> QED
    BY <2>1, LeastElement
<1> QED
  BY <1>1, <1>2

--------------------------------------------------------------------------------
(* Types.                                                                    *)

Position == [entry : Nat, handler : Nat, size : Nat]
Entries == [pattern : Patterns, handlers : 1..MaxHandlers]
Callbacks == {"disconnected", "reconnected", "closed"}
Stages == {"idle", "sending", "dispatching", "done", "raised"}

\* The type invariant with the positions of dispatches that are not under way.
Typed == TypeOK /\ at \in [Events -> Position]

\* Where a step of the loops leads, from a position within the dict.
LEMMA GoOnGoes ==
  ASSUME Typed, NEW e \in Events, NEW p \in Position, GoOn(e, p),
         p.entry \in 0..Len(subs),
         p.entry > 0 => p.handler \in 1..subs[p.entry].handlers
  PROVE  /\ stage' = [stage EXCEPT ![e] = stage'[e]]
         /\ at' = [at EXCEPT ![e] = at'[e]]
         /\ stage'[e] \in {"dispatching", "raised", "done"}
         /\ at'[e] \in Position
         /\ stage'[e] = "dispatching" =>
              /\ at'[e].size = p.size
              /\ at'[e].entry \in DOMAIN subs
              /\ at'[e].handler \in 1..subs[at'[e].entry].handlers
              /\ \/ /\ p.entry > 0 /\ p.handler < subs[p.entry].handlers
                    /\ at'[e].entry = p.entry /\ at'[e].handler = p.handler + 1
                 \/ /\ p.entry > 0 => p.handler = subs[p.entry].handlers
                    /\ at'[e].entry > p.entry /\ at'[e].handler = 1
                    /\ \A j \in (p.entry + 1)..(at'[e].entry - 1) :
                         e \notin Hears[subs[j].pattern]
         /\ stage'[e] = "done" =>
              /\ p.entry > 0 => p.handler = subs[p.entry].handlers
              /\ \A j \in (p.entry + 1)..Len(subs) : e \notin Hears[subs[j].pattern]
         /\ stage'[e] = "done" => p.size = Len(subs)
         /\ stage'[e] = "raised" => p.size # Len(subs)
<1>1. /\ Len(subs) \in Nat /\ DOMAIN subs = 1..Len(subs)
      /\ \A j \in 1..Len(subs) : subs[j] \in Entries /\ subs[j].handlers \in 1..MaxHandlers
      /\ MaxHandlers \in Nat /\ p.entry \in Nat /\ p.handler \in Nat /\ p.size \in Nat
      /\ stage \in [Events -> Stages] /\ at \in [Events -> Position]
  <2>1. subs \in Seq(Entries) /\ MaxHandlers \in Nat
    BY BusAssumption DEF Typed, TypeOK, Entries
  <2>2. stage \in [Events -> Stages] /\ at \in [Events -> Position]
    BY DEF Typed, TypeOK, Stages
  <2>3. p.entry \in Nat /\ p.handler \in Nat /\ p.size \in Nat
    BY DEF Position
  <2>4. /\ Len(subs) \in Nat /\ DOMAIN subs = 1..Len(subs)
        /\ \A j \in 1..Len(subs) : subs[j] \in Entries
    BY <2>1
  <2>5. \A j \in 1..Len(subs) : subs[j].handlers \in 1..MaxHandlers
    BY <2>4 DEF Entries
  <2> QED
    BY <2>1, <2>2, <2>3, <2>4, <2>5
<1>2. DEFINE i == MatchFrom(e, p.entry + 1)
<1>3. \/ i = 0 /\ \A j \in (p.entry + 1)..Len(subs) : e \notin Hears[subs[j].pattern]
      \/ /\ i \in (p.entry + 1)..Len(subs)
         /\ \A j \in (p.entry + 1)..(i - 1) : e \notin Hears[subs[j].pattern]
  <2>1. p.entry + 1 \in Nat /\ p.entry + 1 > 0 /\ Len(subs) \in Nat
    BY <1>1
  <2> QED
    BY <2>1, FirstMatch
<1> HIDE DEF i
<1>4. CASE MoreHandlers(p)
  <2>1. /\ stage' = [stage EXCEPT ![e] = "dispatching"]
        /\ at' = [at EXCEPT ![e] = At(p.entry, p.handler + 1, p.size)]
    BY <1>4 DEF GoOn
  <2>2. At(p.entry, p.handler + 1, p.size) \in Position
    BY <1>1 DEF Position, At
  <2> QED
    BY <1>1, <1>4, <2>1, <2>2 DEF MoreHandlers, Position, At
<1>5. CASE ~MoreHandlers(p) /\ Len(subs) # p.size
  <2>1. stage' = [stage EXCEPT ![e] = "raised"] /\ at' = [at EXCEPT ![e] = Nowhere]
    BY <1>5 DEF GoOn
  <2> QED
    BY <1>1, <1>5, <2>1 DEF Position, Nowhere, At
<1>6. CASE ~MoreHandlers(p) /\ Len(subs) = p.size /\ i = 0
  <2>1. stage' = [stage EXCEPT ![e] = "done"] /\ at' = [at EXCEPT ![e] = Nowhere]
    BY <1>6 DEF GoOn, i
  <2> QED
    BY <1>1, <1>3, <1>6, <2>1 DEF Position, Nowhere, At, MoreHandlers
<1>7. CASE ~MoreHandlers(p) /\ Len(subs) = p.size /\ i # 0
  <2>1. /\ stage' = [stage EXCEPT ![e] = "dispatching"]
        /\ at' = [at EXCEPT ![e] = At(i, 1, p.size)]
    BY <1>7 DEF GoOn, i
  <2>2. /\ i \in (p.entry + 1)..Len(subs) /\ i \in Nat
        /\ \A j \in (p.entry + 1)..(i - 1) : e \notin Hears[subs[j].pattern]
    BY <1>1, <1>3, <1>7
  <2>3. at'[e] = At(i, 1, p.size) /\ at'[e] \in Position
    BY <1>1, <2>1, <2>2 DEF Position, At
  <2>4. at'[e].entry = i /\ at'[e].handler = 1 /\ at'[e].size = p.size
    BY <2>3 DEF At
  <2>5. 1 \in 1..subs[i].handlers
    BY <1>1, <2>2 DEF Entries
  <2> QED
    BY <1>1, <1>7, <2>1, <2>2, <2>3, <2>4, <2>5 DEF MoreHandlers
<1> QED
  BY <1>4, <1>5, <1>6, <1>7

LEMMA InitTyped == Init => Typed
<1> SUFFICES ASSUME Init PROVE Typed
  OBVIOUS
<1>1. /\ callbacks \in Seq({"disconnected", "reconnected", "closed"})
      /\ wire \in Seq(Events) /\ stored \in Seq(Events)
      /\ subs \in Seq([pattern : Patterns, handlers : 1..MaxHandlers])
      /\ heard \in [Events -> Seq(Registrations)]
  BY DEF Init
<1>2. at \in [Events -> Position] /\ drops \in 0..MaxDrops
  BY BusAssumption DEF Init, Position, Nowhere, At
<1>3. QED
  BY <1>1, <1>2 DEF Init, Typed, TypeOK

\* What a step of the dispatch of one event leaves typed.
LEMMA GoOnTyped ==
  ASSUME Typed, NEW e \in Events, NEW p \in Position, GoOn(e, p),
         p.entry \in 0..Len(subs),
         p.entry > 0 => p.handler \in 1..subs[p.entry].handlers,
         subs' = subs
  PROVE  /\ stage' \in [Events -> Stages] /\ at' \in [Events -> Position]
         /\ \A f \in Events : stage'[f] = "dispatching" =>
              at'[f].entry \in DOMAIN subs' /\ at'[f].handler \in 1..subs'[at'[f].entry].handlers
<1>1. stage \in [Events -> Stages] /\ at \in [Events -> Position]
  BY DEF Typed, TypeOK, Stages
<1>2. /\ stage' = [stage EXCEPT ![e] = stage'[e]] /\ at' = [at EXCEPT ![e] = at'[e]]
      /\ stage'[e] \in Stages /\ at'[e] \in Position
      /\ stage'[e] = "dispatching" =>
           /\ at'[e].entry \in DOMAIN subs
           /\ at'[e].handler \in 1..subs[at'[e].entry].handlers
  BY GoOnGoes DEF Stages
<1>3. stage' \in [Events -> Stages] /\ at' \in [Events -> Position]
  BY <1>1, <1>2
<1>4. ASSUME NEW f \in Events, f # e PROVE stage'[f] = stage[f] /\ at'[f] = at[f]
  BY <1>1, <1>2, <1>4
<1>5. QED
  BY <1>2, <1>3, <1>4 DEF Typed, TypeOK

\* Where publish() and a step of the dispatch enter the loops.
LEMMA Entering ==
  ASSUME Typed, NEW e \in Events
  PROVE  /\ At(0, 0, Len(subs)) \in Position
         /\ At(0, 0, Len(subs)).entry = 0 /\ At(0, 0, Len(subs)).size = Len(subs)
         /\ stage[e] = "dispatching" => /\ at[e] \in Position /\ at[e].entry \in 1..Len(subs)
                                        /\ at[e].handler \in 1..subs[at[e].entry].handlers
                                        /\ subs[at[e].entry].pattern \in Patterns
                                        /\ subs[at[e].entry].handlers \in 1..MaxHandlers
<1>1. subs \in Seq(Entries) /\ at[e] \in Position
  BY DEF Typed, TypeOK, Entries
<1>2. Len(subs) \in Nat /\ DOMAIN subs = 1..Len(subs) /\ \A j \in 1..Len(subs) : subs[j] \in Entries
  BY <1>1
<1>3. At(0, 0, Len(subs)) \in Position /\ At(0, 0, Len(subs)).entry = 0
      /\ At(0, 0, Len(subs)).size = Len(subs)
  BY <1>2 DEF At, Position
<1>4. QED
  BY <1>1, <1>2, <1>3 DEF Typed, TypeOK, Entries

\* subscribe(): a handler more for a pattern, or a pattern more.
LEMMA Subscribing ==
  ASSUME Typed, NEW p \in Patterns, Subscribe(p)
  PROVE  /\ subs' \in Seq(Entries) /\ (Len(subs') = Len(subs) \/ Len(subs') = Len(subs) + 1)
         /\ Len(subs) \in Nat
         /\ DOMAIN subs = 1..Len(subs) /\ DOMAIN subs' = 1..Len(subs')
         /\ \A j \in 1..Len(subs) : /\ subs'[j].pattern = subs[j].pattern
                                    /\ subs'[j].handlers >= subs[j].handlers
                                    /\ subs'[j].handlers \in Nat /\ subs[j].handlers \in Nat
         /\ Len(subs') = Len(subs) + 1 =>
              /\ subs'[Len(subs) + 1].pattern = p
              /\ \A j \in 1..Len(subs) : subs[j].pattern # p
              /\ late' = late \union {e \in Events : stage[e] = "dispatching"}
         /\ Len(subs') = Len(subs) => late' = late
<1>1. subs \in Seq(Entries) /\ MaxHandlers \in Nat
  BY BusAssumption DEF Typed, TypeOK, Entries
<1>2. Len(subs) \in Nat /\ DOMAIN subs = 1..Len(subs) /\ \A j \in 1..Len(subs) : subs[j] \in Entries
  BY <1>1
<1>3. \A j \in 1..Len(subs) : /\ subs[j].pattern \in Patterns /\ subs[j].handlers \in 1..MaxHandlers
                              /\ subs[j].handlers \in Nat
  BY <1>1, <1>2 DEF Entries
<1> DEFINE i == SelectInSeq(subs, LAMBDA s : s.pattern = p)
<1>4. \/ i = 0 /\ \A j \in 1..Len(subs) : subs[j].pattern # p
      \/ i \in 1..Len(subs) /\ subs[i].pattern = p
  BY <1>2, PatternLookup
<1>5. IF i > 0 THEN /\ subs[i].handlers < MaxHandlers
                    /\ subs' = [subs EXCEPT ![i].handlers = @ + 1] /\ late' = late
               ELSE /\ late' = late \union {e \in Events : stage[e] = "dispatching"}
                    /\ subs' = Append(subs, [pattern |-> p, handlers |-> 1])
  BY DEF Subscribe
<1> HIDE DEF i
<1>6. CASE i > 0
  <2>1. i \in 1..Len(subs)
    BY <1>4, <1>6
  <2> DEFINE more == [pattern |-> subs[i].pattern, handlers |-> subs[i].handlers + 1]
  <2>2. subs' = [subs EXCEPT ![i] = [subs[i] EXCEPT !.handlers = @ + 1]]
    BY <1>5, <1>6
  <2>3. [subs[i] EXCEPT !.handlers = @ + 1] = more
    BY <1>2, <2>1 DEF Entries
  <2>4. more \in Entries
    <3>1. subs[i].handlers + 1 \in 1..MaxHandlers /\ subs[i].pattern \in Patterns
      BY <1>1, <1>3, <1>5, <1>6, <2>1
    <3> QED
      BY <3>1 DEF Entries
  <2>5. more.pattern = subs[i].pattern /\ more.handlers = subs[i].handlers + 1
    OBVIOUS
  <2> HIDE DEF more
  <2>6. subs' = [subs EXCEPT ![i] = more]
    BY <2>2, <2>3
  <2>7. /\ subs' \in Seq(Entries) /\ Len(subs') = Len(subs)
        /\ \A j \in 1..Len(subs) : subs'[j] = IF j = i THEN more ELSE subs[j]
    BY <1>1, <2>1, <2>4, <2>6, ExceptSeq
  <2>8. DOMAIN subs' = 1..Len(subs')
    BY <2>7
  <2>9. \A j \in 1..Len(subs) : subs[j].handlers \in Nat
    BY <1>1, <1>3
  <2>10. ASSUME NEW j \in 1..Len(subs)
         PROVE  /\ subs'[j].pattern = subs[j].pattern /\ subs'[j].handlers >= subs[j].handlers
                /\ subs'[j].handlers \in Nat
    <3>1. CASE j = i
      BY <2>5, <2>7, <2>9, <3>1
    <3>2. CASE j # i
      BY <2>7, <2>9, <3>2
    <3> QED
      BY <3>1, <3>2
  <2>11. Len(subs') = Len(subs) /\ Len(subs) # Len(subs) + 1
    <3>1. Len(subs) \in Nat
      BY <1>2
    <3> QED
      BY <2>7, <3>1
  <2> QED
    BY <1>2, <1>5, <1>6, <2>7, <2>8, <2>9, <2>10, <2>11
<1>7. CASE ~(i > 0)
  <2>1. i = 0
    BY <1>4, <1>7, <1>2
  <2> DEFINE new == [pattern |-> p, handlers |-> 1]
  <2>2. /\ subs' = Append(subs, new)
        /\ late' = late \union {e \in Events : stage[e] = "dispatching"}
        /\ \A j \in 1..Len(subs) : subs[j].pattern # p
    BY <1>4, <1>5, <1>7, <2>1, <1>2
  <2>3. new \in Entries
    <3>1. 1 \in 1..MaxHandlers
      BY BusAssumption
    <3> QED
      BY <3>1 DEF Entries
  <2>0. new.pattern = p
    OBVIOUS
  <2> HIDE DEF new
  <2>4. /\ subs' \in Seq(Entries) /\ Len(subs') = Len(subs) + 1
        /\ subs'[Len(subs) + 1] = new
        /\ \A j \in 1..Len(subs) : subs'[j] = subs[j]
    BY <1>1, <2>2, <2>3, AppendProperties
  <2>5. DOMAIN subs' = 1..Len(subs')
    BY <2>4
  <2>6. \A j \in 1..Len(subs) : subs[j].handlers \in Nat
    BY <1>1, <1>3
  <2>7. Len(subs') = Len(subs) + 1 /\ Len(subs') # Len(subs)
    <3>1. Len(subs) \in Nat
      BY <1>2
    <3>2. Len(subs') = Len(subs) + 1
      BY <2>4
    <3> QED
      BY <3>1, <3>2
  <2>8. \A j \in 1..Len(subs) : /\ subs'[j].pattern = subs[j].pattern
                                /\ subs'[j].handlers >= subs[j].handlers
                                /\ subs'[j].handlers \in Nat /\ subs[j].handlers \in Nat
    BY <2>4, <2>6
  <2>9. subs'[Len(subs) + 1].pattern = p
    BY <2>0, <2>4
  <2>10. subs' \in Seq(Entries) /\ Len(subs) \in Nat /\ DOMAIN subs = 1..Len(subs)
    BY <1>2, <2>4
  <2> QED
    BY <2>2, <2>5, <2>7, <2>8, <2>9, <2>10
<1>8. QED
  BY <1>6, <1>7

LEMMA TypedStep == Typed /\ [Next]_vars => Typed'
<1> SUFFICES ASSUME Typed, [Next]_vars PROVE Typed'
  OBVIOUS
<1> USE DEF clientVars, serverVars, publishVars, consumerVars, localVars
<1>0. /\ callbacks \in Seq(Callbacks)
      /\ wire \in Seq(Events) /\ stored \in Seq(Events)
      /\ stage \in [Events -> Stages] /\ at \in [Events -> Position]
      /\ heard \in [Events -> Seq(Registrations)] /\ known \in [Events -> SUBSET Registrations]
  BY DEF Typed, TypeOK, Stages, Callbacks
<1>1. CASE Connect
  BY <1>1 DEF Connect, Typed, TypeOK
<1>2. CASE EnsureStreams
  BY <1>2 DEF EnsureStreams, Typed, TypeOK
<1>3. CASE Drop
  <2>1. drops' \in 0..MaxDrops
    BY <1>3, BusAssumption DEF Drop, Typed, TypeOK
  <2>2. "disconnected" \in Callbacks
    BY DEF Callbacks
  <2>3. callbacks' \in Seq(Callbacks)
    BY <1>0, <1>3, <2>2, AppendProperties DEF Drop
  <2>4. wire' \in Seq(Events)
    <3>1. wire' = wire \/ wire' = <<>>
      BY <1>3 DEF Drop
    <3>2. CASE wire' = wire
      BY <1>0, <3>2
    <3>3. CASE wire' = <<>>
      BY <3>3
    <3> QED
      BY <3>1, <3>2, <3>3
  <2> QED
    BY <1>3, <2>1, <2>3, <2>4 DEF Callbacks, Drop, Typed, TypeOK
<1>4. CASE Reconnect
  BY <1>4 DEF Reconnect, Typed, TypeOK
<1>5. CASE RunCallback
  <2>1. callbacks' \in Seq(Callbacks) /\ connected' \in BOOLEAN
    BY <1>0, <1>5, HeadTailProperties DEF RunCallback, FlagAfter
  <2> QED
    BY <1>5, <2>1 DEF Callbacks, RunCallback, Typed, TypeOK
<1>6. CASE CloseBegin
  BY <1>6 DEF CloseBegin, Typed, TypeOK
<1>7. CASE CloseEnd
  <2>1. callbacks' \in Seq(Callbacks)
    <3>1. "closed" \in Callbacks
      BY DEF Callbacks
    <3>2. callbacks' = callbacks \/ callbacks' = Append(callbacks, "closed")
      BY <1>7 DEF CloseEnd
    <3> QED
      <4>1. CASE callbacks' = callbacks
        BY <1>0, <4>1
      <4>2. CASE callbacks' = Append(callbacks, "closed")
        BY <1>0, <3>1, <4>2, AppendProperties
      <4> QED
        BY <3>2, <4>1, <4>2
  <2>2. link' \in {"none", "up", "down"}
    BY <1>7 DEF CloseEnd, Typed, TypeOK
  <2> QED
    BY <1>7, <2>1, <2>2 DEF Callbacks, CloseEnd, Typed, TypeOK
<1>8. ASSUME NEW e \in Events, Publish(e) PROVE Typed'
  <2>1. known' \in [Events -> SUBSET Registrations]
    BY <1>0, <1>8 DEF Publish
  <2>2. CASE connected /\ client /\ closing = "open"
    <3>0. wire' = Append(wire, e) /\ stage' = [stage EXCEPT ![e] = "sending"] /\ at' = at
      BY <1>8, <2>2 DEF Publish
    <3>1. wire' \in Seq(Events) /\ stage' \in [Events -> Stages]
      BY <1>0, <3>0 DEF Stages
    <3>2. \A f \in Events : stage'[f] = "dispatching" => stage[f] = "dispatching"
      BY <1>0, <3>0
    <3> QED
      BY <1>8, <2>1, <3>0, <3>1, <3>2 DEF Publish, Typed, TypeOK, Stages
  <2>3. CASE ~(connected /\ client /\ closing = "open")
    <3>1. GoOn(e, At(0, 0, Len(subs))) /\ wire' = wire /\ subs' = subs
      BY <1>8, <2>3 DEF Publish, EnterDispatch
    <3>2. At(0, 0, Len(subs)) \in Position /\ At(0, 0, Len(subs)).entry = 0 /\ 0 \in 0..Len(subs)
      BY <1>0, Entering DEF Typed, TypeOK
    <3>3. /\ stage' \in [Events -> Stages] /\ at' \in [Events -> Position]
          /\ \A f \in Events : stage'[f] = "dispatching" =>
               at'[f].entry \in DOMAIN subs' /\ at'[f].handler \in 1..subs'[at'[f].entry].handlers
      BY <3>1, <3>2, GoOnTyped
    <3> QED
      BY <1>8, <2>1, <3>1, <3>3 DEF Publish, Typed, TypeOK, Stages
  <2> QED
    BY <2>2, <2>3
<1>9. CASE Arrive
  <2>1. /\ Head(wire) \in Events /\ wire' \in Seq(Events) /\ stored' \in Seq(Events)
    BY <1>0, <1>9 DEF Arrive
  <2>2. reply' \in [Events -> {"none", "stored", "duplicate", "no_stream"}]
    BY <1>9 DEF Arrive, Typed, TypeOK
  <2> QED
    BY <1>9, <2>1, <2>2 DEF Arrive, Typed, TypeOK
<1>10. ASSUME NEW e \in Events, PublishReturns(e) PROVE Typed'
  <2>1. GoOn(e, At(0, 0, Len(subs))) /\ subs' = subs
    BY <1>10 DEF PublishReturns, EnterDispatch
  <2>2. At(0, 0, Len(subs)) \in Position /\ At(0, 0, Len(subs)).entry = 0 /\ 0 \in 0..Len(subs)
    BY <1>0, Entering DEF Typed, TypeOK
  <2>3. /\ stage' \in [Events -> Stages] /\ at' \in [Events -> Position]
        /\ \A f \in Events : stage'[f] = "dispatching" =>
             at'[f].entry \in DOMAIN subs' /\ at'[f].handler \in 1..subs'[at'[f].entry].handlers
    BY <2>1, <2>2, GoOnTyped
  <2>4. acked' \subseteq Events
    BY <1>10 DEF PublishReturns, Typed, TypeOK
  <2> QED
    BY <1>10, <2>1, <2>3, <2>4 DEF PublishReturns, Typed, TypeOK, Stages
<1>11. ASSUME NEW e \in Events, HandlerEnds(e) PROVE Typed'
  <2>1. GoOn(e, at[e]) /\ subs' = subs /\ stage[e] = "dispatching"
    BY <1>11 DEF HandlerEnds
  <2>2. /\ at[e] \in Position /\ at[e].entry \in 1..Len(subs)
        /\ at[e].handler \in 1..subs[at[e].entry].handlers
        /\ subs[at[e].entry].pattern \in Patterns
        /\ subs[at[e].entry].handlers \in 1..MaxHandlers
    BY <2>1, Entering
  <2>3. /\ stage' \in [Events -> Stages] /\ at' \in [Events -> Position]
        /\ \A f \in Events : stage'[f] = "dispatching" =>
             at'[f].entry \in DOMAIN subs' /\ at'[f].handler \in 1..subs'[at'[f].entry].handlers
    BY <2>1, <2>2, GoOnTyped
  <2>4. <<subs[at[e].entry].pattern, at[e].handler>> \in Registrations
    <3>1. at[e].handler \in 1..MaxHandlers
      BY <2>2, BusAssumption
    <3> QED
      BY <2>2, <3>1 DEF Registrations
  <2>5. heard' \in [Events -> Seq(Registrations)]
    BY <1>0, <1>11, <2>4 DEF HandlerEnds
  <2> QED
    BY <1>11, <2>1, <2>3, <2>5 DEF HandlerEnds, Typed, TypeOK, Stages
<1>12. ASSUME NEW p \in Patterns, Subscribe(p) PROVE Typed'
  <2>1. /\ subs' \in Seq(Entries) /\ DOMAIN subs \subseteq DOMAIN subs'
        /\ \A j \in DOMAIN subs : /\ subs'[j].handlers >= subs[j].handlers
                                  /\ subs'[j].handlers \in Nat /\ subs[j].handlers \in Nat
    <3>1. /\ subs' \in Seq(Entries) /\ (Len(subs') = Len(subs) \/ Len(subs') = Len(subs) + 1)
          /\ Len(subs) \in Nat
          /\ DOMAIN subs = 1..Len(subs) /\ DOMAIN subs' = 1..Len(subs')
          /\ \A j \in 1..Len(subs) : /\ subs'[j].handlers >= subs[j].handlers
                                     /\ subs'[j].handlers \in Nat /\ subs[j].handlers \in Nat
      BY <1>12, Subscribing
    <3>2. DOMAIN subs \subseteq DOMAIN subs'
      <4>1. \A m \in Nat : 1..m \subseteq 1..(m + 1)
        OBVIOUS
      <4>2. 1..Len(subs) \subseteq 1..(Len(subs) + 1)
        BY <3>1, <4>1
      <4>3. Len(subs') = Len(subs) \/ Len(subs') = Len(subs) + 1
        BY <3>1, Zenon
      <4>4. DOMAIN subs' = 1..Len(subs) \/ DOMAIN subs' = 1..(Len(subs) + 1)
        BY <3>1, <4>3, Zenon
      <4> QED
        BY <3>1, <4>2, <4>4, Zenon
    <3> QED
      BY <3>1, <3>2
  <2>2. UNCHANGED <<clientVars, serverVars, publishVars, consumerVars>>
    BY <1>12 DEF Subscribe
  <2>3. \A e \in Events : stage'[e] = "dispatching" =>
          at'[e].entry \in DOMAIN subs' /\ at'[e].handler \in 1..subs'[at'[e].entry].handlers
    <3> SUFFICES ASSUME NEW e \in Events, stage[e] = "dispatching"
                 PROVE  at[e].entry \in DOMAIN subs' /\ at[e].handler \in 1..subs'[at[e].entry].handlers
      BY <2>2
    <3>1. at[e].entry \in DOMAIN subs /\ at[e].handler \in 1..subs[at[e].entry].handlers
      BY DEF Typed, TypeOK
    <3> QED
      BY <2>1, <3>1
  <2>4. late' \subseteq Events
    BY <1>12 DEF Subscribe, Typed, TypeOK
  <2> QED
    BY <2>1, <2>2, <2>3, <2>4 DEF Typed, TypeOK, Entries
<1>13. CASE SubscribeJetstream
  BY <1>13 DEF SubscribeJetstream, Typed, TypeOK
<1>14. CASE Deliver
  <2>1. \A e \in ToSet(stored) : e \in Events
    BY <1>0 DEF ToSet
  <2>2. inHand' \subseteq [event : Events, at : {"handler", "ack"}]
    BY <1>14, <2>1 DEF Deliver
  <2> QED
    BY <1>14, <2>2 DEF Deliver, Typed, TypeOK
<1>15. CASE Handle
  <2> PICK m \in inHand : /\ HandlerReturns(m)
                          /\ inHand' = IF m.at = "handler" THEN {[m EXCEPT !.at = "ack"]} ELSE {}
                          /\ UNCHANGED <<clientVars, serverVars, publishVars, durable, localVars>>
    BY <1>15 DEF Handle
  <2>1. m \in [event : Events, at : {"handler", "ack"}]
    BY DEF Typed, TypeOK
  <2>2. m.event \in Events /\ [m EXCEPT !.at = "ack"] \in [event : Events, at : {"handler", "ack"}]
    BY <2>1
  <2>3. handled' \subseteq Events /\ consumed' \subseteq Events
    BY <2>2 DEF HandlerReturns, Typed, TypeOK
  <2> QED
    BY <2>2, <2>3 DEF Typed, TypeOK
<1>16. CASE HandlerRaises
  BY <1>16 DEF HandlerRaises, Typed, TypeOK
<1>17. CASE UNCHANGED vars
  BY <1>17 DEF vars, Typed, TypeOK
<1>18. QED
  BY <1>1, <1>2, <1>3, <1>4, <1>5, <1>6, <1>7, <1>8, <1>9, <1>10, <1>11, <1>12, <1>13, <1>14,
     <1>15, <1>16, <1>17 DEF Next, PublishStep

LEMMA TypedInvariance == Spec => []Typed
  BY InitTyped, TypedStep, PTL DEF Spec

--------------------------------------------------------------------------------
(* Local delivery.                                                           *)

\* Handler h of entry i comes before handler k of entry n.
Before(i, h, n, k) == i < n \/ (i = n /\ h < k)

\* A registration of an event e that has a place in the list.
Stands(e, r) ==
  e \in Hears[r[1]] /\ \E i \in 1..Len(subs) : subs[i].pattern = r[1] /\ r[2] <= subs[i].handlers

\* H holds registrations before position (n, k) only, and those of K all.
Visited(K, H, n, k) ==
  /\ \A m \in DOMAIN H :
       \E i \in 1..Len(subs) : subs[i].pattern = H[m][1] /\ Before(i, H[m][2], n, k)
  /\ \A r \in K : \A i \in 1..Len(subs) :
       subs[i].pattern = r[1] /\ Before(i, r[2], n, k) => r \in ToSet(H)

KnownStand == \A e \in Events : \A r \in known[e] : Stands(e, r)

EntryPerPattern ==
  \A i, j \in 1..Len(subs) : subs[i].pattern = subs[j].pattern => i = j

Underway ==
  \A e \in Events :
    /\ stage[e] = "dispatching" => Visited(known[e], heard[e], at[e].entry, at[e].handler)
    /\ stage[e] = "dispatching" =>
         at[e].size <= Len(subs) /\ (at[e].size = Len(subs) <=> e \notin late)
    /\ stage[e] \in {"idle", "sending"} => heard[e] = <<>> /\ e \notin late

DeliveryInductive ==
  Typed /\ KnownStand /\ EntryPerPattern /\ Underway /\ HeardByAll /\ RaisesForNewPatterns

\* When the loops go on from a position up to which all were invoked, either
\* all before the new position were, or all were.
LEMMA GoOnDelivers ==
  ASSUME Typed, EntryPerPattern, NEW e \in Events, NEW p \in Position, GoOn(e, p),
         p.entry \in 0..Len(subs),
         p.entry > 0 => p.handler \in 1..subs[p.entry].handlers,
         NEW K \in SUBSET Registrations, \A r \in K : Stands(e, r),
         NEW H, Visited(K, H, p.entry, p.handler + 1)
  PROVE  /\ stage'[e] = "dispatching" => Visited(K, H, at'[e].entry, at'[e].handler)
         /\ stage'[e] = "done" => K \subseteq ToSet(H)
<1>1. /\ Len(subs) \in Nat /\ MaxHandlers \in Nat
      /\ \A i \in 1..Len(subs) : subs[i].handlers \in Nat
      /\ p.entry \in Nat /\ p.handler \in Nat
  <2>1. subs \in Seq(Entries) /\ MaxHandlers \in Nat
    BY BusAssumption DEF Typed, TypeOK, Entries
  <2>2. Len(subs) \in Nat /\ \A i \in 1..Len(subs) : subs[i] \in Entries
    BY <2>1
  <2> QED
    BY <2>1, <2>2 DEF Entries, Position
<1>2. \A r \in K : r[2] \in Nat /\ r[2] >= 1
  BY <1>1 DEF Registrations
<1>3. \A r \in K : \A i \in 1..Len(subs) : subs[i].pattern = r[1] => e \in Hears[subs[i].pattern]
  BY DEF Stands
<1>4. ASSUME stage'[e] = "dispatching", p.entry > 0, p.handler < subs[p.entry].handlers,
             at'[e].entry = p.entry, at'[e].handler = p.handler + 1
      PROVE  Visited(K, H, at'[e].entry, at'[e].handler)
  BY <1>4
<1>5. ASSUME NEW n \in Nat, n > p.entry, p.entry > 0 => p.handler = subs[p.entry].handlers,
             \A j \in (p.entry + 1)..(n - 1) : e \notin Hears[subs[j].pattern]
      PROVE  /\ \A m \in DOMAIN H :
                  \E i \in 1..Len(subs) : subs[i].pattern = H[m][1] /\ Before(i, H[m][2], n, 1)
             /\ \A r \in K : \A i \in 1..Len(subs) :
                  subs[i].pattern = r[1] /\ i < n => i <= p.entry
  <2>1. ASSUME NEW m \in DOMAIN H
        PROVE  \E i \in 1..Len(subs) : subs[i].pattern = H[m][1] /\ Before(i, H[m][2], n, 1)
    <3>1. PICK i \in 1..Len(subs) : subs[i].pattern = H[m][1]
                                    /\ Before(i, H[m][2], p.entry, p.handler + 1)
      BY DEF Visited
    <3>2. i < n
      BY <1>1, <1>5, <3>1 DEF Before
    <3> QED
      BY <3>1, <3>2 DEF Before
  <2>2. ASSUME NEW r \in K, NEW i \in 1..Len(subs), subs[i].pattern = r[1], i < n
        PROVE  i <= p.entry
    <3>1. e \in Hears[subs[i].pattern]
      BY <1>3, <2>2
    <3>2. ~(i \in (p.entry + 1)..(n - 1))
      BY <1>5, <3>1
    <3> QED
      BY <1>1, <2>2, <3>2
  <2> QED
    BY <2>1, <2>2
<1>6. ASSUME NEW r \in K, NEW i \in 1..Len(subs), subs[i].pattern = r[1], i <= p.entry,
             p.entry > 0 => p.handler = subs[p.entry].handlers
      PROVE  r \in ToSet(H)
  <2>1. PICK j \in 1..Len(subs) : subs[j].pattern = r[1] /\ r[2] <= subs[j].handlers
    BY DEF Stands
  <2>2. j = i
    BY <1>6, <2>1 DEF EntryPerPattern
  <2>3. i < p.entry \/ (i = p.entry /\ r[2] < p.handler + 1)
    BY <1>1, <1>2, <1>6, <2>1, <2>2
  <2> QED
    BY <1>6, <2>3 DEF Visited, Before
<1>7. CASE stage'[e] = "dispatching"
  <2>1. \/ /\ p.entry > 0 /\ p.handler < subs[p.entry].handlers
           /\ at'[e].entry = p.entry /\ at'[e].handler = p.handler + 1
        \/ /\ p.entry > 0 => p.handler = subs[p.entry].handlers
           /\ at'[e].entry > p.entry /\ at'[e].handler = 1
           /\ \A j \in (p.entry + 1)..(at'[e].entry - 1) : e \notin Hears[subs[j].pattern]
    BY <1>7, GoOnGoes
  <2>2. at'[e].entry \in Nat
    BY GoOnGoes DEF Position
  <2>3. ASSUME p.entry > 0 => p.handler = subs[p.entry].handlers,
               at'[e].entry > p.entry, at'[e].handler = 1,
               \A j \in (p.entry + 1)..(at'[e].entry - 1) : e \notin Hears[subs[j].pattern]
        PROVE  Visited(K, H, at'[e].entry, at'[e].handler)
    <3>1. \A m \in DOMAIN H : \E i \in 1..Len(subs) :
            subs[i].pattern = H[m][1] /\ Before(i, H[m][2], at'[e].entry, 1)
      BY <1>5, <2>2, <2>3
    <3>2. \A r \in K : \A i \in 1..Len(subs) :
            subs[i].pattern = r[1] /\ i < at'[e].entry => r \in ToSet(H)
      BY <1>5, <1>6, <2>2, <2>3
    <3>3. \A r \in K : \A i \in 1..Len(subs) : Before(i, r[2], at'[e].entry, 1) => i < at'[e].entry
      BY <1>2, <2>2 DEF Before
    <3> QED
      BY <2>3, <3>1, <3>2, <3>3 DEF Visited
  <2> QED
    BY <1>4, <1>7, <2>1, <2>3
<1>8. CASE stage'[e] = "done"
  <2>1. /\ p.entry > 0 => p.handler = subs[p.entry].handlers
        /\ \A j \in (p.entry + 1)..Len(subs) : e \notin Hears[subs[j].pattern]
    BY <1>8, GoOnGoes
  <2> SUFFICES ASSUME NEW r \in K PROVE r \in ToSet(H)
    BY <1>8
  <2>2. PICK i \in 1..Len(subs) : subs[i].pattern = r[1]
    BY DEF Stands
  <2>3. i <= p.entry
    BY <1>1, <1>3, <2>1, <2>2
  <2> QED
    BY <1>6, <2>1, <2>2, <2>3
<1> QED
  BY <1>7, <1>8

Delivery == KnownStand /\ EntryPerPattern /\ Underway /\ HeardByAll /\ RaisesForNewPatterns

\* Steps that touch neither the subscribers nor a dispatch.
LEMMA ElsewhereDelivery ==
  ASSUME Delivery, UNCHANGED <<subs, late, stage, at, known, heard>>
  PROVE  Delivery'
<1>1. KnownStand' /\ EntryPerPattern'
  BY DEF Delivery, KnownStand, EntryPerPattern, Stands
<1>2. Underway'
  BY DEF Delivery, Underway, Visited
<1>3. HeardByAll' /\ RaisesForNewPatterns'
  BY DEF Delivery, HeardByAll, RaisesForNewPatterns
<1> QED
  BY <1>1, <1>2, <1>3 DEF Delivery

\* A step of the publisher of one event.
LEMMA OneEventDelivery ==
  ASSUME Delivery, NEW e \in Events, subs' = subs, late' = late,
         \A f \in Events \ {e} : /\ stage'[f] = stage[f] /\ at'[f] = at[f]
                                 /\ known'[f] = known[f] /\ heard'[f] = heard[f],
         \A r \in known'[e] : Stands(e, r),
         IsInjective(heard'[e]),
         stage'[e] = "dispatching" => Visited(known'[e], heard'[e], at'[e].entry, at'[e].handler),
         stage'[e] = "dispatching" => at'[e].size <= Len(subs) /\ (at'[e].size = Len(subs) <=> e \notin late),
         stage'[e] \in {"idle", "sending"} => heard'[e] = <<>> /\ e \notin late,
         stage'[e] = "done" => known'[e] \subseteq ToSet(heard'[e]),
         stage'[e] = "raised" => e \in late, stage'[e] = "done" => e \notin late
  PROVE  Delivery'
<1>1. KnownStand'
  BY DEF Delivery, KnownStand, Stands
<1>2. EntryPerPattern'
  BY DEF Delivery, EntryPerPattern
<1>3. Underway'
  <2> SUFFICES ASSUME NEW f \in Events
               PROVE  /\ stage'[f] = "dispatching" => Visited(known[f], heard[f], at[f].entry, at[f].handler)'
                      /\ stage'[f] = "dispatching" =>
                           at'[f].size <= Len(subs') /\ (at'[f].size = Len(subs') <=> f \notin late')
                      /\ stage'[f] \in {"idle", "sending"} => heard'[f] = <<>> /\ f \notin late'
    BY DEF Underway
  <2>1. CASE f = e
    BY <2>1 DEF Visited
  <2>2. CASE f # e
    BY <2>2 DEF Visited, Delivery, Underway
  <2> QED
    BY <2>1, <2>2
<1>4. HeardByAll'
  <2> SUFFICES ASSUME NEW f \in Events
               PROVE  IsInjective(heard'[f]) /\ (stage'[f] = "done" => known'[f] \subseteq ToSet(heard'[f]))
    BY DEF HeardByAll, IsInjective, ToSet
  <2>1. CASE f = e
    BY <2>1
  <2>2. CASE f # e
    BY <2>2 DEF Delivery, HeardByAll
  <2> QED
    BY <2>1, <2>2
<1>5. RaisesForNewPatterns'
  BY DEF Delivery, RaisesForNewPatterns
<1> QED
  BY <1>1, <1>2, <1>3, <1>4, <1>5 DEF Delivery

\* A dispatch that begins: nothing has been heard, the dict has its size.
LEMMA EnteringDelivers ==
  ASSUME Typed, Delivery, NEW e \in Events, EnterDispatch(e), subs' = subs, late' = late, heard' = heard,
         stage[e] \in {"idle", "sending"},
         known'[e] \in SUBSET Registrations, \A r \in known'[e] : Stands(e, r),
         \A f \in Events \ {e} : known'[f] = known[f]
  PROVE  Delivery'
<1> DEFINE p == At(0, 0, Len(subs))
<1>1. /\ GoOn(e, p) /\ p \in Position /\ p.entry = 0 /\ p.handler = 0 /\ p.size = Len(subs)
      /\ p.entry \in 0..Len(subs)
  <2>1. subs \in Seq(Entries)
    BY DEF Typed, TypeOK, Entries
  <2>2. 0 \in 0..Len(subs)
    BY <2>1
  <2>3. p.handler = 0
    BY DEF At
  <2> QED
    BY <2>2, <2>3, Entering DEF EnterDispatch
<1> HIDE DEF p
<1>2. heard[e] = <<>> /\ e \notin late /\ EntryPerPattern
  BY DEF Delivery, Underway
<1>3. Visited(known'[e], heard[e], p.entry, p.handler + 1)
  <2>1. \A i \in 1..Len(subs) : ~(i < 0) /\ i # 0
    <3>1. subs \in Seq(Entries)
      BY DEF Typed, TypeOK, Entries
    <3> QED
      BY <3>1
  <2>2. DOMAIN heard[e] = {}
    BY <1>2
  <2> QED
    BY <1>1, <2>1, <2>2 DEF Visited, Before
<1>4. /\ stage'[e] = "dispatching" => Visited(known'[e], heard[e], at'[e].entry, at'[e].handler)
      /\ stage'[e] = "done" => known'[e] \subseteq ToSet(heard[e])
  BY <1>1, <1>2, <1>3, GoOnDelivers
<1>5. /\ stage' = [stage EXCEPT ![e] = stage'[e]] /\ at' = [at EXCEPT ![e] = at'[e]]
      /\ stage'[e] \in {"dispatching", "raised", "done"}
      /\ stage'[e] = "dispatching" => at'[e].size = p.size
      /\ stage'[e] # "raised" /\ p.size <= Len(subs)
  <2>1. subs \in Seq(Entries)
    BY DEF Typed, TypeOK, Entries
  <2>2. p.size <= Len(subs)
    BY <1>1, <2>1
  <2> QED
    BY <1>1, <2>2, GoOnGoes
<1>6. \A f \in Events \ {e} : stage'[f] = stage[f] /\ at'[f] = at[f]
  BY <1>5 DEF Typed, TypeOK
<1>7. IsInjective(heard[e])
  BY DEF Delivery, HeardByAll
<1> QED
  BY <1>1, <1>2, <1>4, <1>5, <1>6, <1>7, OneEventDelivery

\* A local handler has been invoked: it was not before, and the loops go on.
LEMMA HandlerDelivers ==
  ASSUME Typed, Delivery, NEW e \in Events, HandlerEnds(e)
  PROVE  Delivery'
<1> DEFINE p == at[e]
           new == <<subs[at[e].entry].pattern, at[e].handler>>
           H == Append(heard[e], new)
<1>1. /\ stage[e] = "dispatching" /\ GoOn(e, p) /\ UNCHANGED <<known, subs, late>>
      /\ heard' = [heard EXCEPT ![e] = Append(@, new)]
  BY DEF HandlerEnds, publishVars, clientVars, serverVars, consumerVars, localVars
<1>2. /\ p \in Position /\ p.entry \in 1..Len(subs) /\ p.handler \in 1..subs[p.entry].handlers
      /\ subs[p.entry].pattern \in Patterns /\ subs[p.entry].handlers \in 1..MaxHandlers
  BY <1>1, Entering
<1>3. /\ heard \in [Events -> Seq(Registrations)] /\ known[e] \in SUBSET Registrations
      /\ p.entry \in Nat /\ p.handler \in Nat /\ Len(subs) \in Nat /\ p.entry \in 0..Len(subs)
  <2>1. subs \in Seq(Entries)
    BY DEF Typed, TypeOK, Entries
  <2> QED
    BY <1>2, <2>1 DEF Typed, TypeOK, Position
<1>4. new \in Registrations
  <2>1. p.handler \in 1..MaxHandlers
    BY <1>2, BusAssumption
  <2> QED
    BY <1>2, <2>1 DEF Registrations
<1>5. heard'[e] = H /\ \A f \in Events \ {e} : heard'[f] = heard[f]
  BY <1>1, <1>3
<1> DEFINE L == Len(heard[e])
<1>6. /\ L \in Nat /\ DOMAIN heard[e] = 1..L /\ DOMAIN H = 1..(L + 1)
      /\ \A m \in 1..L : H[m] = heard[e][m]
      /\ H[L + 1] = new
  <2>1. heard[e] \in Seq(Registrations)
    BY <1>3
  <2> HIDE DEF new
  <2> QED
    BY <1>4, <2>1, AppendProperties
<1>7. Visited(known[e], heard[e], p.entry, p.handler) /\ EntryPerPattern
  BY <1>1 DEF Delivery, Underway
<1>8. new[1] = subs[p.entry].pattern /\ new[2] = p.handler
  OBVIOUS
<1>9. \A m \in 1..L : heard[e][m] # new
  <2> SUFFICES ASSUME NEW m \in 1..L, heard[e][m] = new PROVE FALSE
    OBVIOUS
  <2>1. PICK i \in 1..Len(subs) : subs[i].pattern = new[1] /\ Before(i, new[2], p.entry, p.handler)
    BY <1>6, <1>7 DEF Visited
  <2>2. i = p.entry
    BY <1>2, <1>7, <1>8, <2>1 DEF EntryPerPattern
  <2> QED
    BY <1>3, <1>8, <2>1, <2>2 DEF Before
<1> HIDE DEF new, H, L, p
<1>10. IsInjective(H)
  <2>1. IsInjective(heard[e])
    BY DEF Delivery, HeardByAll
  <2>2. \A a, b \in 1..L : H[a] = H[b] => a = b
    BY <1>6, <2>1 DEF IsInjective
  <2>3. \A a \in 1..L : H[a] # H[L + 1]
    BY <1>6, <1>9
  <2>4. \A a \in 1..(L + 1) : a \in 1..L \/ a = L + 1
    BY <1>6
  <2> QED
    BY <1>6, <2>2, <2>3, <2>4 DEF IsInjective
<1>11. ToSet(H) = ToSet(heard[e]) \union {new}
  <2>1. \A a \in 1..(L + 1) : a \in 1..L \/ a = L + 1
    BY <1>6
  <2>2. \A a \in 1..L : a \in 1..(L + 1)
    BY <1>6
  <2>3. L + 1 \in 1..(L + 1)
    BY <1>6
  <2> QED
    BY <1>6, <2>1, <2>2, <2>3 DEF ToSet
<1>12. Visited(known[e], H, p.entry, p.handler + 1)
  <2>1. ASSUME NEW m \in DOMAIN H
        PROVE  \E i \in 1..Len(subs) :
                 subs[i].pattern = H[m][1] /\ Before(i, H[m][2], p.entry, p.handler + 1)
    <3>1. CASE m = L + 1
      <4>1. Before(p.entry, p.handler, p.entry, p.handler + 1)
        BY <1>3 DEF Before
      <4> QED
        BY <1>2, <1>6, <1>8, <3>1, <4>1
    <3>2. CASE m \in 1..L
      <4>1. PICK i \in 1..Len(subs) :
              subs[i].pattern = H[m][1] /\ Before(i, H[m][2], p.entry, p.handler)
        BY <1>6, <1>7, <3>2 DEF Visited
      <4>2. heard[e][m] \in Registrations
        BY <1>3, <1>6, <3>2
      <4>3. H[m][2] \in Nat
        BY <1>6, <3>2, <4>2, BusAssumption DEF Registrations
      <4>4. Before(i, H[m][2], p.entry, p.handler + 1)
        BY <1>3, <4>1, <4>3 DEF Before
      <4> QED
        BY <4>1, <4>4
    <3> QED
      BY <1>6, <3>1, <3>2
  <2>2. ASSUME NEW r \in known[e], NEW i \in 1..Len(subs), subs[i].pattern = r[1],
               Before(i, r[2], p.entry, p.handler + 1)
        PROVE  r \in ToSet(H)
    <3>1. CASE Before(i, r[2], p.entry, p.handler)
      BY <1>7, <1>11, <2>2, <3>1 DEF Visited
    <3>2. CASE ~Before(i, r[2], p.entry, p.handler)
      <4>1. r[2] \in Nat /\ r = <<r[1], r[2]>>
        BY <1>3, BusAssumption DEF Registrations
      <4>2. i = p.entry /\ r[2] = p.handler
        BY <1>3, <2>2, <3>2, <4>1 DEF Before
      <4>3. r = new
        BY <2>2, <4>1, <4>2 DEF new, p
      <4> QED
        BY <1>11, <4>3
    <3> QED
      BY <3>1, <3>2
  <2> QED
    BY <2>1, <2>2 DEF Visited
<1>13. \A r \in known[e] : Stands(e, r)
  BY DEF Delivery, KnownStand
<1>14. /\ stage'[e] = "dispatching" => Visited(known[e], H, at'[e].entry, at'[e].handler)
       /\ stage'[e] = "done" => known[e] \subseteq ToSet(H)
  BY <1>1, <1>2, <1>3, <1>7, <1>12, <1>13, GoOnDelivers
<1>15. /\ stage' = [stage EXCEPT ![e] = stage'[e]] /\ at' = [at EXCEPT ![e] = at'[e]]
       /\ stage'[e] \in {"dispatching", "raised", "done"}
       /\ stage'[e] = "dispatching" => at'[e].size = p.size
       /\ stage'[e] = "done" => p.size = Len(subs)
       /\ stage'[e] = "raised" => p.size # Len(subs)
  BY <1>1, <1>2, <1>3, GoOnGoes
<1>16. \A f \in Events \ {e} : stage'[f] = stage[f] /\ at'[f] = at[f]
  BY <1>15 DEF Typed, TypeOK
<1>17. p.size <= Len(subs) /\ (p.size = Len(subs) <=> e \notin late)
  BY <1>1 DEF Delivery, Underway, p
<1> QED
  BY <1>1, <1>5, <1>10, <1>13, <1>14, <1>15, <1>16, <1>17, OneEventDelivery

\* subscribe(): what has its place in the list keeps it; a pattern that is new
\* goes to the end, behind every position.
LEMMA SubscribeDelivers ==
  ASSUME Typed, Delivery, NEW p \in Patterns, Subscribe(p)
  PROVE  Delivery'
<1>1. UNCHANGED <<stage, at, known, heard>>
  BY DEF Subscribe, publishVars
<1>2. /\ Len(subs) \in Nat /\ (Len(subs') = Len(subs) \/ Len(subs') = Len(subs) + 1)
      /\ \A j \in 1..Len(subs) : /\ subs'[j].pattern = subs[j].pattern
                                 /\ subs'[j].handlers >= subs[j].handlers
                                 /\ subs'[j].handlers \in Nat /\ subs[j].handlers \in Nat
      /\ Len(subs') = Len(subs) + 1 =>
           /\ subs'[Len(subs) + 1].pattern = p
           /\ \A j \in 1..Len(subs) : subs[j].pattern # p
           /\ late' = late \union {e \in Events : stage[e] = "dispatching"}
      /\ Len(subs') = Len(subs) => late' = late
  BY Subscribing
<1> DEFINE n == Len(subs)
<1>3. \A j \in 1..n : j \in 1..Len(subs')
  BY <1>2
<1>4. \A j \in 1..Len(subs') : j \in 1..n \/ (j = n + 1 /\ Len(subs') = n + 1)
  BY <1>2
<1>5. KnownStand'
  <2> SUFFICES ASSUME NEW e \in Events, NEW r \in known[e] PROVE Stands(e, r)'
    BY <1>1 DEF KnownStand
  <2>1. e \in Hears[r[1]]
    BY DEF Delivery, KnownStand, Stands
  <2>2. PICK i \in 1..n : subs[i].pattern = r[1] /\ r[2] <= subs[i].handlers
    BY DEF Delivery, KnownStand, Stands
  <2>3. r[2] \in Nat
    BY BusAssumption DEF Typed, TypeOK, Registrations
  <2>4. r[2] <= subs'[i].handlers
    BY <1>2, <2>2, <2>3
  <2> QED
    BY <1>2, <1>3, <2>1, <2>2, <2>4 DEF Stands
<1>6. EntryPerPattern'
  <2> SUFFICES ASSUME NEW i \in 1..Len(subs'), NEW j \in 1..Len(subs'),
                      subs'[i].pattern = subs'[j].pattern
               PROVE  i = j
    BY DEF EntryPerPattern
  <2>1. CASE i \in 1..n /\ j \in 1..n
    BY <1>2, <2>1 DEF Delivery, EntryPerPattern
  <2>2. CASE ~(i \in 1..n) \/ ~(j \in 1..n)
    BY <1>2, <1>4, <2>2
  <2> QED
    BY <2>1, <2>2
<1>7. Underway'
  <2>0. \A e \in Events : stage[e] \in {"idle", "sending"} => heard[e] = <<>> /\ e \notin late'
    BY <1>2 DEF Underway, Delivery
  <2> SUFFICES ASSUME NEW e \in Events, stage[e] = "dispatching"
               PROVE  /\ Visited(known[e], heard[e], at[e].entry, at[e].handler)'
                      /\ at[e].size <= Len(subs') /\ (at[e].size = Len(subs') <=> e \notin late')
    BY <1>1, <2>0 DEF Underway
  <2>1. Visited(known[e], heard[e], at[e].entry, at[e].handler)
    BY DEF Delivery, Underway
  <2>2. at[e].entry \in 1..n
    BY Entering
  <2>3. \A h : ~Before(n + 1, h, at[e].entry, at[e].handler)
    BY <1>2, <2>2 DEF Before
  <2>4. ASSUME NEW m \in DOMAIN heard[e]
        PROVE  \E i \in 1..Len(subs') : /\ subs'[i].pattern = heard[e][m][1]
                                        /\ Before(i, heard[e][m][2], at[e].entry, at[e].handler)
    BY <1>2, <1>3, <2>1 DEF Visited
  <2>5. ASSUME NEW r \in known[e], NEW i \in 1..Len(subs'), subs'[i].pattern = r[1],
               Before(i, r[2], at[e].entry, at[e].handler)
        PROVE  r \in ToSet(heard[e])
    <3>1. i \in 1..n
      BY <1>4, <2>3, <2>5
    <3> QED
      BY <1>2, <2>1, <2>5, <3>1 DEF Visited
  <2>6. at[e].size <= Len(subs') /\ (at[e].size = Len(subs') <=> e \notin late')
    <3>1. at[e].size <= n /\ (at[e].size = n <=> e \notin late) /\ at[e].size \in Nat
      BY DEF Delivery, Underway, Typed, Position
    <3>2. CASE Len(subs') = n
      BY <1>2, <3>1, <3>2
    <3>3. CASE Len(subs') = n + 1
      BY <1>2, <3>1, <3>3
    <3> QED
      BY <1>2, <3>2, <3>3
  <2> QED
    BY <1>1, <2>4, <2>5, <2>6 DEF Visited
<1>8. HeardByAll' /\ RaisesForNewPatterns'
  <2>1. \A e \in Events : stage[e] \in {"done", "raised"} => (e \in late' <=> e \in late)
    BY <1>2
  <2> QED
    BY <1>1, <2>1 DEF Delivery, HeardByAll, RaisesForNewPatterns
<1> QED
  BY <1>5, <1>6, <1>7, <1>8 DEF Delivery

LEMMA PublishDelivers ==
  ASSUME Typed, Typed', Delivery, NEW e \in Events, Publish(e)
  PROVE  Delivery'
<1>1. /\ stage[e] = "idle" /\ subs' = subs /\ late' = late /\ heard' = heard
      /\ known' = [known EXCEPT ![e] = {r \in Registrations : Registered(r) /\ e \in Hears[r[1]]}]
  BY DEF Publish, consumerVars, clientVars, localVars
<1>2. /\ known'[e] = {r \in Registrations : Registered(r) /\ e \in Hears[r[1]]}
      /\ \A f \in Events \ {e} : known'[f] = known[f]
  BY <1>1 DEF Typed, TypeOK
<1>3. known'[e] \in SUBSET Registrations
  BY <1>2
<1>4. ASSUME NEW r \in known'[e] PROVE Stands(e, r)
  <2>1. PICK s \in ToSet(subs) : s.pattern = r[1] /\ r[2] <= s.handlers
    BY <1>2 DEF Registered
  <2>2. PICK i \in DOMAIN subs : s = subs[i]
    BY DEF ToSet
  <2>3. DOMAIN subs = 1..Len(subs)
    <3>1. subs \in Seq(Entries)
      BY DEF Typed, TypeOK, Entries
    <3> QED
      BY <3>1
  <2> QED
    BY <1>2, <2>1, <2>2, <2>3 DEF Stands
<1>5. CASE connected /\ client /\ closing = "open"
  <2>1. stage' = [stage EXCEPT ![e] = "sending"] /\ at' = at
    BY <1>5 DEF Publish
  <2>2. stage'[e] = "sending" /\ \A f \in Events \ {e} : stage'[f] = stage[f]
    BY <2>1 DEF Typed, TypeOK
  <2>3. IsInjective(heard'[e]) /\ heard'[e] = <<>> /\ e \notin late
    BY <1>1 DEF Delivery, HeardByAll, Underway
  <2> QED
    BY <1>1, <1>2, <1>4, <2>1, <2>2, <2>3, OneEventDelivery
<1>6. CASE ~(connected /\ client /\ closing = "open")
  <2>1. EnterDispatch(e)
    BY <1>6 DEF Publish
  <2> QED
    BY <1>1, <1>2, <1>3, <1>4, <2>1, EnteringDelivers
<1> QED
  BY <1>5, <1>6

LEMMA DeliveryStep == Typed /\ Typed' /\ Delivery /\ [Next]_vars => Delivery'
<1> SUFFICES ASSUME Typed, Typed', Delivery, [Next]_vars PROVE Delivery'
  OBVIOUS
<1> USE DEF clientVars, serverVars, publishVars, consumerVars, localVars
<1>1. ASSUME \/ Connect \/ EnsureStreams \/ Drop \/ Reconnect \/ RunCallback \/ CloseBegin
             \/ CloseEnd \/ Arrive \/ SubscribeJetstream \/ Deliver \/ Handle \/ HandlerRaises
             \/ UNCHANGED vars
      PROVE  Delivery'
  <2>1. UNCHANGED <<subs, late, stage, at, known, heard>>
    BY <1>1 DEF Connect, EnsureStreams, Drop, Reconnect, RunCallback, CloseBegin, CloseEnd,
       Arrive, SubscribeJetstream, Deliver, Handle, HandlerRaises, vars
  <2> QED
    BY <2>1, ElsewhereDelivery
<1>2. ASSUME NEW e \in Events, PublishReturns(e) PROVE Delivery'
  <2>1. /\ stage[e] = "sending" /\ EnterDispatch(e) /\ subs' = subs /\ late' = late
        /\ heard' = heard /\ known' = known
    BY <1>2 DEF PublishReturns
  <2>2. known'[e] \in SUBSET Registrations /\ \A r \in known'[e] : Stands(e, r)
    BY <2>1 DEF Typed, TypeOK, Delivery, KnownStand
  <2> QED
    BY <2>1, <2>2, EnteringDelivers
<1> QED
  BY <1>1, <1>2, PublishDelivers, HandlerDelivers, SubscribeDelivers DEF Next, PublishStep

LEMMA InitDelivery == Init => Delivery
<1> SUFFICES ASSUME Init PROVE Delivery
  OBVIOUS
<1>1. Len(subs) = 0 /\ late = {} /\ \A e \in Events : known[e] = {} /\ heard[e] = <<>> /\ stage[e] = "idle"
  BY DEF Init
<1>2. 1..Len(subs) = {}
  BY <1>1
<1> QED
  BY <1>1, <1>2 DEF Delivery, KnownStand, EntryPerPattern, Underway, HeardByAll,
     RaisesForNewPatterns, IsInjective

\* Every local subscriber there is when publish() is called hears the event,
\* once, in every list of patterns and handlers, whatever is added to it while
\* the dispatch runs and whatever becomes of the connection.
THEOREM SubscribersHear == Spec => []LocalDelivery
<1>1. Typed /\ Delivery => LocalDelivery
  BY DEF Typed, Delivery, LocalDelivery
<1> QED
  BY <1>1, TypedInvariance, InitDelivery, DeliveryStep, PTL DEF Spec

\* publish() raises for a pattern that is new while one of its handlers runs, and
\* for nothing else: the size that a dispatch has begun with is that of the list
\* until then, and is not from then on.
THEOREM RaisesAreForNewPatterns == Spec => []RaisesForNewPatterns
<1>1. Delivery => RaisesForNewPatterns
  BY DEF Delivery
<1> QED
  BY <1>1, TypedInvariance, InitDelivery, DeliveryStep, PTL DEF Spec

--------------------------------------------------------------------------------
(* Acknowledgements.                                                         *)

\* What the server answered, and what the consumer is about to tell it, is so.
Acknowledged ==
  /\ \A e \in Events : reply[e] \in {"stored", "duplicate"} => e \in ToSet(stored)
  /\ AckedIsStored
  /\ \A m \in inHand : m.at = "ack" => m.event \in handled
  /\ HandledBeforeAck

\* Events of one class have message identifiers of their own.
OwnIdentifiers ==
  \A e, f \in Events : Correlation[e] = Correlation[f] /\ Class[e] = Class[f] => e = f

LEMMA AcknowledgedStep ==
  ASSUME OwnIdentifiers, Typed, Acknowledged, [Next]_vars
  PROVE  Acknowledged'
<1> USE DEF Acknowledged, clientVars, serverVars, publishVars, consumerVars
<1>1. ASSUME UNCHANGED <<reply, stored, acked, inHand, handled, consumed>>
      PROVE  Acknowledged'
  BY <1>1 DEF AckedIsStored, HandledBeforeAck
<1>2. CASE Arrive
  <2> DEFINE e == Head(wire)
             answer == IF StreamsFor(e) \intersect streams = {} THEN "no_stream"
                       ELSE IF \E f \in ToSet(stored) : MsgId(f) = MsgId(e) /\ Class[f] = Class[e]
                         THEN "duplicate" ELSE "stored"
  <2>1. /\ reply' = [reply EXCEPT ![e] = answer]
        /\ stored' = IF answer = "stored" THEN Append(stored, e) ELSE stored
        /\ UNCHANGED <<acked, inHand, handled, consumed>>
    BY <1>2 DEF Arrive
  <2>2. /\ e \in Events /\ stored \in Seq(Events)
        /\ \A f \in Events \ {e} : reply'[f] = reply[f]
        /\ reply'[e] = answer
    BY <1>2, <2>1 DEF Arrive, Typed, TypeOK
  <2>3. ToSet(stored) \subseteq Events
    BY <2>2 DEF ToSet
  <2>4. answer = "duplicate" => e \in ToSet(stored)
    BY <2>2, <2>3 DEF OwnIdentifiers, MsgId
  <2> HIDE DEF answer, e
  <2>5. ToSet(stored) \subseteq ToSet(stored') /\ (answer = "stored" => e \in ToSet(stored'))
    <3>1. CASE answer = "stored"
      <4>1. /\ Len(stored) \in Nat /\ DOMAIN stored = 1..Len(stored)
            /\ DOMAIN stored' = 1..(Len(stored) + 1) /\ stored'[Len(stored) + 1] = e
            /\ \A i \in 1..Len(stored) : stored'[i] = stored[i]
        BY <2>1, <2>2, <3>1, AppendProperties
      <4>2. Len(stored) + 1 \in 1..(Len(stored) + 1)
            /\ \A i \in 1..Len(stored) : i \in 1..(Len(stored) + 1)
        BY <4>1
      <4> QED
        BY <4>1, <4>2 DEF ToSet
    <3>2. CASE answer # "stored"
      BY <2>1, <3>2
    <3> QED
      BY <3>1, <3>2
  <2>6. \A f \in Events : reply'[f] \in {"stored", "duplicate"} => f \in ToSet(stored')
    BY <2>2, <2>4, <2>5
  <2> QED
    BY <2>1, <2>5, <2>6 DEF AckedIsStored, HandledBeforeAck
<1>3. ASSUME NEW e \in Events, PublishReturns(e) PROVE Acknowledged'
  <2>1. /\ acked' = acked \/ (reply[e] \in {"stored", "duplicate"} /\ acked' = acked \union {e})
        /\ UNCHANGED <<reply, stored, inHand, handled, consumed>>
    BY <1>3 DEF PublishReturns
  <2> QED
    BY <2>1 DEF AckedIsStored, HandledBeforeAck
<1>4. CASE Handle
  <2> PICK m \in inHand : /\ HandlerReturns(m)
                          /\ inHand' = IF m.at = "handler" THEN {[m EXCEPT !.at = "ack"]} ELSE {}
                          /\ UNCHANGED <<clientVars, serverVars, publishVars, durable, localVars>>
    BY <1>4 DEF Handle
  <2>1. m \in [event : Events, at : {"handler", "ack"}]
    BY DEF Typed, TypeOK
  <2>2. CASE m.at = "handler"
    <3>1. [m EXCEPT !.at = "ack"].event = m.event
      BY <2>1
    <3>2. handled' = handled \union {m.event} /\ consumed' = consumed
      BY <2>2 DEF HandlerReturns
    <3>3. \A k \in inHand' : k.event \in handled'
      BY <2>2, <3>1, <3>2
    <3> QED
      BY <3>2, <3>3 DEF AckedIsStored, HandledBeforeAck
  <2>3. CASE m.at # "handler"
    <3>1. /\ inHand' = {} /\ handled' = handled /\ m.event \in handled
          /\ consumed' \subseteq consumed \union {m.event}
      BY <2>1, <2>3 DEF HandlerReturns
    <3> QED
      BY <3>1 DEF AckedIsStored, HandledBeforeAck
  <2> QED
    BY <2>2, <2>3
<1>5. CASE Deliver
  <2>1. /\ UNCHANGED <<reply, stored, acked, handled, consumed>>
        /\ \E e \in Events \union ToSet(stored) : inHand' = {[event |-> e, at |-> "handler"]}
    BY <1>5 DEF Deliver
  <2>2. \A m \in inHand' : m.at # "ack"
    BY <2>1
  <2> QED
    BY <2>1, <2>2 DEF AckedIsStored, HandledBeforeAck
<1>6. CASE HandlerRaises
  BY <1>6 DEF HandlerRaises, AckedIsStored, HandledBeforeAck
<1>7. ASSUME \/ Connect \/ EnsureStreams \/ Drop \/ Reconnect \/ RunCallback \/ CloseBegin
             \/ CloseEnd \/ SubscribeJetstream \/ UNCHANGED vars
             \/ \E e \in Events : Publish(e) \/ HandlerEnds(e)
             \/ \E p \in Patterns : Subscribe(p)
      PROVE  Acknowledged'
  BY <1>1, <1>7 DEF Connect, EnsureStreams, Drop, Reconnect, RunCallback, CloseBegin, CloseEnd,
     SubscribeJetstream, vars, Publish, HandlerEnds, Subscribe
<1> QED
  BY <1>2, <1>3, <1>4, <1>5, <1>6, <1>7 DEF Next, PublishStep

\* If the events of a class have correlation identifiers of their own, no
\* acknowledgement lies: an event told to be stored is in a stream, and a
\* message acknowledged by the consumer has been handled.
THEOREM AcknowledgementsAreTrue ==
  ASSUME OwnIdentifiers
  PROVE  Spec => []AcksTruthful
<1>1. Init => Acknowledged
  BY DEF Init, Acknowledged, AckedIsStored, HandledBeforeAck
<1>2. Typed /\ Acknowledged /\ [Next]_vars => Acknowledged'
  BY AcknowledgedStep
<1>3. Acknowledged => AcksTruthful
  BY DEF Acknowledged, AcksTruthful
<1> QED
  BY <1>1, <1>2, <1>3, TypedInvariance, PTL DEF Spec

--------------------------------------------------------------------------------
(* The connection.                                                           *)

\* Until the bus is closed there is a client as soon as there was a connection,
\* and the flag, or the last callback still to run, follows the connection.
Followed ==
  /\ setup = "none" => callbacks = <<>> /\ link = "none"
  /\ closing # "closed" =>
    /\ client <=> link # "none"
    /\ callbacks # <<>> => /\ link # "none"
                           /\ FlagAfter(callbacks[Len(callbacks)]) <=> link = "up"
    /\ callbacks = <<>> => (connected <=> link = "up")

LEMMA FollowedStep == Typed /\ Followed /\ [Next]_vars => Followed'
<1> SUFFICES ASSUME Typed, Followed, [Next]_vars PROVE Followed'
  OBVIOUS
<1> USE DEF clientVars, serverVars, publishVars, consumerVars, localVars
<1>1. callbacks \in Seq(Callbacks) /\ {client, connected} \subseteq BOOLEAN
  BY DEF Typed, TypeOK, Callbacks
<1>2. CASE Connect
  BY <1>2 DEF Connect, Followed
<1>3. CASE Drop
  <2>1. "disconnected" \in Callbacks
    BY DEF Callbacks
  <2>2. callbacks' # <<>> /\ callbacks'[Len(callbacks')] = "disconnected"
    BY <1>1, <1>3, <2>1, AppendProperties DEF Drop
  <2> QED
    BY <1>3, <2>2 DEF Drop, Followed, FlagAfter
<1>4. CASE Reconnect
  <2>1. "reconnected" \in Callbacks
    BY DEF Callbacks
  <2>2. callbacks' # <<>> /\ callbacks'[Len(callbacks')] = "reconnected"
    BY <1>1, <1>4, <2>1, AppendProperties DEF Reconnect
  <2> QED
    BY <1>4, <2>2 DEF Reconnect, Followed, FlagAfter
<1>5. CASE RunCallback
  <2>1. /\ callbacks # <<>> /\ callbacks' = Tail(callbacks)
        /\ connected' = FlagAfter(Head(callbacks)) /\ UNCHANGED <<link, client, closing>>
    BY <1>5 DEF RunCallback
  <2>2. /\ callbacks' = <<>> => callbacks[Len(callbacks)] = Head(callbacks)
        /\ callbacks' # <<>> => callbacks'[Len(callbacks')] = callbacks[Len(callbacks)]
    <3>1. /\ Len(callbacks) \in Nat /\ Len(callbacks) > 0 /\ Head(callbacks) = callbacks[1]
          /\ callbacks' \in Seq(Callbacks) /\ Len(callbacks') = Len(callbacks) - 1
          /\ \A i \in 1..Len(callbacks') : callbacks'[i] = callbacks[i + 1]
      BY <1>1, <2>1, HeadTailProperties
    <3>2. ASSUME callbacks' = <<>> PROVE Len(callbacks) = 1
      BY <3>1, <3>2
    <3>3. ASSUME callbacks' # <<>> PROVE Len(callbacks') \in 1..Len(callbacks')
      BY <3>1, <3>3
    <3>4. ASSUME callbacks' # <<>>
          PROVE  callbacks'[Len(callbacks')] = callbacks[Len(callbacks)]
      BY <3>1, <3>3, <3>4
    <3> QED
      BY <3>1, <3>2, <3>4
  <2> QED
    BY <1>5, <2>1, <2>2 DEF Followed, RunCallback
<1>6. CASE CloseBegin
  BY <1>6 DEF CloseBegin, Followed
<1>7. CASE CloseEnd
  BY <1>7 DEF CloseEnd, Followed
<1>8. ASSUME \/ EnsureStreams \/ Arrive \/ SubscribeJetstream \/ Deliver \/ Handle
             \/ HandlerRaises \/ UNCHANGED vars
             \/ \E e \in Events : Publish(e) \/ PublishStep(e)
             \/ \E p \in Patterns : Subscribe(p)
      PROVE  Followed'
  <2>1. UNCHANGED <<link, callbacks, client, connected, closing>>
        /\ (setup' = setup \/ setup' = "ready")
    BY <1>8 DEF EnsureStreams, Arrive, SubscribeJetstream, Deliver, Handle, HandlerRaises, vars,
       Publish, PublishStep, PublishReturns, HandlerEnds, Subscribe
  <2> QED
    BY <2>1 DEF Followed
<1> QED
  BY <1>2, <1>3, <1>4, <1>5, <1>6, <1>7, <1>8 DEF Next

\* However often the connection is lost: until the bus is closed, and once the
\* callbacks have run, is_connected says whether there is a connection.
THEOREM ConnectionIsKnown == Spec => []ConnectedIsTrue
<1>1. Init => Followed
  BY DEF Init, Followed
<1>2. Followed => ConnectedIsTrue
  BY DEF Followed, ConnectedIsTrue
<1> QED
  BY <1>1, <1>2, FollowedStep, TypedInvariance, PTL DEF Spec
================================================================================
