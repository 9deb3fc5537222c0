-------------------------- MODULE NodePropertiesProofs --------------------------
(*****************************************************************************)
(* Proofs about NodeProperties.  A body that passed validation is sound when *)
(* it reaches the database, because the stamps that follow are declared and  *)
(* allowed; and all that an update writes over a node was named by its       *)
(* client, is a default, or is the stamp.  The last part is about writes and *)
(* events: the last of each that names an attribute says what it is.         *)
(*****************************************************************************)
EXTENDS NodeProperties, TLAPS, SequenceTheorems, FiniteSetTheorems, WellFoundedInduction

\* The properties of a validated body and of what is stored of it.
Sound(p) ==
  /\ Unknown(p) = {} /\ Malformed(p) = {}
  /\ \A a \in Attrs : Def[a].required /\ ~Def[a].auto => a \in DOMAIN p /\ p[a] # None

\* What an update is about to write has one of three origins.
Explained(r) ==
  \A a \in DOMAIN body[r] \ {"updated_by"} :
    a \in DOMAIN call[r].given \/ (a \in Attrs /\ body[r][a] = Def[a].default)

Framed ==
  /\ DOMAIN pc = Requests /\ DOMAIN call = Requests /\ DOMAIN body = Requests
  /\ wrote \in Seq(Requests)

\* Requests on their way to the database, and those that have been there.
OnTheWay ==
  \A r \in Requests :
    /\ pc[r] \in {"exists", "persist"} =>
         /\ ~Unchecked(call[r]) => Sound(body[r])
         /\ \/ /\ call[r].op = "update" /\ call[r].id \in DOMAIN store
               /\ Explained(r)
            \/ call[r].op = "create" /\ r \notin DOMAIN store /\ pc[r] = "persist"
    /\ pc[r] = "idle" => r \notin DOMAIN store
    /\ pc[r] \in {"idle", "exists", "persist"} => r \notin ToSet(wrote)

NoNull == \A n \in DOMAIN store : \A a \in DOMAIN store[n] : store[n][a] # None

\* The lifecycle attributes are declared, as the mixin of the core schemas has
\* it, and the node there is at the start conforms.
SchemaDeclares == Managed \subseteq Attrs /\ Sound(Props0)

\* What Conforms says of one node.
Fits(n) ==
  /\ \A a \in Unknown(store[n]) \union Malformed(store[n]) : WrittenUnchecked(n, a)
  /\ \A a \in Attrs : Def[a].required /\ ~Def[a].auto =>
       a \in DOMAIN store[n] \/ WrittenUnchecked(n, a)

Inductive == Framed /\ OnTheWay /\ NoNull /\ Conforms

LEMMA Users1 == \A r \in Requests : r \in Users /\ r # None
  BY PropertiesAssumption DEF Users, NodeIds

LEMMA OverlayFacts ==
  ASSUME NEW p, NEW q
  PROVE  /\ DOMAIN Overlay(p, q) = DOMAIN p \union DOMAIN q
         /\ \A a \in DOMAIN q : Overlay(p, q)[a] = q[a]
         /\ \A a \in DOMAIN p : a \notin DOMAIN q => Overlay(p, q)[a] = p[a]
  BY DEF Overlay

\* Validation accepts sound bodies only, and stamps keep them sound.
LEMMA ValidSound ==
  ASSUME NEW p, Valid(p), \A a \in Attrs : Def[a].default # None => a \in DOMAIN p
  PROVE  Sound(p)
  BY DEF Valid, Sound, Missing, NullOnRequired

LEMMA StampSound ==
  ASSUME SchemaDeclares, NEW p, Sound(p), NEW r \in Requests, NEW op
  PROVE  Sound(Stamp(op, r, p))
<1> DEFINE q == [a \in IF op = "create" THEN Managed ELSE {"updated_by"} |-> r]
<1>1. DOMAIN q \subseteq Attrs /\ \A a \in DOMAIN q : q[a] = r
  BY DEF SchemaDeclares, Managed
<1>2. Stamp(op, r, p) = Overlay(p, q)
  BY DEF Stamp
<1> HIDE DEF q
<1> DEFINE s == Overlay(p, q)
<1>3. /\ DOMAIN s = DOMAIN p \union DOMAIN q
      /\ \A a \in DOMAIN q : s[a] = r
      /\ \A a \in DOMAIN p : a \notin DOMAIN q => s[a] = p[a]
  BY <1>1, OverlayFacts
<1> HIDE DEF s
<1>4. Unknown(s) = {}
  BY <1>1, <1>3 DEF Sound, Unknown
<1>5. Malformed(s) = {}
  BY <1>3, Users1 DEF Sound, Malformed
<1>6. \A a \in Attrs : Def[a].required /\ ~Def[a].auto => a \in DOMAIN s /\ s[a] # None
  BY <1>3, Users1 DEF Sound
<1> QED
  BY <1>2, <1>4, <1>5, <1>6 DEF Sound, s

LEMMA FillFacts ==
  ASSUME NEW p
  PROVE  /\ \A a \in Attrs : Def[a].default # None => a \in DOMAIN Fill(p)
         /\ \A a \in DOMAIN Fill(p) :
              a \in DOMAIN p \/ (a \in Attrs /\ Fill(p)[a] = Def[a].default)
  BY DEF Fill, Overlay

\* What a request that begins brings to the database.
LEMMA BeginSound ==
  ASSUME SchemaDeclares, NEW r \in Requests, NEW c \in Call,
         FirstStage(r, c) \in {"exists", "persist"}
  PROVE  /\ ~Unchecked(c) => Sound(Prepared(r, c))
         /\ c.op = "update" =>
              \A a \in DOMAIN Prepared(r, c) :
                a \in DOMAIN c.given \/ (a \in Attrs /\ Prepared(r, c)[a] = Def[a].default)
         /\ c.op \in {"create", "update"}
         /\ c.op = "create" => FirstStage(r, c) = "persist"
<1>1. c.op \in {"create", "update"} /\ c.via \in {"service", "tool"}
  BY DEF Call
<1>2. CASE Unchecked(c)
  BY <1>1, <1>2 DEF Prepared, Unchecked
<1>3. CASE ~Unchecked(c) /\ c.op = "update"
  <2>1. c.via = "service" /\ Valid(Fill(c.given)) /\ Prepared(r, c) = Fill(c.given)
    <3>1. c.via = "service" /\ c.op # "create"
      BY <1>1, <1>3 DEF Unchecked
    <3>2. Prepared(r, c) = Fill(c.given)
      BY <1>3, <3>1 DEF Prepared
    <3>3. ~Valid(Fill(c.given)) => FirstStage(r, c) = "invalid"
      BY <1>3, <3>1 DEF FirstStage
    <3> QED
      BY <3>1, <3>2, <3>3
  <2>2. Sound(Fill(c.given))
    BY <2>1, FillFacts, ValidSound
  <2> QED
    BY <1>3, <2>1, <2>2, FillFacts
<1>4. CASE c.op = "create"
  <2>1. ~Unchecked(c) /\ FirstStage(r, c) = "persist" /\ Valid(Prepared(r, c))
    BY <1>1, <1>4 DEF FirstStage, Unchecked
  <2>2. Prepared(r, c) = Fill(c.given) \/ Prepared(r, c) = Stamp("create", r, Fill(c.given))
    BY <1>4, <2>1 DEF Prepared
  <2>3. \A a \in Attrs : Def[a].default # None => a \in DOMAIN Prepared(r, c)
    <3>1. \A q : DOMAIN Fill(c.given) \subseteq DOMAIN Overlay(Fill(c.given), q)
      BY OverlayFacts
    <3>2. DOMAIN Fill(c.given) \subseteq DOMAIN Stamp("create", r, Fill(c.given))
      BY <3>1 DEF Stamp
    <3> QED
      BY <2>2, <3>2, FillFacts
  <2> QED
    BY <1>4, <2>1, <2>3, ValidSound
<1> QED
  BY <1>1, <1>2, <1>3, <1>4

\* What one more write changes of who wrote an attribute last.
LEMMA WrittenLast ==
  ASSUME wrote \in Seq(Requests), NEW r \in Requests, wrote' = Append(wrote, r),
         UNCHANGED <<call, body>>, NEW n, NEW a
  PROVE  IF Target(r) = n /\ a \in DOMAIN body[r]
         THEN WrittenUnchecked(n, a)' <=> Unchecked(call[r])
         ELSE WrittenUnchecked(n, a)' <=> WrittenUnchecked(n, a)
<1> DEFINE l == Len(wrote) + 1
           w == Append(wrote, r)
           B == {i \in 1..l : Target(w[i]) = n /\ a \in DOMAIN body[w[i]]}
           U == {i \in 1..l : Unchecked(call[w[i]])}
<1>1. /\ l \in Nat /\ DOMAIN wrote = 1..(l - 1) /\ DOMAIN w = 1..l /\ l \in 1..l
      /\ w[l] = r /\ \A i \in 1..(l - 1) : w[i] = wrote[i] /\ i \in 1..l
      /\ \A i \in 1..l : i <= l /\ (i = l \/ i \in 1..(l - 1))
  <2>1. Len(wrote) \in Nat /\ DOMAIN wrote = 1..Len(wrote)
    OBVIOUS
  <2> QED  BY <2>1, AppendProperties
<1> HIDE DEF l, w
<1>2. WrittenUnchecked(n, a) <=>
        \E i \in B \ {l} : i \in U /\ \A j \in B \ {l} : j <= i
  <2>1. \A i : i \in B \ {l} <=> i \in WritesOf(n) /\ a \in DOMAIN body[wrote[i]]
    BY <1>1 DEF WritesOf
  <2>2. \A i \in B \ {l} : i \in U <=> Unchecked(call[wrote[i]])
    BY <1>1
  <2> HIDE DEF B, U
  <2> QED  BY <2>1, <2>2 DEF WrittenUnchecked
<1>3. WrittenUnchecked(n, a)' <=> \E i \in B : i \in U /\ \A j \in B : j <= i
  <2>1. wrote' = w
    BY DEF w
  <2>2. \A i : i \in B <=> i \in WritesOf(n)' /\ a \in DOMAIN body'[wrote'[i]]
    BY <1>1, <2>1 DEF WritesOf, Target
  <2>3. \A i \in B : i \in U <=> Unchecked(call'[wrote'[i]])
    BY <2>1 DEF Unchecked
  <2> HIDE DEF B, U
  <2> QED  BY <2>2, <2>3 DEF WrittenUnchecked, Unchecked
<1>4. /\ l \in B <=> Target(r) = n /\ a \in DOMAIN body[r]
      /\ l \in U <=> Unchecked(call[r])
      /\ \A i \in B : i <= l /\ (l <= i => i = l)
  BY <1>1
<1> HIDE DEF B, U
<1>5. CASE l \in B
  <2>1. (\E i \in B : i \in U /\ \A j \in B : j <= i) <=> l \in U
    BY <1>4, <1>5
  <2> QED  BY <1>3, <1>4, <1>5, <2>1
<1>6. CASE l \notin B
  <2>1. B \ {l} = B
    BY <1>6
  <2>2. WrittenUnchecked(n, a)' <=> WrittenUnchecked(n, a)
    BY <1>2, <1>3, <2>1
  <2> QED  BY <1>4, <1>6, <2>2
<1> QED  BY <1>5, <1>6

\* The write of one request: what it adds or changes conforms, but for what an
\* unchecked one names; and it explains every change of a value.
LEMMA WriteConforms ==
  ASSUME SchemaDeclares, Inductive, NEW r \in Requests, pc[r] = "persist", Write(r),
         UNCHANGED <<call, body>>
  PROVE  /\ NoNull' /\ Conforms' /\ wrote' \in Seq(Requests)
         /\ DOMAIN store \subseteq DOMAIN store' /\ DOMAIN store' \subseteq DOMAIN store \union {Target(r)}
         /\ \A q \in Requests : q \in ToSet(wrote') => q \in ToSet(wrote) \/ q = r
         /\ \A n \in DOMAIN store, a \in Names \ {"updated_by"} :
              Value(n, a)' # Value(n, a) =>
                /\ Target(r) = n
                /\ \/ a \in DOMAIN call[r].given
                   \/ a \in Attrs /\ Value(n, a)' = Def[a].default
<1> USE DEF Inductive
<1>1. CASE UNCHANGED <<store, wrote>>
  <2>1. Conforms'
    BY <1>1 DEF Conforms, WrittenUnchecked, WritesOf, Target, Unchecked, Unknown, Malformed
  <2> QED
    BY <1>1, <2>1 DEF NoNull, Value, Framed
<1>2. CASE /\ store' = Overlay(store, [n \in {Target(r)} |-> Result(r)])
           /\ wrote' = Append(wrote, r)
  <2> DEFINE t == Target(r)
             v == Result(r)
             one == [n \in {t} |-> v]
  <2>1. /\ DOMAIN one = {t} /\ one[t] = v
        /\ store' = Overlay(store, one)
    BY <1>2
  <2> HIDE DEF one, v
  <2>2. /\ DOMAIN store' = DOMAIN store \union {t} /\ store'[t] = v
        /\ \A n \in DOMAIN store : n # t => store'[n] = store[n]
    <3>1. /\ DOMAIN Overlay(store, one) = DOMAIN store \union DOMAIN one
          /\ \A a \in DOMAIN one : Overlay(store, one)[a] = one[a]
          /\ \A a \in DOMAIN store : a \notin DOMAIN one => Overlay(store, one)[a] = store[a]
      BY OverlayFacts
    <3> HIDE DEF t
    <3> QED
      BY <2>1, <3>1
  <2>3. wrote' \in Seq(Requests) /\ ToSet(wrote') = ToSet(wrote) \union {r}
    <3>1. /\ wrote \in Seq(Requests) /\ Len(wrote) \in Nat /\ DOMAIN wrote = 1..Len(wrote)
          /\ wrote' \in Seq(Requests) /\ DOMAIN wrote' = 1..(Len(wrote) + 1)
          /\ wrote'[Len(wrote) + 1] = r
          /\ \A i \in 1..Len(wrote) : wrote'[i] = wrote[i]
      BY <1>2, AppendProperties DEF Framed
    <3>2. /\ \A i \in 1..(Len(wrote) + 1) : i \in 1..Len(wrote) \/ i = Len(wrote) + 1
          /\ \A i \in 1..Len(wrote) : i \in 1..(Len(wrote) + 1)
          /\ Len(wrote) + 1 \in 1..(Len(wrote) + 1)
      BY <3>1
    <3> QED
      BY <3>1, <3>2 DEF ToSet
  <2>4. \A n, a : IF t = n /\ a \in DOMAIN body[r]
                 THEN WrittenUnchecked(n, a)' <=> Unchecked(call[r])
                 ELSE WrittenUnchecked(n, a)' <=> WrittenUnchecked(n, a)
    BY <1>2, WrittenLast DEF Framed
  <2>5. ASSUME NEW n \in DOMAIN store, n # t  PROVE Fits(n)'
    <3>1. Fits(n) /\ store'[n] = store[n]
      BY <2>2, <2>5 DEF Conforms, Fits
    <3>2. \A a : WrittenUnchecked(n, a)' <=> WrittenUnchecked(n, a)
      BY <1>2, <2>5, WrittenLast DEF Framed
    <3> QED
      BY <3>1, <3>2 DEF Fits, Unknown, Malformed
  <2>6. CASE call[r].op = "create"
    <3>1. v = NonNull(body[r]) /\ t = r /\ r \notin DOMAIN store /\ Sound(body[r])
      BY <2>6 DEF v, Result, Target, OnTheWay, Unchecked
    <3>2. /\ DOMAIN v = {a \in DOMAIN body[r] : body[r][a] # None}
          /\ \A a \in DOMAIN v : v[a] = body[r][a] /\ v[a] # None
      BY <3>1 DEF NonNull, Restrict
    <3>3. Sound(v)
      BY <3>1, <3>2 DEF Sound, Unknown, Malformed
    <3>4. NoNull'
      BY <2>2, <3>2 DEF NoNull
    <3>5. Conforms'
      <4> SUFFICES ASSUME NEW n \in DOMAIN store'  PROVE Fits(n)'
        BY DEF Conforms, Fits
      <4>1. CASE n = t
        BY <2>2, <3>3, <4>1 DEF Sound, Fits, Unknown, Malformed
      <4>2. CASE n # t
        BY <2>2, <2>5, <4>2
      <4> QED
        BY <4>1, <4>2
    <3>6. \A n \in DOMAIN store : store'[n] = store[n] /\ n \in DOMAIN store'
      BY <2>2, <3>1
    <3> QED
      BY <2>2, <2>3, <3>4, <3>5, <3>6 DEF Value
  <2>7. CASE call[r].op # "create"
    <3>1. /\ v = NonNull(Overlay(store[t], body[r])) /\ call[r].op = "update"
          /\ t \in DOMAIN store /\ Explained(r)
          /\ ~Unchecked(call[r]) => Sound(body[r])
      BY <2>7 DEF v, Result, Target, OnTheWay
    <3> DEFINE o == Overlay(store[t], body[r])
    <3>2. /\ DOMAIN o = DOMAIN store[t] \union DOMAIN body[r]
          /\ \A a \in DOMAIN body[r] : o[a] = body[r][a]
          /\ \A a \in DOMAIN store[t] : a \notin DOMAIN body[r] => o[a] = store[t][a]
      BY OverlayFacts
    <3> HIDE DEF o
    <3>3. /\ DOMAIN v = {a \in DOMAIN o : o[a] # None}
          /\ \A a \in DOMAIN v : v[a] = o[a] /\ v[a] # None
      BY <3>1 DEF NonNull, Restrict, o
    <3>4. NoNull'
      BY <2>2, <3>3 DEF NoNull
    <3>5. Conforms'
      <4> SUFFICES ASSUME NEW n \in DOMAIN store'  PROVE Fits(n)'
        BY DEF Conforms, Fits
      <4>1. CASE n = t
        <5>1. Fits(n)
          BY <3>1, <4>1 DEF Conforms, Fits
        <5>2. ASSUME NEW a  PROVE /\ a \in Unknown(v) \union Malformed(v) => WrittenUnchecked(n, a)'
                                  /\ a \in Attrs /\ Def[a].required /\ ~Def[a].auto =>
                                       a \in DOMAIN v \/ WrittenUnchecked(n, a)'
          <6>1. CASE a \in DOMAIN body[r] /\ ~Unchecked(call[r])
            BY <3>1, <3>2, <3>3, <6>1 DEF Sound, Unknown, Malformed
          <6>2. CASE a \in DOMAIN body[r] /\ Unchecked(call[r])
            BY <2>4, <4>1, <6>2
          <6>3. CASE a \notin DOMAIN body[r]
            <7>1. WrittenUnchecked(n, a)' <=> WrittenUnchecked(n, a)
              BY <2>4, <4>1, <6>3
            <7>2. /\ a \in DOMAIN v <=> a \in DOMAIN store[n]
                  /\ a \in DOMAIN v => v[a] = store[n][a]
              BY <3>1, <3>2, <3>3, <4>1, <6>3 DEF NoNull
            <7> QED
              BY <5>1, <7>1, <7>2 DEF Fits, Unknown, Malformed
          <6> QED
            BY <6>1, <6>2, <6>3
        <5>3. /\ Unknown(store[n])' = Unknown(v) /\ Malformed(store[n])' = Malformed(v)
              /\ DOMAIN store'[n] = DOMAIN v
          BY <2>2, <4>1 DEF Unknown, Malformed
        <5> QED
          BY <5>2, <5>3 DEF Fits
      <4>2. CASE n # t
        BY <2>2, <2>5, <4>2
      <4> QED
        BY <4>1, <4>2
    <3>6. ASSUME NEW n \in DOMAIN store, NEW a \in Names \ {"updated_by"},
                 Value(n, a)' # Value(n, a)
          PROVE  /\ t = n
                 /\ a \in DOMAIN call[r].given \/ (a \in Attrs /\ Value(n, a)' = Def[a].default)
      <4>1. n = t
        BY <2>2, <3>6 DEF Value
      <4>2. Value(n, a)' = IF a \in DOMAIN v THEN v[a] ELSE None
        BY <2>2, <4>1 DEF Value
      <4>3. a \in DOMAIN body[r]
        <5> SUFFICES ASSUME a \notin DOMAIN body[r] PROVE FALSE
          OBVIOUS
        <5>1. a \in DOMAIN v <=> a \in DOMAIN store[t]
          BY <3>1, <3>2, <3>3 DEF NoNull
        <5>2. a \in DOMAIN v => v[a] = store[t][a]
          BY <3>2, <3>3, <5>1
        <5> QED
          BY <3>6, <4>1, <4>2, <5>1, <5>2 DEF Value
      <4>4. Value(n, a)' = body[r][a]
        BY <3>2, <3>3, <4>2, <4>3
      <4> QED
        BY <3>1, <4>1, <4>3, <4>4 DEF Explained
    <3> QED
      BY <2>2, <2>3, <3>1, <3>4, <3>5, <3>6
  <2> QED
    BY <2>6, <2>7
<1> QED
  BY <1>1, <1>2 DEF Write

LEMMA InitInductive == SchemaDeclares /\ Init => Inductive
<1> SUFFICES ASSUME SchemaDeclares, Init PROVE Inductive
  OBVIOUS
<1>1. DOMAIN store = {Node0} /\ store[Node0] = Props0 /\ Node0 \notin Requests
  BY PropertiesAssumption DEF Init
<1>2. Framed
  BY DEF Init, Framed
<1>3. ToSet(wrote) = {}
  BY DEF Init, ToSet
<1>4. OnTheWay
  BY <1>1, <1>3 DEF OnTheWay, Init
<1>5. \A a \in DOMAIN Props0 : Props0[a] # None
  <2>1. PICK D \in SUBSET Names : Props0 \in [D -> Values \union Users]
    BY PropertiesAssumption DEF Stored, PropsOver
  <2> QED
    BY <2>1, PropertiesAssumption
<1>6. NoNull
  BY <1>1, <1>5 DEF NoNull
<1>7. Conforms
  BY <1>1 DEF Conforms, SchemaDeclares, Sound
<1> QED
  BY <1>2, <1>4, <1>6, <1>7 DEF Inductive

\* What a write leaves of the invariant about the requests.
LEMMA WriteStep ==
  ASSUME SchemaDeclares, Inductive, NEW r \in Requests, pc[r] = "persist", Write(r),
         UNCHANGED <<call, body>>, NEW s, s \notin {"idle", "exists", "persist"}, Goto(r, s)
  PROVE  Inductive'
<1>1. /\ NoNull' /\ Conforms' /\ wrote' \in Seq(Requests)
      /\ DOMAIN store \subseteq DOMAIN store' /\ DOMAIN store' \subseteq DOMAIN store \union {Target(r)}
      /\ \A q \in Requests : q \in ToSet(wrote') => q \in ToSet(wrote) \/ q = r
  BY WriteConforms
<1>2. /\ DOMAIN pc' = Requests /\ pc'[r] = s
      /\ \A q \in Requests \ {r} : pc'[q] = pc[q]
  BY DEF Goto, Inductive, Framed
<1>3. Framed'
  BY <1>1, <1>2 DEF Framed, Inductive
<1>4. \A q \in Requests \ {r} : q \notin DOMAIN store => q \notin DOMAIN store'
  BY <1>1 DEF Target, Inductive, OnTheWay
<1>5. OnTheWay'
  <2> SUFFICES ASSUME NEW q \in Requests, q # r
               PROVE  /\ pc[q] \in {"exists", "persist"} =>
                           /\ ~Unchecked(call[q]) => Sound(body[q])
                           /\ \/ /\ call[q].op = "update" /\ call[q].id \in DOMAIN store'
                                 /\ Explained(q)
                              \/ call[q].op = "create" /\ q \notin DOMAIN store' /\ pc[q] = "persist"
                      /\ pc[q] = "idle" => q \notin DOMAIN store'
                      /\ pc[q] \in {"idle", "exists", "persist"} => q \notin ToSet(wrote')
    BY <1>2 DEF OnTheWay, Explained, Unchecked, Sound, Unknown, Malformed
  <2> QED
    BY <1>1, <1>4 DEF Inductive, OnTheWay
<1> QED
  BY <1>1, <1>3, <1>5 DEF Inductive

\* Steps that write nothing.
LEMMA QuietStep ==
  ASSUME Inductive, UNCHANGED <<store, wrote>>, Framed', OnTheWay',
         \A r \in Requests : r \in ToSet(wrote) => call'[r] = call[r] /\ body'[r] = body[r]
  PROVE  Inductive'
<1>1. NoNull'
  BY DEF Inductive, NoNull
<1>2. \A i \in DOMAIN wrote : wrote[i] \in Requests /\ wrote[i] \in ToSet(wrote)
  BY DEF Inductive, Framed, ToSet
<1>3. \A i \in DOMAIN wrote : call'[wrote[i]] = call[wrote[i]] /\ body'[wrote[i]] = body[wrote[i]]
  BY <1>2
<1>4. \A n : WritesOf(n)' = WritesOf(n)
  BY <1>3 DEF WritesOf, Target
<1>5. \A n, a : WrittenUnchecked(n, a)' <=> WrittenUnchecked(n, a)
  BY <1>3, <1>4 DEF WrittenUnchecked, WritesOf, Unchecked
<1>6. Conforms'
  BY <1>5 DEF Inductive, Conforms, Unknown, Malformed
<1> QED
  BY <1>1, <1>6 DEF Inductive

LEMMA InductiveStep ==
  ASSUME SchemaDeclares, Inductive, [Next]_vars
  PROVE  Inductive'
<1> USE DEF Inductive
<1>1. ASSUME NEW r \in Requests, NEW c \in Call, Begin(r, c)
      PROVE  Inductive'
  <2>1. /\ pc[r] = "idle" /\ UNCHANGED <<store, wrote>>
        /\ DOMAIN pc' = Requests /\ DOMAIN call' = Requests /\ DOMAIN body' = Requests
        /\ pc'[r] = FirstStage(r, c) /\ call'[r] = c /\ body'[r] = Prepared(r, c)
        /\ \A q \in Requests \ {r} : pc'[q] = pc[q] /\ call'[q] = call[q] /\ body'[q] = body[q]
        /\ c.op = "update" => c.id \in DOMAIN store
    BY <1>1 DEF Begin, Goto, Framed
  <2>2. r \notin DOMAIN store /\ r \notin ToSet(wrote)
    BY <2>1 DEF OnTheWay
  <2>3. Framed'
    BY <2>1 DEF Framed
  <2>4. FirstStage(r, c) \notin {"idle"}
    BY DEF FirstStage
  <2>5. OnTheWay'
    <3> SUFFICES ASSUME NEW q \in Requests
                 PROVE  /\ pc'[q] \in {"exists", "persist"} =>
                             /\ ~Unchecked(call'[q]) => Sound(body'[q])
                             /\ \/ /\ call'[q].op = "update" /\ call'[q].id \in DOMAIN store
                                   /\ Explained(q)'
                                \/ call'[q].op = "create" /\ q \notin DOMAIN store /\ pc'[q] = "persist"
                        /\ pc'[q] = "idle" => q \notin DOMAIN store
                        /\ pc'[q] \in {"idle", "exists", "persist"} => q \notin ToSet(wrote)
      BY <2>1 DEF OnTheWay, Unchecked, Sound, Unknown, Malformed
    <3>1. CASE q = r
      <4>1. CASE FirstStage(r, c) \in {"exists", "persist"}
        BY <2>1, <2>2, <3>1, <4>1, BeginSound DEF Explained
      <4>2. CASE FirstStage(r, c) \notin {"exists", "persist"}
        BY <2>1, <2>4, <3>1, <4>2
      <4> QED
        BY <4>1, <4>2
    <3>2. CASE q # r
      BY <2>1, <3>2 DEF OnTheWay, Explained
    <3> QED
      BY <3>1, <3>2
  <2> QED
    BY <2>1, <2>2, <2>3, <2>5, QuietStep
<1>2. ASSUME NEW r \in Requests, CheckExists(r)
      PROVE  Inductive'
  <2>1. /\ pc[r] = "exists" /\ UNCHANGED <<store, wrote, call>>
        /\ DOMAIN pc' = Requests /\ DOMAIN body' = Requests
        /\ pc'[r] = "persist" /\ body'[r] = Stamp("update", r, body[r])
        /\ \A q \in Requests \ {r} : pc'[q] = pc[q] /\ body'[q] = body[q]
    BY <1>2 DEF CheckExists, Goto, Framed
  <2>2. Framed'
    BY <2>1 DEF Framed
  <2>3. call[r].op = "update" /\ call[r].id \in DOMAIN store /\ Explained(r)
    BY <2>1 DEF OnTheWay
  <2>4. ~Unchecked(call[r]) => Sound(body'[r])
    BY <2>1, StampSound DEF OnTheWay
  <2>5. Explained(r)'
    <3> DEFINE q == [a \in {"updated_by"} |-> r]
    <3>1. body'[r] = Overlay(body[r], q)
      BY <2>1 DEF Stamp
    <3>2. DOMAIN q = {"updated_by"}
      OBVIOUS
    <3> HIDE DEF q
    <3>3. \A a \in DOMAIN body'[r] \ {"updated_by"} :
            a \in DOMAIN body[r] /\ body'[r][a] = body[r][a]
      <4> DEFINE o == Overlay(body[r], q)
      <4>1. /\ DOMAIN o = DOMAIN body[r] \union DOMAIN q
            /\ \A a \in DOMAIN body[r] : a \notin DOMAIN q => o[a] = body[r][a]
        BY OverlayFacts
      <4> HIDE DEF o
      <4>2. \A a \in DOMAIN o \ {"updated_by"} : a \in DOMAIN body[r] /\ o[a] = body[r][a]
        BY <3>2, <4>1
      <4> QED
        BY <3>1, <4>2 DEF o
    <3> QED
      BY <2>1, <2>3, <3>3 DEF Explained
  <2>6. OnTheWay'
    <3> SUFFICES ASSUME NEW q \in Requests
                 PROVE  /\ pc'[q] \in {"exists", "persist"} =>
                             /\ ~Unchecked(call[q]) => Sound(body'[q])
                             /\ \/ /\ call[q].op = "update" /\ call[q].id \in DOMAIN store
                                   /\ Explained(q)'
                                \/ call[q].op = "create" /\ q \notin DOMAIN store /\ pc'[q] = "persist"
                        /\ pc'[q] = "idle" => q \notin DOMAIN store
                        /\ pc'[q] \in {"idle", "exists", "persist"} => q \notin ToSet(wrote)
      BY <2>1 DEF OnTheWay, Unchecked, Sound, Unknown, Malformed
    <3>1. CASE q = r
      <4>1. r \notin ToSet(wrote)
        BY <2>1 DEF OnTheWay
      <4> QED
        BY <2>1, <2>3, <2>4, <2>5, <3>1, <4>1
    <3>2. CASE q # r
      BY <2>1, <3>2 DEF OnTheWay, Explained
    <3> QED
      BY <3>1, <3>2
  <2>7. \A q \in Requests : q \in ToSet(wrote) => call'[q] = call[q] /\ body'[q] = body[q]
    BY <2>1 DEF OnTheWay
  <2> QED
    BY <2>1, <2>2, <2>6, <2>7, QuietStep
<1>3. ASSUME NEW r \in Requests, Persist(r)
      PROVE  Inductive'
  BY <1>3, WriteStep DEF Persist
<1>4. ASSUME NEW r \in Requests, UNCHANGED <<store, wrote, call, body>>,
             pc[r] # "idle", NEW s \in Ended, Goto(r, s)
      PROVE  Inductive'
  <2>1. /\ DOMAIN pc' = Requests /\ pc'[r] = s /\ \A q \in Requests \ {r} : pc'[q] = pc[q]
    BY <1>4 DEF Goto, Framed
  <2>2. Framed' /\ s \notin {"idle", "exists", "persist"}
    BY <1>4, <2>1 DEF Framed, Ended
  <2>3. OnTheWay'
    BY <1>4, <2>1, <2>2 DEF OnTheWay, Explained, Unchecked, Sound, Unknown, Malformed
  <2> QED
    BY <1>4, <2>2, <2>3, QuietStep
<1>5. ASSUME NEW r \in Requests, DbFails(r) \/ Emit(r)
      PROVE  Inductive'
  <2>1. "failed" \in Ended /\ "done" \in Ended
    BY DEF Ended
  <2> QED
    BY <1>4, <1>5, <2>1, WriteStep DEF DbFails, Emit
<1>6. CASE UNCHANGED vars
  BY <1>6, QuietStep DEF vars, OnTheWay, Framed, Explained, Unchecked, Sound, Unknown, Malformed
<1> QED
  BY <1>1, <1>2, <1>3, <1>5, <1>6 DEF Next, Step

\* Whatever requests interleave, fail or lose their reply, a node has its
\* required attributes, no undeclared ones and allowed values, but for what an
\* unchecked update was the last to write.
THEOREM NodesConform ==
  ASSUME SchemaDeclares
  PROVE  Spec => []Conforms
<1>1. Init => Inductive
  BY InitInductive
<1>2. Inductive /\ [Next]_vars => Inductive'
  BY InductiveStep
<1>3. Inductive => Conforms
  BY DEF Inductive
<1> QED
  BY <1>1, <1>2, <1>3, PTL DEF Spec

\* No write changes an attribute its client did not name, but for the stamp
\* and for defaults.
THEOREM OthersKeepTheirValues ==
  ASSUME SchemaDeclares
  PROVE  Spec => OnlyNamedOrDefaulted
<1> DEFINE Explains ==
      \A n \in DOMAIN store : \A a \in Names \ {"updated_by"} :
        Value(n, a)' # Value(n, a) =>
          \/ NamedByWriter(n, a)
          \/ a \in Attrs /\ Value(n, a)' = Def[a].default
<1>1. ASSUME Inductive, [Next]_vars PROVE [Explains]_vars
  <2>1. ASSUME NEW r \in Requests, pc[r] = "persist", Write(r), UNCHANGED <<call, body>>,
               NEW s \in Stages, s # "persist", Goto(r, s)
        PROVE  Explains
    <3>1. pc'[r] # pc[r]
      BY <1>1, <2>1 DEF Goto, Inductive, Framed
    <3> QED
      BY <1>1, <2>1, <3>1, WriteConforms DEF NamedByWriter
  <2>2. store' = store => Explains
    BY DEF Value
  <2>3. {"emit", "done", "failed"} \subseteq Stages
    BY DEF Stages, Ended
  <2>4. ASSUME NEW r \in Requests, Persist(r) \/ DbFails(r) PROVE Explains
    BY <2>1, <2>2, <2>3, <2>4 DEF Persist, DbFails
  <2>5. ASSUME NEW r \in Requests, CheckExists(r) \/ Emit(r) \/ \E c \in Call : Begin(r, c)
        PROVE  Explains
    BY <2>2, <2>5 DEF CheckExists, Emit, Begin
  <2> HIDE DEF Explains
  <2> QED
    BY <1>1, <2>4, <2>5 DEF Next, Step
<1>2. Init => Inductive
  BY InitInductive
<1>3. Inductive /\ [Next]_vars => Inductive'
  BY InductiveStep
<1> QED
  BY <1>1, <1>2, <1>3, PTL DEF Spec, OnlyNamedOrDefaulted

--------------------------------------------------------------------------------
(* Types, stamps and events.  These need nothing of what the type declares.   *)

\* Sets of properties, and what is made of them.
LEMMA InProps ==
  ASSUME NEW N, NEW V, NEW p
  PROVE  p \in PropsOver(N, V) <=>
           /\ p = [a \in DOMAIN p |-> p[a]] /\ DOMAIN p \subseteq N
           /\ \A a \in DOMAIN p : p[a] \in V
<1>1. ASSUME p \in PropsOver(N, V)
      PROVE  /\ p = [a \in DOMAIN p |-> p[a]] /\ DOMAIN p \subseteq N
             /\ \A a \in DOMAIN p : p[a] \in V
  <2>1. PICK D \in SUBSET N : p \in [D -> V]
    BY <1>1 DEF PropsOver
  <2> QED  BY <2>1
<1>2. ASSUME p = [a \in DOMAIN p |-> p[a]], DOMAIN p \subseteq N, \A a \in DOMAIN p : p[a] \in V
      PROVE  p \in PropsOver(N, V)
  <2>1. p \in [DOMAIN p -> V] /\ DOMAIN p \in SUBSET N
    BY <1>2
  <2> QED  BY <2>1 DEF PropsOver
<1> QED  BY <1>1, <1>2

LEMMA OverlayProps ==
  ASSUME NEW N, NEW V, NEW p \in PropsOver(N, V), NEW q \in PropsOver(N, V)
  PROVE  Overlay(p, q) \in PropsOver(N, V)
<1>1. /\ DOMAIN p \subseteq N /\ DOMAIN q \subseteq N
      /\ \A a \in DOMAIN p : p[a] \in V
      /\ \A a \in DOMAIN q : q[a] \in V
  BY InProps
<1> DEFINE o == Overlay(p, q)
<1>2. o = [a \in DOMAIN o |-> o[a]]
  BY DEF Overlay
<1>5. /\ DOMAIN o = DOMAIN p \union DOMAIN q
      /\ \A a \in DOMAIN q : o[a] = q[a]
      /\ \A a \in DOMAIN p : a \notin DOMAIN q => o[a] = p[a]
  BY OverlayFacts
<1> HIDE DEF o
<1>3. DOMAIN o \subseteq N /\ \A a \in DOMAIN o : o[a] \in V
  BY <1>1, <1>5
<1>4. o \in PropsOver(N, V)
  BY <1>2, <1>3, InProps
<1> QED  BY <1>4 DEF o

LEMMA NonNullProps ==
  ASSUME NEW p \in Body
  PROVE  NonNull(p) \in Stored
<1>1. DOMAIN p \subseteq Names /\ \A a \in DOMAIN p : p[a] \in Values \union Users \union {None}
  BY InProps DEF Body
<1> DEFINE v == NonNull(p)
<1>2. /\ v = [a \in DOMAIN v |-> v[a]] /\ DOMAIN v = {a \in DOMAIN p : p[a] # None}
      /\ \A a \in DOMAIN v : v[a] = p[a]
  BY DEF NonNull, Restrict
<1>3. DOMAIN v \subseteq Names /\ \A a \in DOMAIN v : v[a] \in Values \union Users
  BY <1>1, <1>2
<1> HIDE DEF v
<1>4. v \in PropsOver(Names, Values \union Users)
  BY <1>2, <1>3, InProps
<1> QED  BY <1>4 DEF v, Stored

LEMMA StoredBody == Stored \subseteq Body
<1> SUFFICES ASSUME NEW p \in Stored  PROVE p \in Body
  OBVIOUS
<1> QED  BY InProps DEF Stored, Body

LEMMA FillProps ==
  ASSUME NEW p \in Body
  PROVE  Fill(p) \in Body
<1> DEFINE ds == [a \in {b \in Attrs : Def[b].default # None} |-> Def[a].default]
<1>1. /\ ds = [a \in DOMAIN ds |-> ds[a]] /\ DOMAIN ds \subseteq Names
      /\ \A a \in DOMAIN ds : ds[a] \in Values \union Users \union {None}
  BY PropertiesAssumption DEF AttributeDefinition, Names
<1>2. Fill(p) = Overlay(ds, p)
  BY DEF Fill
<1> HIDE DEF ds
<1>3. ds \in Body
  BY <1>1, InProps DEF Body
<1> QED  BY <1>2, <1>3, OverlayProps DEF Body

\* A stamped body is one, and says who wrote it.
LEMMA StampProps ==
  ASSUME NEW p \in Body, NEW r \in Requests, NEW op
  PROVE  /\ Stamp(op, r, p) \in Body
         /\ "updated_by" \in DOMAIN Stamp(op, r, p) /\ Stamp(op, r, p)["updated_by"] = r
<1> DEFINE q == [a \in IF op = "create" THEN Managed ELSE {"updated_by"} |-> r]
<1>1. /\ q = [a \in DOMAIN q |-> q[a]] /\ DOMAIN q \subseteq Names
      /\ \A a \in DOMAIN q : q[a] \in Values \union Users \union {None}
      /\ "updated_by" \in DOMAIN q /\ q["updated_by"] = r
  BY Users1 DEF Managed, Names
<1>2. Stamp(op, r, p) = Overlay(p, q)
  BY DEF Stamp
<1> HIDE DEF q
<1>3. q \in Body
  BY <1>1, InProps DEF Body
<1>4. Overlay(p, q) \in Body
  BY <1>3, OverlayProps DEF Body
<1>5. /\ "updated_by" \in DOMAIN Overlay(p, q) /\ Overlay(p, q)["updated_by"] = r
  <2>1. /\ DOMAIN Overlay(p, q) = DOMAIN p \union DOMAIN q
        /\ \A a \in DOMAIN q : Overlay(p, q)[a] = q[a]
    BY OverlayFacts
  <2> QED  BY <1>1, <2>1
<1> QED  BY <1>2, <1>4, <1>5

\* What a request has ready when it reaches its first await.
LEMMA PreparedProps ==
  ASSUME NEW r \in Requests, NEW c \in Call
  PROVE  /\ Prepared(r, c) \in Body
         /\ FirstStage(r, c) = "persist" /\ c.via = "service" =>
              "updated_by" \in DOMAIN Prepared(r, c) /\ Prepared(r, c)["updated_by"] = r
         /\ FirstStage(r, c) \in {"exists", "persist", "invalid", "rejected"}
         /\ FirstStage(r, c) = "exists" => c.op = "update"
<1>1. /\ c.given \in Body /\ c.op \in {"create", "update"} /\ c.via \in {"service", "tool"}
  BY PropertiesAssumption DEF Call
<1>2. Fill(c.given) \in Body /\ Stamp(c.op, r, Fill(c.given)) \in Body
  BY <1>1, FillProps, StampProps
<1>3. Prepared(r, c) \in Body
  BY <1>1, <1>2 DEF Prepared
<1>4. ASSUME FirstStage(r, c) = "persist", c.via = "service"
      PROVE  Prepared(r, c) = Stamp(c.op, r, Fill(c.given))
  <2>1. ~Unchecked(c)
    BY <1>4 DEF Unchecked
  <2>2. Valid(Fill(c.given)) /\ c.op = "create"
    BY <1>1, <1>4, <2>1 DEF FirstStage
  <2> QED  BY <1>4, <2>1, <2>2 DEF Prepared
<1>5. FirstStage(r, c) \in {"exists", "persist", "invalid", "rejected"}
  BY <1>1 DEF FirstStage
<1>6. FirstStage(r, c) = "exists" => c.op = "update"
  BY <1>1 DEF FirstStage
<1> QED  BY <1>1, <1>2, <1>3, <1>4, <1>5, <1>6, FillProps, StampProps

LEMMA Elements ==
  ASSUME NEW S, NEW s \in Seq(S)
  PROVE  \A i \in DOMAIN s : s[i] \in S
  OBVIOUS

\* One step further in a sequence.
LEMMA Appended ==
  ASSUME NEW S, NEW s \in Seq(S), NEW e \in S
  PROVE  /\ Append(s, e) \in Seq(S) /\ Len(s) \in Nat
         /\ DOMAIN s = 1..Len(s) /\ DOMAIN Append(s, e) = 1..(Len(s) + 1)
         /\ Append(s, e)[Len(s) + 1] = e
         /\ \A i \in DOMAIN s : Append(s, e)[i] = s[i] /\ i \in DOMAIN Append(s, e) /\ i < Len(s) + 1
         /\ \A i \in DOMAIN Append(s, e) : i \in DOMAIN s \/ i = Len(s) + 1
  OBVIOUS

\* A set of places has a last one.
LEMMA LastOf ==
  ASSUME NEW n \in Nat, NEW T, T \subseteq 1..n, T # {}
  PROVE  \E x \in T : \A y \in T : y <= x
<1> DEFINE Above == {k..n : k \in T}
<1>1. Above # {} /\ Above \subseteq FiniteSubsetsOf(Nat)
  <2>1. \A k \in T : IsFiniteSet(k..n) /\ k..n \subseteq Nat
    BY FS_Interval
  <2> QED  BY <2>1 DEF FiniteSubsetsOf
<1> HIDE DEF Above
<1>2. PICK X \in Above : \A Y \in Above : ~(<<Y, X>> \in StrictSubsetOrdering(Nat))
  BY <1>1, WFMin, FS_StrictSubsetOrderingWellFounded
<1>3. PICK x \in T : X = x..n
  BY DEF Above
<1>4. ASSUME NEW y \in T  PROVE y <= x
  <2>1. CASE y > x
    <3>1. y..n \in Above /\ y..n \subseteq x..n /\ y..n # x..n
      BY <2>1 DEF Above
    <3> QED  BY <1>1, <1>2, <1>3, <3>1 DEF StrictSubsetOrdering, FiniteSubsetsOf
  <2> QED  BY <2>1
<1> QED  BY <1>4

\* The stamp of a service's write, and what each request has got to.
Stamped(r) == "updated_by" \in DOMAIN body[r] /\ body[r]["updated_by"] = r
Wrote == {wrote[i] : i \in DOMAIN wrote}
Reported == {log[i].req : i \in DOMAIN log}
Standing(r) ==
  /\ pc[r] # "idle" => /\ call[r] \in Call
                       /\ call[r].op = "update" => call[r].id \in DOMAIN store
  /\ pc[r] = "exists" => call[r].op = "update"
  /\ pc[r] = "idle" \/ (pc[r] = "persist" /\ call[r].op = "create") => r \notin DOMAIN store
  /\ (pc[r] = "persist" \/ r \in Wrote) /\ call[r].via = "service" => Stamped(r)
  /\ r \in Wrote => pc[r] \in {"emit", "done", "failed"} /\ Target(r) \in DOMAIN store
  /\ r \in Reported => pc[r] = "done"
  /\ pc[r] = "done" /\ call[r].via = "service" /\ call[r].op = "update" => r \in Reported
  /\ \A q \in earlier[r] : pc[q] \in Ended

\* Writes and events come in real-time order, and events say what was written.
InOrder ==
  /\ \A i, j \in DOMAIN wrote : i < j => wrote[j] \notin earlier[wrote[i]]
  /\ \A i, j \in DOMAIN log : i < j => /\ log[j].req # log[i].req
                                       /\ log[j].req \notin earlier[log[i].req]
  /\ \A i \in DOMAIN log : log[i].changes = body[log[i].req]

\* The value of an attribute is the one of the last request that wrote it.
WritesOfValue(n, a) == {i \in WritesOf(n) : a \in DOMAIN body[wrote[i]]}
LastTells ==
  \A n \in DOMAIN store : \A a : \A i \in DOMAIN wrote :
    i \in WritesOfValue(n, a) /\ (\A j \in WritesOfValue(n, a) : j <= i) =>
      Value(n, a) = body[wrote[i]][a]

ValueInv == TypeOK /\ (\A r \in Requests : Standing(r)) /\ InOrder /\ LastTells

LEMMA ValueInit == Init => ValueInv
<1> SUFFICES ASSUME Init  PROVE ValueInv
  OBVIOUS
<1>1. DOMAIN store = {Node0} /\ store[Node0] = Props0 /\ Node0 \notin Requests
  BY PropertiesAssumption DEF Init
<1>2. Empty \in Body
  <2>1. Empty = [a \in DOMAIN Empty |-> Empty[a]] /\ DOMAIN Empty = {}
    BY DEF Empty
  <2> QED  BY <2>1, InProps DEF Body
<1>3. TypeOK
  BY <1>1, <1>2, PropertiesAssumption DEF Init, TypeOK, NodeIds, Stages, Ended
<1>4. Wrote = {} /\ Reported = {} /\ DOMAIN wrote = {} /\ DOMAIN log = {}
  BY DEF Init, Wrote, Reported
<1>5. \A r \in Requests : Standing(r)
  BY <1>1, <1>4 DEF Init, Standing
<1>6. InOrder /\ LastTells
  BY <1>4 DEF InOrder, LastTells
<1> QED  BY <1>3, <1>5, <1>6 DEF ValueInv

\* A step of request r, whoever else is under way.
Moves(r) ==
  /\ pc[r] \notin Ended
  /\ \A q \in Requests \ {r} : /\ pc'[q] = pc[q] /\ call'[q] = call[q]
                               /\ body'[q] = body[q] /\ earlier'[q] = earlier[q]

\* What r has asked and written does not change once it is in a log.
Settled(r) ==
  r \in Wrote \union Reported =>
    call'[r] = call[r] /\ body'[r] = body[r] /\ earlier'[r] = earlier[r]

\* The others stand where they stood.
LEMMA OthersStand ==
  ASSUME ValueInv, NEW r \in Requests, Moves(r), NEW q \in Requests, q # r,
         pc'[r] \in Stages, \A p \in Requests : pc'[p] \in Ended \/ pc[p] \notin Ended,
         DOMAIN store \subseteq DOMAIN store', q \in DOMAIN store' => q \in DOMAIN store,
         q \in Wrote' <=> q \in Wrote, q \in Reported' <=> q \in Reported
  PROVE  Standing(q)'
<1>1. Standing(q) /\ earlier[q] \subseteq Requests
  BY DEF ValueInv, TypeOK
<1>2. pc'[q] = pc[q] /\ call'[q] = call[q] /\ body'[q] = body[q] /\ earlier'[q] = earlier[q]
  BY DEF Moves
<1>3. \A p \in earlier[q] : pc'[p] \in Ended
  BY <1>1 DEF Standing
<1>4. Stamped(q)' <=> Stamped(q)
  BY <1>2 DEF Stamped
<1>5. Target(q)' = Target(q)
  BY <1>2 DEF Target
<1> QED  BY <1>1, <1>2, <1>3, <1>4, <1>5 DEF Standing

\* A step that writes and reports nothing.
LEMMA QuietValues ==
  ASSUME ValueInv, NEW r \in Requests, Moves(r), Settled(r),
         UNCHANGED <<store, log, wrote>>, TypeOK', Standing(r)'
  PROVE  ValueInv'
<1>1. wrote \in Seq(Requests) /\ log \in Seq([req : Requests, changes : Body])
  BY DEF ValueInv, TypeOK
<1>2. /\ \A i \in DOMAIN wrote : wrote[i] \in Requests /\ wrote[i] \in Wrote
      /\ \A i \in DOMAIN log : log[i].req \in Requests /\ log[i].req \in Reported
  <2>1. \A i \in DOMAIN wrote : wrote[i] \in Requests
    BY <1>1
  <2>2. \A i \in DOMAIN log : log[i] \in [req : Requests, changes : Body]
    BY <1>1, Elements
  <2> QED  BY <2>1, <2>2 DEF Wrote, Reported
<1>3. Wrote' = Wrote /\ Reported' = Reported
  BY DEF Wrote, Reported
<1>4. ASSUME NEW q \in Requests  PROVE Standing(q)'
  <2>1. CASE q = r
    BY <2>1
  <2>2. CASE q # r
    <3>1. \A p \in Requests : pc'[p] \in Ended \/ pc[p] \notin Ended
      BY DEF Moves
    <3>2. pc'[r] \in Stages
      BY DEF TypeOK
    <3> QED  BY <1>3, <2>2, <3>1, <3>2, OthersStand
  <2> QED  BY <2>1, <2>2
<1>5. /\ \A i \in DOMAIN wrote : /\ call'[wrote[i]] = call[wrote[i]]
                                 /\ body'[wrote[i]] = body[wrote[i]]
                                 /\ earlier'[wrote[i]] = earlier[wrote[i]]
      /\ \A i \in DOMAIN log : /\ body'[log[i].req] = body[log[i].req]
                               /\ earlier'[log[i].req] = earlier[log[i].req]
  BY <1>2 DEF Moves, Settled
<1>6. InOrder'
  BY <1>5 DEF ValueInv, InOrder
<1>7. \A n : WritesOf(n)' = WritesOf(n)
  BY <1>5 DEF WritesOf, Target
<1>8. \A n, a : WritesOfValue(n, a)' = WritesOfValue(n, a) /\ Value(n, a)' = Value(n, a)
  BY <1>5, <1>7 DEF WritesOfValue, WritesOf, Value
<1>9. \A n, a : WritesOfValue(n, a) \subseteq DOMAIN wrote
  BY DEF WritesOfValue, WritesOf
<1>10. LastTells'
  BY <1>5, <1>8, <1>9 DEF ValueInv, LastTells
<1> QED  BY <1>4, <1>6, <1>10 DEF ValueInv

LEMMA BeginValues ==
  ASSUME ValueInv, NEW r \in Requests, NEW c \in Call, Begin(r, c)
  PROVE  ValueInv'
<1> USE DEF ValueInv
<1>1. /\ pc[r] = "idle" /\ UNCHANGED <<store, log, wrote>>
      /\ pc' = [pc EXCEPT ![r] = FirstStage(r, c)]
      /\ call' = [call EXCEPT ![r] = c]
      /\ body' = [body EXCEPT ![r] = Prepared(r, c)]
      /\ earlier' = [earlier EXCEPT ![r] = {q \in Requests : pc[q] \in Ended}]
      /\ c.op = "update" => c.id \in DOMAIN store
  BY DEF Begin, Goto
<1>2. /\ pc'[r] = FirstStage(r, c) /\ call'[r] = c /\ body'[r] = Prepared(r, c)
      /\ earlier'[r] = {q \in Requests : pc[q] \in Ended}
      /\ \A q \in Requests \ {r} : /\ pc'[q] = pc[q] /\ call'[q] = call[q]
                                   /\ body'[q] = body[q] /\ earlier'[q] = earlier[q]
  BY <1>1 DEF TypeOK
<1>3. /\ Prepared(r, c) \in Body
      /\ FirstStage(r, c) = "persist" /\ c.via = "service" =>
           "updated_by" \in DOMAIN Prepared(r, c) /\ Prepared(r, c)["updated_by"] = r
      /\ FirstStage(r, c) \in {"exists", "persist", "invalid", "rejected"}
      /\ FirstStage(r, c) = "exists" => c.op = "update"
  BY PreparedProps
<1>4. TypeOK'
  BY <1>1, <1>3 DEF TypeOK, Stages, Ended
<1>5. Moves(r)
  BY <1>1, <1>2 DEF Moves, Ended
<1>6. r \notin Wrote /\ r \notin Reported /\ r \notin DOMAIN store
  BY <1>1 DEF Standing
<1>7. r \notin Wrote' /\ r \notin Reported'
  BY <1>1, <1>6 DEF Wrote, Reported
<1>8. \A q \in earlier'[r] : pc'[q] \in Ended
  BY <1>1, <1>2 DEF Ended
<1>9. Standing(r)'
  <2>1. pc'[r] = "persist" /\ c.via = "service" => Stamped(r)'
    BY <1>2, <1>3 DEF Stamped
  <2> QED  BY <1>1, <1>2, <1>3, <1>6, <1>7, <1>8, <2>1 DEF Standing
<1> QED  BY <1>1, <1>4, <1>5, <1>6, <1>9, QuietValues DEF Settled

LEMMA StampValues ==
  ASSUME ValueInv, NEW r \in Requests, CheckExists(r)
  PROVE  ValueInv'
<1> USE DEF ValueInv
<1>1. /\ pc[r] = "exists" /\ UNCHANGED <<store, log, wrote, call, earlier>>
      /\ pc' = [pc EXCEPT ![r] = "persist"]
      /\ body' = [body EXCEPT ![r] = Stamp("update", r, body[r])]
  BY DEF CheckExists, Goto
<1>2. /\ pc'[r] = "persist" /\ body'[r] = Stamp("update", r, body[r])
      /\ \A q \in Requests \ {r} : pc'[q] = pc[q] /\ body'[q] = body[q]
  BY <1>1 DEF TypeOK
<1>3. body[r] \in Body
  BY DEF TypeOK
<1>4. /\ Stamp("update", r, body[r]) \in Body
      /\ "updated_by" \in DOMAIN Stamp("update", r, body[r])
      /\ Stamp("update", r, body[r])["updated_by"] = r
  BY <1>3, StampProps
<1>5. TypeOK'
  BY <1>1, <1>4 DEF TypeOK, Stages
<1>6. Moves(r)
  BY <1>1, <1>2 DEF Moves, Ended
<1>7. r \notin Wrote /\ r \notin Reported /\ call[r].op = "update"
  BY <1>1 DEF Standing
<1>8. r \notin Wrote' /\ r \notin Reported' /\ Stamped(r)'
  BY <1>1, <1>2, <1>4, <1>7 DEF Wrote, Reported, Stamped
<1>9. \A q \in earlier'[r] : pc'[q] \in Ended
  <2>1. \A q \in earlier[r] : pc[q] \in Ended /\ q \in Requests
    BY DEF Standing, TypeOK
  <2> QED  BY <1>1, <1>2, <2>1 DEF Ended
<1>10. Standing(r)'
  BY <1>1, <1>2, <1>7, <1>8, <1>9 DEF Standing
<1> QED  BY <1>1, <1>5, <1>6, <1>7, <1>10, QuietValues DEF Settled

\* A failure, or the empty update of a tool, leaves everything else alone.
LEMMA LeaveValues ==
  ASSUME ValueInv, NEW r \in Requests, pc[r] \notin Ended \union {"idle"},
         UNCHANGED <<store, log, wrote, call, body, earlier>>,
         NEW s \in {"emit", "done", "failed"}, Goto(r, s),
         s = "done" => call[r].via # "service" \/ call[r].op # "update"
  PROVE  ValueInv'
<1> USE DEF ValueInv
<1>1. pc'[r] = s /\ \A q \in Requests \ {r} : pc'[q] = pc[q]
  BY DEF TypeOK, Goto
<1>2. TypeOK'
  BY DEF TypeOK, Stages, Ended, Goto
<1>3. Moves(r)
  BY <1>1 DEF Moves
<1>4. Wrote' = Wrote /\ Reported' = Reported
  BY DEF Wrote, Reported
<1>5. \A q \in earlier'[r] : pc'[q] \in Ended
  <2>1. \A q \in earlier[r] : pc[q] \in Ended /\ q \in Requests
    BY DEF Standing, TypeOK
  <2> QED  BY <1>1, <2>1
<1>6. r \notin Reported
  BY DEF Standing, Ended
<1>7. (Stamped(r)' <=> Stamped(r)) /\ Target(r)' = Target(r)
  BY DEF Stamped, Target
<1>8. Standing(r)
  OBVIOUS
<1>9. Standing(r)'
  BY <1>1, <1>4, <1>5, <1>6, <1>7, <1>8 DEF Standing
<1> QED  BY <1>2, <1>3, <1>9, QuietValues DEF Settled

\* The result of a write: a body is written over what there was, nulls removed.
LEMMA ResultProps ==
  ASSUME ValueInv, NEW r \in Requests, pc[r] = "persist"
  PROVE  /\ Result(r) \in Stored
         /\ \A a \in DOMAIN body[r] :
              body[r][a] = IF a \in DOMAIN Result(r) THEN Result(r)[a] ELSE None
         /\ call[r].op # "create" =>
              \A a : a \notin DOMAIN body[r] =>
                /\ a \in DOMAIN Result(r) <=> a \in DOMAIN store[Target(r)]
                /\ a \in DOMAIN Result(r) => Result(r)[a] = store[Target(r)][a]
<1>1. /\ body[r] \in Body /\ call[r] \in Call
      /\ call[r].op # "create" => Target(r) \in DOMAIN store
  <2>1. Standing(r) /\ body[r] \in Body
    BY DEF ValueInv, TypeOK
  <2>2. call[r] \in Call /\ (call[r].op = "update" => call[r].id \in DOMAIN store)
    BY <2>1 DEF Standing
  <2> QED  BY <2>1, <2>2 DEF Call, Target
<1>2. ASSUME NEW p
      PROVE  /\ DOMAIN NonNull(p) = {a \in DOMAIN p : p[a] # None}
             /\ \A a \in DOMAIN NonNull(p) : NonNull(p)[a] = p[a]
  BY DEF NonNull, Restrict
<1>3. CASE call[r].op = "create"
  <2>1. Result(r) = NonNull(body[r])
    BY <1>3 DEF Result
  <2> QED  BY <1>1, <1>2, <1>3, <2>1, NonNullProps
<1>4. CASE call[r].op # "create"
  <2> DEFINE o == Overlay(store[Target(r)], body[r])
             old == store[Target(r)]
  <2>1. Result(r) = NonNull(o)
    BY <1>4 DEF Result
  <2>2. /\ DOMAIN o = DOMAIN old \union DOMAIN body[r]
        /\ \A a \in DOMAIN body[r] : o[a] = body[r][a]
        /\ \A a \in DOMAIN old : a \notin DOMAIN body[r] => o[a] = old[a]
    BY OverlayFacts
  <2>3. old \in Stored
    BY <1>1, <1>4 DEF ValueInv, TypeOK
  <2>4. \A a \in DOMAIN old : old[a] # None
    BY <2>3, InProps, PropertiesAssumption DEF Stored
  <2>5. o \in Body
    BY <1>1, <2>3, StoredBody, OverlayProps DEF Body
  <2> HIDE DEF o, old
  <2>6. NonNull(o) \in Stored
    BY <2>5, NonNullProps
  <2>7. /\ DOMAIN NonNull(o) = {a \in DOMAIN o : o[a] # None}
        /\ \A a \in DOMAIN NonNull(o) : NonNull(o)[a] = o[a]
    BY <1>2
  <2>8. \A a : a \notin DOMAIN body[r] => /\ a \in DOMAIN NonNull(o) <=> a \in DOMAIN old
                                          /\ a \in DOMAIN NonNull(o) => NonNull(o)[a] = old[a]
    BY <2>2, <2>4, <2>7
  <2>9. \A a \in DOMAIN body[r] :
          body[r][a] = IF a \in DOMAIN NonNull(o) THEN NonNull(o)[a] ELSE None
    BY <2>2, <2>7
  <2> QED  BY <2>1, <2>6, <2>8, <2>9 DEF old
<1> QED  BY <1>3, <1>4

\* A write that takes effect is the last one, and says what its target is now.
LEMMA WriteValues ==
  ASSUME ValueInv, NEW r \in Requests, pc[r] = "persist",
         store' = Overlay(store, [n \in {Target(r)} |-> Result(r)]),
         wrote' = Append(wrote, r),
         UNCHANGED <<log, call, body, earlier>>,
         NEW s \in {"emit", "done", "failed"}, Goto(r, s),
         s = "done" => call[r].via # "service"
  PROVE  ValueInv'
<1> USE DEF ValueInv
<1> DEFINE t == Target(r)
           one == [n \in {t} |-> Result(r)]
           k == Len(wrote) + 1
<1>1. pc'[r] = s /\ \A q \in Requests \ {r} : pc'[q] = pc[q]
  BY DEF TypeOK, Goto
<1>2. /\ Standing(r) /\ call[r] \in Call /\ call[r].op \in {"create", "update"}
      /\ call[r].op = "create" => t = r /\ r \notin DOMAIN store
      /\ call[r].op # "create" => t \in DOMAIN store
  BY DEF Standing, Target, Call
<1>3. t \in NodeIds
  BY <1>2 DEF NodeIds, TypeOK
<1>4. /\ DOMAIN store' = DOMAIN store \union {t} /\ store'[t] = Result(r)
      /\ \A n \in DOMAIN store : n # t => store'[n] = store[n]
  <2>1. DOMAIN one = {t} /\ one[t] = Result(r) /\ store' = Overlay(store, one)
    OBVIOUS
  <2>2. /\ DOMAIN Overlay(store, one) = DOMAIN store \union DOMAIN one
        /\ \A a \in DOMAIN one : Overlay(store, one)[a] = one[a]
        /\ \A a \in DOMAIN store : a \notin DOMAIN one => Overlay(store, one)[a] = store[a]
    BY OverlayFacts
  <2> HIDE DEF one, t
  <2> QED  BY <2>1, <2>2
<1> HIDE DEF one
<1>5. /\ wrote' \in Seq(Requests) /\ Len(wrote) \in Nat
      /\ DOMAIN wrote = 1..Len(wrote) /\ DOMAIN wrote' = 1..k
      /\ wrote'[k] = r
      /\ \A i \in DOMAIN wrote : wrote'[i] = wrote[i] /\ i \in DOMAIN wrote' /\ i < k
      /\ \A i \in DOMAIN wrote' : i \in DOMAIN wrote \/ i = k
  <2>1. wrote \in Seq(Requests)
    BY DEF TypeOK
  <2> QED  BY <2>1, Appended
<1>6. k \in DOMAIN wrote' /\ \A i \in DOMAIN wrote : wrote[i] \in Requests /\ wrote[i] \in Wrote
  BY <1>5 DEF TypeOK, Wrote
<1> HIDE DEF k
<1>7. Wrote' = Wrote \union {r} /\ Reported' = Reported
  BY <1>5, <1>6 DEF Wrote, Reported
<1>8. TypeOK'
  <2>1. Result(r) \in Stored
    BY ResultProps
  <2>2. \A n \in DOMAIN store' : store'[n] \in Stored /\ n \in NodeIds
    BY <1>3, <1>4, <2>1 DEF TypeOK
  <2> QED  BY <1>5, <2>2 DEF TypeOK, Stages, Ended, Goto
<1>9. Moves(r)
  BY <1>1 DEF Moves, Ended
<1>10. \A q \in Requests : Target(q)' = Target(q) /\ (Stamped(q)' <=> Stamped(q))
  BY DEF Target, Stamped
<1>11. ASSUME NEW q \in Requests  PROVE Standing(q)'
  <2>1. CASE q = r
    <3>1. \A p \in earlier'[r] : pc'[p] \in Ended
      <4>1. \A p \in earlier[r] : pc[p] \in Ended /\ p \in Requests
        BY DEF Standing, TypeOK
      <4> QED  BY <1>1, <4>1 DEF Ended
    <3>2. r \notin Reported /\ (call[r].via = "service" => Stamped(r))
      BY DEF Standing
    <3> QED  BY <1>1, <1>2, <1>4, <1>7, <1>10, <2>1, <3>1, <3>2 DEF Standing
  <2>2. CASE q # r
    <3>1. \A p \in Requests : pc'[p] \in Ended \/ pc[p] \notin Ended
      BY <1>9, <1>1 DEF Moves
    <3>2. q \in DOMAIN store' => q \in DOMAIN store
      BY <1>2, <1>4, <2>2
    <3>3. pc'[r] \in Stages
      BY <1>8 DEF TypeOK
    <3> QED  BY <1>4, <1>7, <1>9, <2>2, <3>1, <3>2, <3>3, OthersStand
  <2> QED  BY <2>1, <2>2
<1>12. InOrder'
  <2>1. \A i \in DOMAIN wrote : r \notin earlier[wrote[i]]
    BY <1>6 DEF Standing, Ended
  <2>2. \A i, j \in DOMAIN wrote' : i < j => wrote'[j] \notin earlier[wrote'[i]]
    <3> SUFFICES ASSUME NEW i \in DOMAIN wrote', NEW j \in DOMAIN wrote', i < j
                 PROVE  wrote'[j] \notin earlier[wrote'[i]]
      OBVIOUS
    <3>1. i \in DOMAIN wrote
      BY <1>5
    <3>2. CASE j = k
      BY <1>5, <2>1, <3>1, <3>2
    <3>3. CASE j \in DOMAIN wrote
      BY <1>5, <3>1, <3>3 DEF InOrder
    <3> QED  BY <1>5, <3>2, <3>3
  <2> QED  BY <2>2 DEF InOrder
<1>13. LastTells'
  <2> SUFFICES ASSUME NEW n \in DOMAIN store', NEW a, NEW i \in DOMAIN wrote',
                      i \in WritesOfValue(n, a)', \A j \in WritesOfValue(n, a)' : j <= i
               PROVE  Value(n, a)' = body[wrote'[i]][a]
    BY DEF LastTells
  <2>1. i \in DOMAIN wrote' /\ Target(wrote'[i]) = n /\ a \in DOMAIN body[wrote'[i]]
    BY DEF WritesOfValue, WritesOf, Target
  <2>2. k \in WritesOfValue(n, a)' <=> t = n /\ a \in DOMAIN body[r]
    BY <1>5, <1>6 DEF WritesOfValue, WritesOf, Target
  <2>3. CASE t = n /\ a \in DOMAIN body[r]
    <3>1. i = k
      BY <1>5, <2>1, <2>2, <2>3 DEF k
    <3>2. Value(n, a)' = IF a \in DOMAIN Result(r) THEN Result(r)[a] ELSE None
      BY <1>4, <2>3 DEF Value
    <3> QED  BY <1>5, <2>3, <3>1, <3>2, ResultProps
  <2>4. CASE ~(t = n /\ a \in DOMAIN body[r])
    <3>1. i \in DOMAIN wrote /\ wrote'[i] = wrote[i]
      BY <1>5, <2>1, <2>4
    <3>2. n \in DOMAIN store
      BY <1>6, <2>1, <3>1 DEF Standing
    <3>3. /\ i \in WritesOfValue(n, a)
          /\ \A j \in WritesOfValue(n, a) : j <= i
      <4>1. \A j \in WritesOfValue(n, a) : j \in WritesOfValue(n, a)'
        BY <1>5 DEF WritesOfValue, WritesOf, Target
      <4> QED  BY <2>1, <3>1, <4>1 DEF WritesOfValue, WritesOf
    <3>4. Value(n, a) = body[wrote[i]][a]
      BY <3>1, <3>2, <3>3 DEF LastTells
    <3>5. Value(n, a)' = Value(n, a)
      <4>1. CASE n # t
        BY <1>4, <3>2, <4>1 DEF Value
      <4>2. CASE n = t
        <5>1. call[r].op # "create" /\ a \notin DOMAIN body[r]
          BY <1>2, <2>4, <3>2, <4>2
        <5>2. /\ a \in DOMAIN Result(r) <=> a \in DOMAIN store[t]
              /\ a \in DOMAIN Result(r) => Result(r)[a] = store[t][a]
          BY <5>1, ResultProps
        <5> QED  BY <1>4, <4>2, <5>2 DEF Value
      <4> QED  BY <4>1, <4>2
    <3> QED  BY <3>1, <3>4, <3>5
  <2> QED  BY <2>3, <2>4
<1> QED  BY <1>8, <1>11, <1>12, <1>13

\* An event is reported once, with what its request wrote.
LEMMA ReportValues ==
  ASSUME ValueInv, NEW r \in Requests, pc[r] = "emit", call[r].op = "update",
         log' = Append(log, [req |-> r, changes |-> Changes(r)]),
         UNCHANGED <<store, wrote, call, body, earlier>>, Goto(r, "done")
  PROVE  ValueInv'
<1> USE DEF ValueInv
<1> DEFINE e == [req |-> r, changes |-> body[r]]
           k == Len(log) + 1
<1>1. pc'[r] = "done" /\ \A q \in Requests \ {r} : pc'[q] = pc[q]
  BY DEF TypeOK, Goto
<1>2. /\ log' \in Seq([req : Requests, changes : Body]) /\ Len(log) \in Nat
      /\ DOMAIN log' = 1..k /\ DOMAIN log = 1..Len(log) /\ log'[k] = e
      /\ \A i \in DOMAIN log : log'[i] = log[i] /\ i \in DOMAIN log' /\ i < k
      /\ \A i \in DOMAIN log' : i \in DOMAIN log \/ i = k
  <2>1. log \in Seq([req : Requests, changes : Body]) /\ e \in [req : Requests, changes : Body]
    BY DEF TypeOK
  <2>2. log' = Append(log, e)
    BY DEF Changes
  <2> HIDE DEF e
  <2> QED  BY <2>1, <2>2, Appended
<1>3. k \in DOMAIN log' /\ log'[k].req = r /\ log'[k].changes = body[r]
  BY <1>2
<1>4. \A i \in DOMAIN log : log[i].req \in Requests /\ log[i].req \in Reported
  <2>1. \A i \in DOMAIN log : log[i] \in [req : Requests, changes : Body]
    BY Elements DEF TypeOK
  <2> QED  BY <2>1 DEF Reported
<1> HIDE DEF k, e
<1>5. Reported' = Reported \union {r} /\ Wrote' = Wrote
  BY <1>2, <1>3 DEF Reported, Wrote
<1>6. TypeOK'
  BY <1>2 DEF TypeOK, Stages, Ended, Goto
<1>7. Moves(r)
  BY <1>1 DEF Moves, Ended
<1>8. \A q \in Requests : Target(q)' = Target(q) /\ (Stamped(q)' <=> Stamped(q))
  BY DEF Target, Stamped
<1>9. ASSUME NEW q \in Requests  PROVE Standing(q)'
  <2>1. CASE q = r
    <3>1. \A p \in earlier'[r] : pc'[p] \in Ended
      <4>1. \A p \in earlier[r] : pc[p] \in Ended /\ p \in Requests
        BY DEF Standing, TypeOK
      <4> QED  BY <1>1, <4>1 DEF Ended
    <3> QED  BY <1>1, <1>5, <1>8, <2>1, <3>1 DEF Standing
  <2>2. CASE q # r
    <3>1. \A p \in Requests : pc'[p] \in Ended \/ pc[p] \notin Ended
      BY <1>7, <1>1 DEF Moves
    <3>2. pc'[r] \in Stages
      BY <1>6 DEF TypeOK
    <3> QED  BY <1>5, <1>7, <2>2, <3>1, <3>2, OthersStand
  <2> QED  BY <2>1, <2>2
<1>10. InOrder'
  <2>1. \A i \in DOMAIN log : r # log[i].req /\ r \notin earlier[log[i].req]
    BY <1>4 DEF Standing, Ended
  <2>2. ASSUME NEW i \in DOMAIN log', NEW j \in DOMAIN log', i < j
        PROVE  log'[j].req # log'[i].req /\ log'[j].req \notin earlier[log'[i].req]
    <3>1. i \in DOMAIN log
      BY <1>2, <2>2
    <3>2. CASE j = k
      BY <1>2, <1>3, <2>1, <3>1, <3>2
    <3>3. CASE j \in DOMAIN log
      BY <1>2, <2>2, <3>1, <3>3 DEF InOrder
    <3> QED  BY <1>2, <3>2, <3>3
  <2>3. \A i \in DOMAIN log' : log'[i].changes = body[log'[i].req]
    BY <1>2, <1>3 DEF InOrder
  <2> QED  BY <2>2, <2>3 DEF InOrder
<1>11. LastTells'
  BY DEF LastTells, WritesOfValue, WritesOf, Value, Target
<1> QED  BY <1>6, <1>9, <1>10, <1>11

LEMMA ValueStep == ValueInv /\ [Next]_vars => ValueInv'
<1> SUFFICES ASSUME ValueInv, [Next]_vars  PROVE ValueInv'
  OBVIOUS
<1>1. ASSUME NEW r \in Requests, NEW c \in Call, Begin(r, c)  PROVE ValueInv'
  BY <1>1, BeginValues
<1>2. ASSUME NEW r \in Requests, CheckExists(r)  PROVE ValueInv'
  BY <1>2, StampValues
<1>3. ASSUME NEW r \in Requests, pc[r] = "persist", Write(r),
             UNCHANGED <<log, call, body, earlier>>,
             NEW s \in {"emit", "done", "failed"}, Goto(r, s),
             s = "done" => call[r].via # "service"
      PROVE  ValueInv'
  <2>1. CASE UNCHANGED <<store, wrote>>
    BY <1>3, <2>1, LeaveValues DEF Ended
  <2>2. CASE /\ store' = Overlay(store, [n \in {Target(r)} |-> Result(r)])
             /\ wrote' = Append(wrote, r)
    BY <1>3, <2>2, WriteValues
  <2> QED  BY <1>3, <2>1, <2>2 DEF Write
<1>4. ASSUME NEW r \in Requests, Persist(r)  PROVE ValueInv'
  <2> DEFINE s == IF call[r].via = "service" THEN "emit" ELSE "done"
  <2>1. s \in {"emit", "done", "failed"} /\ Goto(r, s) /\ (s = "done" => call[r].via # "service")
    BY <1>4 DEF Persist
  <2> HIDE DEF s
  <2> QED  BY <1>3, <1>4, <2>1 DEF Persist
<1>5. ASSUME NEW r \in Requests, DbFails(r)  PROVE ValueInv'
  <2>1. Goto(r, "failed") /\ pc[r] \in {"exists", "persist"} /\ UNCHANGED <<call, body, log, earlier>>
    BY <1>5 DEF DbFails
  <2>2. CASE UNCHANGED <<store, wrote>>
    BY <2>1, <2>2, LeaveValues DEF Ended
  <2>3. CASE pc[r] = "persist" /\ Write(r)
    BY <1>3, <2>1, <2>3
  <2> QED  BY <1>5, <2>2, <2>3 DEF DbFails
<1>6. ASSUME NEW r \in Requests, Emit(r)  PROVE ValueInv'
  <2>1. Goto(r, "done") /\ pc[r] = "emit" /\ UNCHANGED <<store, call, body, wrote, earlier>>
    BY <1>6 DEF Emit
  <2>2. CASE call[r].op = "update"
    BY <1>6, <2>1, <2>2, ReportValues DEF Emit
  <2>3. CASE call[r].op # "update"
    BY <1>6, <2>1, <2>3, LeaveValues DEF Emit, Ended
  <2> QED  BY <2>2, <2>3
<1>7. CASE UNCHANGED vars
  BY <1>7 DEF vars, ValueInv, TypeOK, Standing, Stamped, Wrote, Reported, Target, InOrder,
              LastTells, WritesOfValue, WritesOf, Value
<1> QED  BY <1>1, <1>2, <1>4, <1>5, <1>6, <1>7 DEF Next, Step

\* The stamp is that of the last writer.
LEMMA StampIsLast == ValueInv => UpdaterRecorded
<1> SUFFICES ASSUME ValueInv, NEW n \in DOMAIN store, NEW i \in WritesOf(n),
                    \A j \in WritesOf(n) : j <= i, call[wrote[i]].via = "service"
             PROVE  "updated_by" \in DOMAIN store[n] /\ store[n]["updated_by"] = wrote[i]
  BY DEF UpdaterRecorded
<1> DEFINE r == wrote[i]
<1>1. i \in DOMAIN wrote /\ r \in Requests /\ r \in Wrote
  BY DEF WritesOf, Wrote, ValueInv, TypeOK
<1>2. Stamped(r)
  BY <1>1 DEF ValueInv, Standing
<1>3. /\ i \in WritesOfValue(n, "updated_by")
      /\ \A j \in WritesOfValue(n, "updated_by") : j <= i
  BY <1>2 DEF WritesOfValue, Stamped
<1>4. Value(n, "updated_by") = r
  BY <1>1, <1>2, <1>3 DEF ValueInv, LastTells, Stamped
<1> QED  BY <1>1, <1>4, Users1 DEF Value

\* The last event about an attribute is that of its last writer.
LEMMA LastEventTells == ValueInv => EventsTellTheValue
<1> SUFFICES ASSUME ValueInv, NEW n \in DOMAIN store, NEW a \in Names,
                    WritersOfValue(n, a) # {},
                    \A r \in WritersOfValue(n, a) :
                      pc[r] = "done" /\ call[r].via = "service" /\ call[r].op = "update",
                    \A r, s \in WritersOfValue(n, a) : r = s \/ r \in earlier[s] \/ s \in earlier[r]
             PROVE  \E i \in {x \in DOMAIN log : log[x].req \in WritersOfValue(n, a)} :
                      /\ \A j \in {x \in DOMAIN log : log[x].req \in WritersOfValue(n, a)} : j <= i
                      /\ a \in DOMAIN log[i].changes
                      /\ log[i].changes[a] = Value(n, a)
  BY DEF EventsTellTheValue
<1> USE DEF ValueInv
<1> DEFINE T == WritesOfValue(n, a)
<1>1. wrote \in Seq(Requests) /\ Len(wrote) \in Nat /\ DOMAIN wrote = 1..Len(wrote)
  BY DEF TypeOK
<1>2. /\ WritersOfValue(n, a) = {wrote[i] : i \in T} /\ T \subseteq 1..Len(wrote)
      /\ T # {}
  BY <1>1 DEF WritersOfValue, WritesOfValue, WritesOf
<1>3. PICK l \in T : \A j \in T : j <= l
  BY <1>1, <1>2, LastOf
<1> DEFINE r == wrote[l]
<1>4. l \in DOMAIN wrote /\ r \in Requests /\ r \in WritersOfValue(n, a) /\ a \in DOMAIN body[r]
  BY <1>1, <1>2 DEF WritesOfValue
<1>5. Value(n, a) = body[r][a]
  BY <1>3, <1>4 DEF LastTells
<1>6. r \in Reported
  BY <1>4 DEF Standing
<1>7. PICK i \in DOMAIN log : log[i].req = r
  BY <1>6 DEF Reported
<1>8. log[i].changes = body[r]
  BY <1>7 DEF InOrder
<1>9. ASSUME NEW j \in DOMAIN log, log[j].req \in WritersOfValue(n, a), ~(j <= i)
      PROVE  FALSE
  <2>1. i < j
    <3>1. DOMAIN log = 1..Len(log) /\ Len(log) \in Nat
      BY DEF TypeOK
    <3> QED  BY <1>9, <3>1
  <2>2. log[j].req # r /\ log[j].req \notin earlier[r]
    BY <1>7, <2>1 DEF InOrder
  <2>3. PICK m \in T : wrote[m] = log[j].req
    BY <1>2, <1>9
  <2>4. m \in DOMAIN wrote /\ m < l
    BY <1>1, <1>2, <1>3, <2>2, <2>3
  <2>5. r \notin earlier[log[j].req]
    BY <1>4, <2>3, <2>4 DEF InOrder
  <2> QED  BY <1>4, <1>9, <2>2, <2>5
<1> HIDE DEF r, T
<1> QED  BY <1>4, <1>5, <1>7, <1>8, <1>9

\* Whatever requests interleave, fail or lose their reply: a node is stamped with
\* its last writer, and what the last event about an attribute says is the
\* attribute's value, if its writers did not overlap (NodeService.update_node).
THEOREM ValuesAreAccountedFor == Spec => []ValuesAccountedFor
<1>1. ValueInv => ValuesAccountedFor
  BY StampIsLast, LastEventTells DEF ValuesAccountedFor, ValueInv
<1> QED  BY ValueInit, ValueStep, <1>1, PTL DEF Spec
================================================================================
